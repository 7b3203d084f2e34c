--------------------------- MODULE EthToTon_proofs ---------------------------
(* The proofs about EthToTon: its types, and that every mint is backed by a  *)
(* transfer.  IInv is inductive; the actions of SwapJobs preserve it by what *)
(* SwapJobs_proofs says of them, and there is one lemma per action of its own.*)
EXTENDS EthToTon, SwapJobs_proofs, SequenceTheorems

-----------------------------------------------------------------------------
(* What an action on one swap has to show.                                   *)

\* The job of t is past the confirmations: mints are possible.
Late(t) == job[t].name \notin {"none", "confirm", "wait"}

\* A swap past its confirmations stays there, and its row keeps its backing.
KeepsBacking(s) == Late(s) => Late(s)' /\ KeepsRow(s)

\* An action on s that neither mines a block nor sends a mint (all handlers,
\* listeners and requests but mintTonJettons) preserves IInv if it preserves the
\* types and the part of the invariant that is about s.
LEMMA OwnStep ==
  ASSUME IInv, NEW s \in Swaps, TypeOK', SwapInv(s)', OnlyOf(s), KeepsBacking(s),
         chain' = chain, mints' = mints
  PROVE  IInv'
<1>1. ASSUME NEW t \in Swaps \ {s}
      PROVE  SwapInv(t)'
  BY DEF IInv, OnlyOf, SwapInv, RequestInv, ExitInv, ConfirmInv, PipelineInv, Quoted,
     Backed, Deep, At
<1>2. ASSUME NEW i \in 1..Len(mints), NEW t \in Swaps, mints[i].swap = t
      PROVE  /\ Late(t)'
             /\ Backed(t)'
             /\ Deep(t, TotalConfirmations)'
             /\ mints[i].to = RecipientOf[t]
             /\ mints[i].amount = swap'[t].destinationAmount
  <2>1. Late(t) /\ Backed(t) /\ Deep(t, TotalConfirmations)
        /\ mints[i].to = RecipientOf[t]
        /\ mints[i].amount = swap[t].destinationAmount
    BY <1>2 DEF IInv, MintInv, Late
  <2>2. CASE t = s
    BY <2>1, <2>2 DEF KeepsBacking, KeepsRow, Backed, Quoted, Deep
  <2>3. CASE t # s
    BY <2>1, <2>3 DEF OnlyOf, Late, Backed, Quoted, Deep
  <2> QED
    BY <2>2, <2>3
<1>3. MintInv'
  BY <1>2 DEF MintInv, Late
<1> QED
  BY <1>1, <1>3 DEF IInv

\* The actions of createSwap, cancelSwap, SwapsHelper, the clock, and a handler that
\* throws, none of which knows of the chains, preserve IInv.
LEMMA SharedStep ==
  ASSUME IInv, NEW s \in Swaps, Effect(s), UNCHANGED world
  PROVE  IInv'
<1>0. TypeOK /\ SwapInv(s) /\ UNCHANGED <<chain, mints, ton, fees>>
  BY DEF IInv, world
<1>1. TypeOK'
  BY <1>0 DEF Effect, TypeOK
<1>2. RequestInv(s)' /\ ExitInv(s)' /\ OnlyOf(s)
  BY DEF Effect
<1>3. job[s].name # "none" => KeepsRow(s)
  BY <1>0 DEF Effect, SwapInv, RequestInv
<1>4. ASSUME Backed(s), KeepsRow(s)
      PROVE  Backed(s)'
  BY <1>0, <1>4 DEF KeepsRow, Backed, Quoted
<1>5. ASSUME NEW n, Deep(s, n), KeepsRow(s)
      PROVE  Deep(s, n)'
  BY <1>0, <1>5 DEF KeepsRow, Deep
<1>6. ConfirmInv(s)'
  <2>1. ConfirmInv(s) /\ JobEffect(s)
    BY <1>0 DEF Effect, SwapInv
  <2> QED
    BY <1>0, <1>3, <1>4, <2>1 DEF JobEffect, ConfirmInv, At, KeepsRow
<1>7. PipelineInv(s)'
  <2>1. PipelineInv(s) /\ JobEffect(s)
    BY <1>0 DEF Effect, SwapInv
  <2> QED
    BY <1>0, <1>3, <1>4, <1>5, <2>1 DEF JobEffect, PipelineInv, KeepsRow
<1>8. KeepsBacking(s)
  BY <1>3 DEF Effect, JobEffect, KeepsBacking, Late
<1> QED
  BY <1>0, <1>1, <1>2, <1>6, <1>7, <1>8, OwnStep DEF SwapInv

-----------------------------------------------------------------------------
(* The handlers and listeners of EthToTon.                                   *)

\* Reading the row of the swap leaves a confirm job to settle it or to scan for
\* it (confirmEthTransfer).
LEMMA ConfirmReadStep ==
  ASSUME IInv, NEW s \in Swaps, ConfirmRead(s)
  PROVE  IInv'
<1>0. TypeOK /\ TablesOK /\ SwapInv(s)
  BY DEF IInv, TypeOK, TablesOK
<1>1. "scan" \in Stages
  BY DEF Stages
<1>6. /\ job[s].name = "confirm"
      /\ JobTyped(s)
      /\ job' = job
      /\ \/ /\ run'[s].stage = "exitRow"
            /\ run'[s].result \in {"canceled", "expired"}
         \/ run'[s].stage = "scan"
  BY <1>0, <1>1, ConfirmReadsFields DEF ConfirmRead, SwapInv
<1>7. UNCHANGED <<chain, mints, ton, fees, swap, wallet, request, cancel, age, faults>>
  BY DEF ConfirmRead, ConfirmReads, world
<1>2. TypeOK'
  BY <1>0, <1>6, <1>7 DEF TypeOK, TablesOK, JobTyped
<1>3. SwapInv(s)'
  BY <1>0, <1>6, <1>7 DEF JobTyped, SwapInv, RequestInv, ExitInv,
     ConfirmInv, PipelineInv, Quoted, Backed, Deep, At
<1>4. OnlyOf(s) /\ KeepsBacking(s)
  BY <1>0, <1>6, <1>7 DEF JobTyped, OnlyOf, KeepsBacking, Late, SwapInv,
     RequestInv, At
<1> QED
  BY <1>2, <1>3, <1>4, <1>7, OwnStep

\* A scan that finds a transfer to the source wallet holds its block
\* (confirmEthTransfer).
LEMMA ConfirmScanStep ==
  ASSUME IInv, NEW s \in Swaps, ConfirmScan(s)
  PROVE  IInv'
<1>0. TypeOK /\ TablesOK /\ SwapInv(s)
  BY DEF IInv, TypeOK, TablesOK
<1>1. job[s].name = "confirm" /\ job[s].arg \in Nat /\ "failed" \in Statuses
  BY <1>0 DEF TypeOK, TablesOK, ConfirmScan, At, Jobs, Statuses
<1>5. /\ JobTyped(s)
      /\ job'[s].name = "confirm"
      /\ \/ run'[s].stage \in {"idle", "failed"}
         \/ run'[s].stage = "exitRow" /\ run'[s].result = "failed"
         \/ /\ run'[s].stage = "row"
            /\ run'[s].tx \in 1..Len(chain)
            /\ chain[run'[s].tx].to = swap[s].sourceWallet
  <2>1. CASE Fails(s, "error") \/ Fails(s, "notFound")
    BY <1>0, <1>1, <2>1, FailsFields
  <2>2. CASE Exit(s, "failed")
    BY <1>0, <1>1, <2>2, ExitFields
  <2>3. ASSUME NEW n \in Payments(s), job[s].arg <= Len(chain),
               run' = [run EXCEPT ![s].stage = "row", ![s].tx = n], UNCHANGED job
        PROVE  /\ JobTyped(s)
               /\ job'[s].name = "confirm"
               /\ run'[s].stage = "row"
               /\ run'[s].tx \in 1..Len(chain)
               /\ chain[run'[s].tx].to = swap[s].sourceWallet
    <3>1. n \in 1..Len(chain) /\ n \in Nat /\ chain[n].to = swap[s].sourceWallet
      BY <1>0, <1>1, <2>3, LenProperties DEF Payments, Window, TypeOK, TablesOK
    <3> DEFINE next == [run[s] EXCEPT !.stage = "row", !.tx = n]
    <3>2. run \in [Swaps -> Runs] /\ job \in [Swaps -> Jobs] /\ "row" \in Stages
      BY <1>0 DEF TablesOK, Stages
    <3>3. run' = [run EXCEPT ![s] = next] /\ job' = job
      BY <2>3, <3>2
    <3>4. next \in Runs /\ next.stage = "row" /\ next.tx = n
      BY <3>1, <3>2 DEF Runs
    <3> HIDE DEF next
    <3>5. JobTyped(s) /\ run'[s] = next
      BY <3>2, <3>3, <3>4 DEF JobTyped
    <3> QED
      BY <1>1, <3>1, <3>3, <3>4, <3>5
  <2> QED
    BY <2>1, <2>2, <2>3 DEF ConfirmScan
<1>2. TypeOK'
  BY <1>0, <1>1, <1>5 DEF TypeOK, TablesOK, ConfirmScan, JobTyped
<1>3. SwapInv(s)'
  BY <1>0, <1>1, <1>5 DEF ConfirmScan, JobTyped, SwapInv, RequestInv, ExitInv,
     ConfirmInv, PipelineInv, Quoted, Backed, Deep, At
<1>4. OnlyOf(s) /\ KeepsBacking(s)
  BY <1>0, <1>1, <1>5 DEF ConfirmScan, JobTyped, OnlyOf, KeepsBacking, Late, SwapInv,
     RequestInv, At
<1> QED
  BY <1>2, <1>3, <1>4, OwnStep DEF ConfirmScan

\* The row written names the transfer found, and holds the amounts computed
\* from it (confirmEthTransfer).
LEMMA ConfirmWriteRowStep ==
  ASSUME IInv, NEW s \in Swaps, ConfirmWriteRow(s)
  PROVE  IInv'
<1>0. TypeOK /\ TablesOK /\ SwapInv(s)
  BY DEF IInv, TypeOK, TablesOK
<1>1. job[s].name = "confirm" /\ run[s].stage = "row" /\ "credit" \in Stages
  BY DEF ConfirmWriteRow, At, Stages
<1> DEFINE tx == run[s].tx
           amount == chain[tx].amount
           row == swap[s]
<1>5. /\ tx \in 1..Len(chain)
      /\ chain[tx].to = row.sourceWallet
      /\ row.sourceWallet \in Wallets
      /\ Quoted(s)
      /\ row \in Rows
      /\ tx \in Nat
  BY <1>0, <1>1 DEF TypeOK, TablesOK, SwapInv, RequestInv, ExitInv, ConfirmInv, At,
     Runs
<1>6. amount \in Transferred
  <2>1. chain[tx] \in Transfers \cup {NoTransfer}
    BY <1>0, <1>5, ElementOfSeq DEF TypeOK, TablesOK
  <2>2. chain[tx] # NoTransfer
    BY <1>5, WalletAssumption DEF NoTransfer
  <2> QED
    BY <2>1, <2>2 DEF Transfers
<1>8. /\ JobTyped(s)
      /\ job' = job
      /\ run'[s].stage = "credit"
      /\ run'[s].tx = run[s].tx
  BY <1>0, <1>1, GotoFields DEF ConfirmWriteRow
<1>9. /\ swap' \in [Swaps -> Rows]
      /\ \A t \in Swaps \ {s} : swap'[t] = swap[t]
      /\ swap'[s].status = "confirmed"
      /\ swap'[s].sourceTransactionId = tx
      /\ swap'[s].sourceWallet = row.sourceWallet
      /\ swap'[s].sourceAmount = amount
      /\ Quoted(s)'
  <2>1. swap' = [swap EXCEPT ![s] = ConfirmedRow(s, amount, tx)]
    BY DEF ConfirmWriteRow
  <2>2. TablesOK /\ Quoted(s)
    BY <1>0, <1>5
  <2>3. PICK m \in Transferred, n \in Nat : m = amount /\ n = tx
    BY <1>5, <1>6
  <2>4. swap' = [swap EXCEPT ![s] = ConfirmedRow(s, m, n)]
    BY <2>1, <2>3
  <2> HIDE DEF tx, amount
  <2>5. /\ swap' \in [Swaps -> Rows]
        /\ \A t \in Swaps \ {s} : swap'[t] = swap[t]
        /\ swap'[s].status = "confirmed"
        /\ swap'[s].sourceTransactionId = n
        /\ swap'[s].sourceWallet = swap[s].sourceWallet
        /\ swap'[s].sourceAmount = m
        /\ Quoted(s)'
    BY <2>2, <2>4, ConfirmedRowFields
  <2> QED
    BY <2>3, <2>5
<1>11. Backed(s)'
  <2>1. chain' = chain
    BY DEF ConfirmWriteRow
  <2> QED
    BY <1>5, <1>9, <2>1 DEF Quoted, Backed
<1> HIDE DEF tx, amount, row
<1>2. TypeOK'
  BY <1>0, <1>1, <1>8, <1>9, <1>11 DEF TypeOK, TablesOK, ConfirmWriteRow,
     JobTyped
<1>3. SwapInv(s)'
  BY <1>0, <1>1, <1>8, <1>9, <1>11 DEF ConfirmWriteRow, JobTyped, SwapInv,
     RequestInv, ExitInv, ConfirmInv, PipelineInv, Deep, At, tx, row
<1>4. OnlyOf(s) /\ KeepsBacking(s)
  BY <1>0, <1>1, <1>8, <1>9, <1>11 DEF ConfirmWriteRow, JobTyped, OnlyOf,
     KeepsBacking, Late, SwapInv, RequestInv, At
<1> QED
  BY <1>2, <1>3, <1>4, OwnStep DEF ConfirmWriteRow

\* The credit of the wallet ends the confirm job with its transfer in the row
\* (confirmEthTransfer).
LEMMA ConfirmCreditStep ==
  ASSUME IInv, NEW s \in Swaps, ConfirmCredit(s), UNCHANGED world
  PROVE  IInv'
<1>0. TypeOK /\ TablesOK /\ SwapInv(s)
  BY DEF IInv, TypeOK, TablesOK
<1>1. job[s].name = "confirm" /\ run[s].stage = "credit" /\ "confirmed" \in Statuses
  BY DEF ConfirmCredit, At, Statuses
<1>5. /\ WalletTyped
      /\ JobTyped(s)
      /\ job' = job
      /\ run'[s].stage = "completed"
      /\ run'[s].tx = run[s].tx
      /\ run'[s].result = "confirmed"
  BY <1>0, ConfirmCreditFields
<1>6. UNCHANGED <<chain, mints, ton, fees, swap, request, cancel, age, faults>>
  BY DEF ConfirmCredit, world
<1>2. TypeOK'
  BY <1>0, <1>1, <1>5, <1>6 DEF TypeOK, TablesOK, JobTyped,
     WalletTyped
<1>3. SwapInv(s)'
  BY <1>0, <1>1, <1>5, <1>6 DEF JobTyped, WalletTyped, SwapInv,
     RequestInv, ExitInv, ConfirmInv, PipelineInv, Quoted, Backed, Deep, At
<1>4. OnlyOf(s) /\ KeepsBacking(s)
  BY <1>0, <1>1, <1>5, <1>6 DEF JobTyped, WalletTyped, OnlyOf,
     KeepsBacking, Late, SwapInv, RequestInv, At
<1> QED
  BY <1>2, <1>3, <1>4, <1>6, OwnStep

\* The failed listener of a confirm job adds another
\* (onConfirmEthTransferFailed).
LEMMA OnConfirmFailedStep ==
  ASSUME IInv, NEW s \in Swaps, OnConfirmFailed(s)
  PROVE  IInv'
<1>0. TypeOK /\ TablesOK /\ SwapInv(s)
  BY DEF IInv, TypeOK, TablesOK
<1>1. job[s].name = "confirm" /\ NextBlock(s) \in Nat
  BY <1>0 DEF TypeOK, TablesOK, OnConfirmFailed, At, NextBlock, Jobs
<1>5. NextConfirm(s) \in Jobs /\ NextConfirm(s).name = "confirm"
  <2>1. "confirm" \in JobNames /\ 0 \in Nat /\ 1 \in Nat
    BY DEF JobNames
  <2> QED
    BY <1>1, <2>1, NewJobFields DEF NextConfirm
<1>6. JobTyped(s) /\ job'[s].name = "confirm" /\ run'[s].stage = "idle"
  BY <1>0, <1>5, RestFields, EnqueueFields DEF OnConfirmFailed
<1>2. TypeOK'
  BY <1>0, <1>1, <1>6 DEF TypeOK, TablesOK, OnConfirmFailed, JobTyped
<1>3. SwapInv(s)'
  BY <1>0, <1>1, <1>6 DEF OnConfirmFailed, JobTyped, SwapInv, RequestInv, ExitInv,
     ConfirmInv, PipelineInv, Quoted, Backed, Deep, At
<1>4. OnlyOf(s) /\ KeepsBacking(s)
  BY <1>0, <1>1, <1>6 DEF OnConfirmFailed, JobTyped, OnlyOf, KeepsBacking, Late,
     SwapInv, RequestInv, At
<1> QED
  BY <1>2, <1>3, <1>4, OwnStep DEF OnConfirmFailed

\* The first wait job carries the transfer of the row
\* (onConfirmEthTransferCompleted).
LEMMA OnConfirmCompletedStep ==
  ASSUME IInv, NEW s \in Swaps, OnConfirmCompleted(s)
  PROVE  IInv'
<1>0. TypeOK /\ TablesOK /\ SwapInv(s)
  BY DEF IInv, TypeOK, TablesOK
<1>1. /\ job[s].name = "confirm"
      /\ run[s].stage = "completed"
      /\ run[s].tx \in Nat
      /\ NormalAttempts \in Nat
  BY <1>0, AttemptAssumption DEF TypeOK, TablesOK, OnConfirmCompleted, At, Runs
<1>5. LET new == NewJob("wait", 2, run[s].tx, NormalAttempts)
      IN  new \in Jobs /\ new.name = "wait" /\ new.arg = 2 /\ new.tx = run[s].tx
  <2>1. "wait" \in JobNames /\ 2 \in Nat
    BY DEF JobNames
  <2>2. \A tx, attempts \in Nat :
          /\ NewJob("wait", 2, tx, attempts) \in Jobs
          /\ NewJob("wait", 2, tx, attempts).name = "wait"
          /\ NewJob("wait", 2, tx, attempts).arg = 2
          /\ NewJob("wait", 2, tx, attempts).tx = tx
    BY <2>1, NewJobFields
  <2> QED
    BY <1>1, <2>2
<1>6. /\ JobTyped(s)
      /\ run'[s].stage = "idle"
      /\ \/ job'[s].name = "ended"
         \/ /\ Processable(run[s].result)
            /\ job'[s].name = "wait"
            /\ job'[s].arg = 2
            /\ job'[s].tx = run[s].tx
  <2>1. CASE ~Processable(run[s].result)
    BY <1>0, <2>1, RestFields, EnqueueFields DEF OnConfirmCompleted
  <2>2. CASE Processable(run[s].result)
    BY <1>0, <1>5, <2>2, RestFields, EnqueueFields DEF OnConfirmCompleted
  <2> QED
    BY <2>1, <2>2
<1>2. TypeOK'
  BY <1>0, <1>1, <1>6 DEF TypeOK, TablesOK, OnConfirmCompleted, JobTyped
<1>3. SwapInv(s)'
  BY <1>0, <1>1, <1>6 DEF OnConfirmCompleted, JobTyped, SwapInv, RequestInv, ExitInv,
     ConfirmInv, PipelineInv, Quoted, Backed, Deep, At
<1>4. OnlyOf(s) /\ KeepsBacking(s)
  BY <1>0, <1>1, <1>6 DEF OnConfirmCompleted, JobTyped, OnlyOf, KeepsBacking, Late,
     SwapInv, RequestInv, At
<1> QED
  BY <1>2, <1>3, <1>4, OwnStep DEF OnConfirmCompleted

\* Reading the row leaves a wait job to settle the swap or to wait
\* (waitForEthTransferConfirmation).
LEMMA WaitReadStep ==
  ASSUME IInv, NEW s \in Swaps, WaitRead(s)
  PROVE  IInv'
<1>0. TypeOK /\ TablesOK /\ SwapInv(s)
  BY DEF IInv, TypeOK, TablesOK
<1>1. /\ job[s].name = "wait"
      /\ run[s].stage = "idle"
      /\ "expired" \in Statuses
      /\ "await" \in Stages
  BY DEF WaitRead, Takes, Statuses, Stages
<1>5. /\ JobTyped(s)
      /\ job' = job
      /\ \/ run'[s].stage = "exitRow" /\ run'[s].result = "expired"
         \/ run'[s].stage = "await"
  BY <1>0, <1>1, ExitFields, GotoFields DEF WaitRead
<1>2. TypeOK'
  BY <1>0, <1>1, <1>5 DEF TypeOK, TablesOK, WaitRead, JobTyped
<1>3. SwapInv(s)'
  BY <1>0, <1>1, <1>5 DEF WaitRead, JobTyped, SwapInv, RequestInv, ExitInv,
     ConfirmInv, PipelineInv, Quoted, Backed, Deep, At
<1>4. OnlyOf(s) /\ KeepsBacking(s)
  BY <1>0, <1>1, <1>5 DEF WaitRead, JobTyped, OnlyOf, KeepsBacking, Late, SwapInv,
     RequestInv, At
<1> QED
  BY <1>2, <1>3, <1>4, OwnStep DEF WaitRead

\* A wait that ends has seen the depth it asked for (waitForTransaction).
LEMMA WaitConfirmedStep ==
  ASSUME IInv, NEW s \in Swaps, WaitConfirmed(s)
  PROVE  IInv'
<1>0. TypeOK /\ TablesOK /\ SwapInv(s)
  BY DEF IInv, TypeOK, TablesOK
<1>1. /\ job[s].name = "wait"
      /\ "confirmed" \in Statuses
      /\ job[s].arg \in Nat
      /\ Buried(job[s].tx, job[s].arg)
  BY <1>0 DEF TypeOK, TablesOK, WaitConfirmed, At, Statuses, Jobs
<1>5. JobTyped(s) /\ job' = job /\ run'[s].stage = "completed"
  BY <1>0, <1>1, ReturnFields DEF WaitConfirmed
<1>6. RowTyped(s) /\ swap'[s].status = "confirmed"
  BY <1>0, <1>1, ConfirmationsFields DEF WaitConfirmed
<1>2. TypeOK'
  BY <1>0, <1>1, <1>5, <1>6 DEF TypeOK, TablesOK, WaitConfirmed, JobTyped, RowTyped
<1>3. SwapInv(s)'
  BY <1>0, <1>1, <1>5, <1>6 DEF WaitConfirmed, JobTyped, RowTyped, KeepsRow, SwapInv,
     RequestInv, ExitInv, ConfirmInv, PipelineInv, Quoted, Backed, Deep, At, Buried
<1>4. OnlyOf(s) /\ KeepsBacking(s)
  BY <1>0, <1>1, <1>5, <1>6 DEF WaitConfirmed, JobTyped, RowTyped, KeepsRow, OnlyOf,
     KeepsBacking, Late, SwapInv, RequestInv, At
<1> QED
  BY <1>2, <1>3, <1>4, OwnStep DEF WaitConfirmed

\* The next wait job asks for one more block, and a mint job follows the last
\* one (onWaitForEthTransferConfirmationCompleted).
LEMMA OnWaitCompletedStep ==
  ASSUME IInv, NEW s \in Swaps, OnWaitCompleted(s)
  PROVE  IInv'
<1>0. TypeOK /\ TablesOK /\ SwapInv(s)
  BY DEF IInv, TypeOK, TablesOK
<1>1. /\ job[s].name = "wait"
      /\ run[s].stage = "completed"
      /\ job[s].arg \in Nat
      /\ job[s].arg + 1 \in Nat
      /\ job[s].tx \in Nat
      /\ ExtendedAttempts \in Nat
  BY <1>0, AttemptAssumption DEF TypeOK, TablesOK, OnWaitCompleted, At, Jobs
<1>5. LET new == NewJob("wait", job[s].arg + 1, job[s].tx, 1)
      IN  /\ new \in Jobs
          /\ new.name = "wait"
          /\ new.arg = job[s].arg + 1
          /\ new.tx = job[s].tx
  <2> DEFINE next == job[s].arg + 1
             tx == job[s].tx
  <2>1. next \in Nat /\ tx \in Nat
    BY <1>1
  <2> HIDE DEF next, tx
  <2>2. LET new == NewJob("wait", next, tx, 1)
        IN  new \in Jobs /\ new.name = "wait" /\ new.arg = next /\ new.tx = tx
    BY <2>1, NewJobFields DEF JobNames
  <2> QED
    BY <2>2 DEF next, tx
<1>6. LET new == NewJob("mint", 0, 0, ExtendedAttempts)
      IN  new \in Jobs /\ new.name = "mint"
  BY AttemptAssumption, NewJobFields DEF JobNames
<1>7. /\ JobTyped(s)
      /\ run'[s].stage = "idle"
      /\ \/ job'[s].name = "ended"
         \/ /\ Processable(run[s].result)
            /\ job'[s].name = "wait"
            /\ job'[s].arg = job[s].arg + 1
            /\ job'[s].tx = job[s].tx
         \/ /\ Processable(run[s].result)
            /\ job[s].arg >= TotalConfirmations
            /\ job'[s].name = "mint"
  <2>1. CASE ~Processable(run[s].result)
    BY <1>0, <2>1, RestFields, EnqueueFields DEF OnWaitCompleted
  <2>2. CASE Processable(run[s].result) /\ job[s].arg < TotalConfirmations
    BY <1>0, <1>5, <2>2, RestFields, EnqueueFields DEF OnWaitCompleted
  <2>3. CASE Processable(run[s].result) /\ ~(job[s].arg < TotalConfirmations)
    BY <1>0, <1>1, <1>6, <2>3, RestFields, EnqueueFields, ConfirmationAssumption DEF
       OnWaitCompleted
  <2> QED
    BY <2>1, <2>2, <2>3
<1>8. /\ Len(chain) \in Nat
      /\ swap[s].sourceTransactionId \in Nat
      /\ TotalConfirmations \in Nat
  BY <1>0, LenProperties, ConfirmationAssumption DEF TypeOK, TablesOK, Rows
<1>9. /\ Backed(s)
      /\ job[s].tx = swap[s].sourceTransactionId
      /\ job[s].arg >= 2
      /\ Processable(run[s].result) => Deep(s, job[s].arg)
  BY <1>0, <1>1 DEF SwapInv, PipelineInv
<1>10. PipelineInv(s)'
  <2>1. chain' = chain /\ swap' = swap
    BY DEF OnWaitCompleted
  <2>2. Backed(s)'
    BY <1>9, <2>1 DEF Backed, Quoted
  <2>3. CASE job'[s].name = "ended"
    BY <2>3 DEF PipelineInv
  <2>4. CASE /\ Processable(run[s].result)
             /\ job'[s].name = "wait"
             /\ job'[s].arg = job[s].arg + 1
             /\ job'[s].tx = job[s].tx
    BY <1>1, <1>7, <1>8, <1>9, <2>1, <2>2, <2>4 DEF PipelineInv, Deep
  <2>5. CASE /\ Processable(run[s].result)
             /\ job[s].arg >= TotalConfirmations
             /\ job'[s].name = "mint"
    BY <1>1, <1>8, <1>9, <2>1, <2>2, <2>5 DEF PipelineInv, Deep
  <2> QED
    BY <1>7, <2>3, <2>4, <2>5
<1>2. TypeOK'
  BY <1>0, <1>1, <1>7, <1>9, <1>10 DEF TypeOK, TablesOK, OnWaitCompleted, JobTyped
<1>3. SwapInv(s)'
  BY <1>0, <1>1, <1>7, <1>9, <1>10 DEF OnWaitCompleted, JobTyped, SwapInv,
     RequestInv, ExitInv, ConfirmInv, Quoted, At
<1>4. OnlyOf(s) /\ KeepsBacking(s)
  BY <1>0, <1>1, <1>7, <1>9, <1>10 DEF OnWaitCompleted, JobTyped, OnlyOf,
     KeepsBacking, Late, SwapInv, RequestInv, At
<1> QED
  BY <1>2, <1>3, <1>4, OwnStep DEF OnWaitCompleted

\* A handler or listener of the mint and fee jobs goes on with one of them or ends,
\* and its row keeps its backing.
LEMMA LateStep ==
  ASSUME IInv, NEW s \in Swaps, TypeOK', JobTyped(s), RowTyped(s),
         job[s].name \in {"mint", "getMint", "fee"},
         job'[s].name \in {"mint", "getMint", "fee", "ended", "lost"},
         swap'[s].status \in {swap[s].status, "completed"},
         run'[s].stage = "exitRow" => run'[s].result \in {"expired", "failed"},
         run'[s].stage # "exitWallet",
         UNCHANGED <<chain, mints, ton, request, cancel>>
  PROVE  IInv'
<1>1. SwapInv(s) /\ KeepsRow(s)
  BY DEF IInv, RowTyped
<1>2. RequestInv(s)'
  BY <1>1, HandlerKeepsRequest DEF SwapInv
<1>3. ExitInv(s)' /\ ConfirmInv(s)'
  BY DEF ExitInv, ConfirmInv, At
<1>4. Backed(s) /\ Deep(s, TotalConfirmations)
  BY <1>1 DEF SwapInv, PipelineInv
<1>5. Backed(s)' /\ Deep(s, TotalConfirmations)'
  BY <1>1, <1>4 DEF KeepsRow, Backed, Quoted, Deep
<1>6. PipelineInv(s)'
  BY <1>5 DEF PipelineInv
<1>7. OnlyOf(s)
  BY DEF JobTyped, RowTyped, OnlyOf
<1>8. KeepsBacking(s)
  BY <1>1 DEF KeepsBacking, Late
<1> QED
  BY <1>2, <1>3, <1>6, <1>7, <1>8, OwnStep DEF SwapInv

\* A mint job whose row is read settles the swap or goes on to send
\* (mintTonJettons).
LEMMA MintReadStep ==
  ASSUME IInv, NEW s \in Swaps, MintRead(s)
  PROVE  IInv'
<1>0. TypeOK /\ TablesOK
  BY DEF IInv, TypeOK
<1>1. /\ job[s].name = "mint"
      /\ "expired" \in Statuses
      /\ "failed" \in Statuses
      /\ "send" \in Stages
  BY DEF MintRead, MinterRead, Takes, Statuses, Stages
<1>2. /\ JobTyped(s)
      /\ job' = job
      /\ \/ run'[s].stage = "exitRow" /\ run'[s].result \in {"expired", "failed"}
         \/ run'[s].stage = "send"
  BY <1>0, <1>1, ExitFields, GotoFields DEF MintRead, MinterRead
<1>3. UNCHANGED <<chain, mints, ton, fees, swap, wallet, request, cancel, age, faults>>
  BY DEF MintRead, MinterRead
<1>4. TypeOK'
  BY <1>0, <1>2, <1>3 DEF TypeOK, TablesOK, JobTyped
<1> QED
  BY <1>0, <1>1, <1>2, <1>3, <1>4, SameRow, LateStep

\* A getMint job follows the mint job (onMintTonJettonsCompleted).
LEMMA OnMintCompletedStep ==
  ASSUME IInv, NEW s \in Swaps, OnMintCompleted(s)
  PROVE  IInv'
<1>0. TypeOK /\ TablesOK
  BY DEF IInv, TypeOK
<1>1. job[s].name = "mint" /\ "getMint" \in JobNames /\ ExtendedAttempts \in Nat /\ 0 \in Nat
  BY AttemptAssumption DEF OnMintCompleted, At, JobNames
<1>2. LET new == NewJob("getMint", 0, 0, ExtendedAttempts)
      IN  new \in Jobs /\ new.name = "getMint"
  BY <1>1, NewJobFields
<1>3. /\ JobTyped(s)
      /\ run'[s].stage = "idle"
      /\ job'[s].name \in {"ended", "getMint"}
  BY <1>0, <1>2, RestFields, EnqueueFields DEF OnMintCompleted
<1>4. UNCHANGED <<chain, mints, ton, fees, swap, wallet, request, cancel, age, faults>>
  BY DEF OnMintCompleted
<1>5. TypeOK'
  BY <1>0, <1>3, <1>4 DEF TypeOK, TablesOK, JobTyped
<1> QED
  BY <1>0, <1>1, <1>3, <1>4, <1>5, SameRow, LateStep

\* A getMint job whose row is read settles the swap or goes on to search
\* (getTonMintTransaction).
LEMMA GetMintReadStep ==
  ASSUME IInv, NEW s \in Swaps, GetMintRead(s)
  PROVE  IInv'
<1>0. TypeOK /\ TablesOK
  BY DEF IInv, TypeOK
<1>1. /\ job[s].name = "getMint"
      /\ "expired" \in Statuses
      /\ "failed" \in Statuses
      /\ "find" \in Stages
  BY DEF GetMintRead, MinterRead, Takes, Statuses, Stages
<1>2. /\ JobTyped(s)
      /\ job' = job
      /\ \/ run'[s].stage = "exitRow" /\ run'[s].result \in {"expired", "failed"}
         \/ run'[s].stage = "find"
  BY <1>0, <1>1, ExitFields, GotoFields DEF GetMintRead, MinterRead
<1>3. UNCHANGED <<chain, mints, ton, fees, swap, wallet, request, cancel, age, faults>>
  BY DEF GetMintRead, MinterRead
<1>4. TypeOK'
  BY <1>0, <1>2, <1>3 DEF TypeOK, TablesOK, JobTyped
<1> QED
  BY <1>0, <1>1, <1>2, <1>3, <1>4, SameRow, LateStep

\* A search that ends completes the swap or fails (getTonMintTransaction).
LEMMA GetMintFindStep ==
  ASSUME IInv, NEW s \in Swaps, GetMintFind(s)
  PROVE  IInv'
<1>0. TypeOK /\ TablesOK
  BY DEF IInv, TypeOK
<1>1. job[s].name = "getMint" /\ "completed" \in Statuses
  BY DEF GetMintFind, At, Statuses
<1>2. /\ JobTyped(s)
      /\ RowTyped(s)
      /\ swap'[s].status \in {swap[s].status, "completed"}
      /\ job'[s].name \in {"getMint", "lost"}
      /\ run'[s].stage \in {"idle", "completed"}
  <2>1. CASE /\ swap' = [swap EXCEPT ![s].status = "completed"]
             /\ Return(s, "completed")
    BY <1>0, <1>1, <2>1, ReturnFields, StatusFields
  <2>2. CASE UNCHANGED swap /\ Fails(s, "error")
    BY <1>0, <1>1, <2>2, SameRow, FailsFields
  <2> QED
    BY <2>1, <2>2 DEF GetMintFind
<1>3. UNCHANGED <<chain, mints, ton, fees, wallet, request, cancel, age, faults>>
  BY DEF GetMintFind
<1>4. TypeOK'
  BY <1>0, <1>2, <1>3 DEF TypeOK, TablesOK, JobTyped, RowTyped
<1> QED
  BY <1>1, <1>2, <1>3, <1>4, LateStep

\* A fee job follows the getMint job (onGetTonMintTransactionCompleted).
LEMMA OnGetMintCompletedStep ==
  ASSUME IInv, NEW s \in Swaps, OnGetMintCompleted(s)
  PROVE  IInv'
<1>0. TypeOK /\ TablesOK
  BY DEF IInv, TypeOK
<1>1. job[s].name = "getMint" /\ "fee" \in JobNames /\ UltimateAttempts \in Nat /\ 0 \in Nat
  BY AttemptAssumption DEF OnGetMintCompleted, At, JobNames
<1>2. LET new == NewJob("fee", 0, 0, UltimateAttempts)
      IN  new \in Jobs /\ new.name = "fee"
  BY <1>1, NewJobFields
<1>3. /\ JobTyped(s)
      /\ run'[s].stage = "idle"
      /\ job'[s].name \in {"ended", "fee"}
  BY <1>0, <1>2, RestFields, EnqueueFields DEF OnGetMintCompleted
<1>4. UNCHANGED <<chain, mints, ton, fees, swap, wallet, request, cancel, age, faults>>
  BY DEF OnGetMintCompleted
<1>5. TypeOK'
  BY <1>0, <1>3, <1>4 DEF TypeOK, TablesOK, JobTyped
<1> QED
  BY <1>0, <1>1, <1>3, <1>4, <1>5, SameRow, LateStep

\* A fee job whose row is read ends or goes on to send (transferEthFee).
LEMMA FeeReadStep ==
  ASSUME IInv, NEW s \in Swaps, FeeRead(s)
  PROVE  IInv'
<1>0. TypeOK /\ TablesOK /\ SwapInv(s)
  BY DEF IInv, TypeOK
<1>1. job[s].name = "fee" /\ swap[s].sourceWallet \in Wallets /\ "send" \in Stages
  BY <1>0 DEF FeeRead, Takes, SwapInv, RequestInv, Stages
<1>2. /\ JobTyped(s)
      /\ job'[s].name \in {"fee", "ended"}
      /\ run'[s].stage \in {"idle", "send"}
  <2>1. CASE Enqueue(s, EndedJob)
    BY <1>0, <2>1, RestFields, EnqueueFields
  <2>2. CASE GotoWithBalance(s, "send")
    BY <1>0, <1>1, <2>2, GotoWithBalanceFields
  <2> QED
    BY <2>1, <2>2 DEF FeeRead
<1>3. UNCHANGED <<chain, mints, ton, fees, swap, wallet, request, cancel, age, faults>>
  BY DEF FeeRead
<1>4. TypeOK'
  BY <1>0, <1>2, <1>3 DEF TypeOK, TablesOK, JobTyped
<1> QED
  BY <1>0, <1>1, <1>2, <1>3, <1>4, SameRow, LateStep

\* Sending the fee touches neither the row nor the depth (transferEthFee).
LEMMA FeeSendStep ==
  ASSUME IInv, NEW s \in Swaps, FeeSend(s)
  PROVE  IInv'
<1>0. TypeOK /\ TablesOK
  BY DEF IInv, TypeOK
<1>1. job[s].name = "fee" /\ "collect" \in Stages
  BY DEF FeeSend, At, Stages
<1>2. /\ JobTyped(s)
      /\ job'[s].name \in {"fee", "lost"}
      /\ run'[s].stage \in {"idle", "collect"}
  <2>1. CASE Goto(s, "collect")
    BY <1>0, <1>1, <2>1, GotoFields
  <2>2. CASE Fails(s, "error")
    BY <1>0, <1>1, <2>2, FailsFields
  <2> QED
    BY <2>1, <2>2 DEF FeeSend
<1>3. fees' \in [Swaps -> Nat]
  <2>1. fees \in [Swaps -> Nat]
    BY <1>0 DEF TypeOK
  <2>2. [fees EXCEPT ![s] = @ + 1] \in [Swaps -> Nat]
    BY <2>1
  <2> QED
    BY <2>1, <2>2 DEF FeeSend
<1>4. faults' \in Nat
  BY <1>0 DEF TablesOK, FeeSend, Fault
<1>5. UNCHANGED <<chain, mints, ton, swap, wallet, request, cancel, age>>
  BY DEF FeeSend
<1>6. TypeOK'
  BY <1>0, <1>2, <1>3, <1>4, <1>5 DEF TypeOK, TablesOK, JobTyped
<1> QED
  BY <1>0, <1>1, <1>2, <1>5, <1>6, SameRow, LateStep

\* Marking the fee collected leaves the amounts (transferEthFee).
LEMMA FeeWriteRowStep ==
  ASSUME IInv, NEW s \in Swaps, FeeWriteRow(s)
  PROVE  IInv'
<1>0. TypeOK /\ TablesOK
  BY DEF IInv, TypeOK
<1>1. job[s].name = "fee" /\ "debit" \in Stages
  BY DEF FeeWriteRow, At, Stages
<1>2. JobTyped(s) /\ job' = job /\ run'[s].stage = "debit"
  BY <1>0, <1>1, GotoFields DEF FeeWriteRow
<1>3. RowTyped(s) /\ swap'[s].status = swap[s].status
  BY <1>0, CollectedFields DEF FeeWriteRow
<1>4. UNCHANGED <<chain, mints, ton, fees, wallet, request, cancel, age, faults>>
  BY DEF FeeWriteRow
<1>5. TypeOK'
  BY <1>0, <1>2, <1>3, <1>4 DEF TypeOK, TablesOK, JobTyped, RowTyped
<1> QED
  BY <1>1, <1>2, <1>3, <1>4, <1>5, LateStep

\* The balance debited is never negative (transferEthFee).
LEMMA FeeDebitStep ==
  ASSUME IInv, NEW s \in Swaps, FeeDebit(s)
  PROVE  IInv'
<1>0. TypeOK /\ TablesOK
  BY DEF IInv, TypeOK
<1>1. job[s].name = "fee" /\ swap[s].fee \in Nat
  BY <1>0 DEF FeeDebit, At, TablesOK, Rows
<1>2. /\ JobTyped(s)
      /\ job'[s].name \in {"fee", "ended", "lost"}
      /\ run'[s].stage = "idle"
  <2>1. CASE Enqueue(s, EndedJob)
    BY <1>0, <2>1, RestFields, EnqueueFields
  <2>2. CASE DebitRefused(s, swap[s].fee)
    BY <1>0, <1>1, <2>2, FailsFields DEF DebitRefused
  <2> QED
    BY <2>1, <2>2 DEF FeeDebit
<1>3. WalletTyped
  BY <1>0, <1>1, DebitTyped DEF FeeDebit
<1>4. UNCHANGED <<chain, mints, ton, fees, swap, request, cancel, age, faults>>
  BY DEF FeeDebit
<1>5. TypeOK'
  BY <1>0, <1>2, <1>3, <1>4 DEF TypeOK, TablesOK, JobTyped, WalletTyped
<1> QED
  BY <1>0, <1>1, <1>2, <1>4, <1>5, SameRow, LateStep

-----------------------------------------------------------------------------
(* The actions that reach beyond one row: a mint, a block and a crash.       *)

\* mintTonJettons hands over the mint of its row, or nothing.
LEMMA MintsExtended ==
  ASSUME TypeOK, NEW s \in Swaps, MintSend(s)
  PROVE  /\ mints' \in Seq(Mints)
         /\ MintOf(s) \in Mints
         /\ mints' = mints \/ mints' = Append(mints, MintOf(s))
<1>1. mints \in Seq(Mints) /\ MintOf(s) \in Mints
  BY RecipientAssumption DEF TypeOK, TablesOK, Mints, Rows, MintOf
<1>2. mints' = mints \/ mints' = Append(mints, MintOf(s))
  BY DEF MintSend
<1> QED
  BY <1>1, <1>2, AppendProperties

\* A mint is sent for the amount of a row that is backed and deep enough, to the
\* recipient of its swap (mintTonJettons).
LEMMA MintSendStep ==
  ASSUME IInv, NEW s \in Swaps, MintSend(s)
  PROVE  IInv'
<1>0. TypeOK /\ TablesOK /\ SwapInv(s) /\ MintInv
  BY DEF IInv, TypeOK, TablesOK
<1>1. /\ job[s].name = "mint"
      /\ run[s].stage = "send"
      /\ "confirmed" \in Statuses
      /\ Backed(s)
      /\ Deep(s, TotalConfirmations)
  BY <1>0 DEF MintSend, At, Statuses, SwapInv, PipelineInv
<1>2. /\ JobTyped(s)
      /\ job'[s].name \in {"mint", "lost"}
      /\ run'[s].stage \in {"idle", "completed"}
      /\ faults' \in Nat
  <2>1. CASE Return(s, "confirmed") /\ UNCHANGED faults
    BY <1>0, <1>1, <2>1, ReturnFields DEF TypeOK, TablesOK
  <2>2. CASE Fails(s, "error") /\ Fault
    BY <1>0, <1>1, <2>2, FailsFields DEF TypeOK, TablesOK, Fault
  <2> QED
    BY <2>1, <2>2 DEF MintSend
<1>3. /\ mints \in Seq(Mints)
      /\ mints' \in Seq(Mints)
      /\ MintOf(s) \in Mints
      /\ mints' = mints \/ mints' = Append(mints, MintOf(s))
  BY <1>0, MintsExtended DEF TypeOK
<1>4. UNCHANGED <<chain, ton, fees, swap, wallet, request, cancel, age>>
  BY DEF MintSend
<1>5. TypeOK'
  BY <1>0, <1>2, <1>3, <1>4 DEF TypeOK, TablesOK, JobTyped
<1>6. ASSUME NEW t \in Swaps
      PROVE  SwapInv(t)'
  <2>1. CASE t # s
    <3>1. /\ SwapInv(t)
          /\ job'[t] = job[t]
          /\ run'[t] = run[t]
      BY <1>2, <2>1 DEF IInv, JobTyped
    <3> QED
      BY <3>1, <1>4 DEF SwapInv, RequestInv, ExitInv, ConfirmInv, PipelineInv,
         Quoted, Backed, Deep, At
  <2>2. CASE t = s
    BY <1>0, <1>1, <1>2, <1>4, <2>2 DEF SwapInv, RequestInv, ExitInv, ConfirmInv,
       PipelineInv, Quoted, Backed, Deep, At
  <2> QED
    BY <2>1, <2>2
<1>7. MintInv'
  <2>1. SUFFICES ASSUME NEW i \in 1..Len(mints'), NEW t \in Swaps, mints'[i].swap = t
                 PROVE  /\ Late(t)'
                        /\ Backed(t)'
                        /\ Deep(t, TotalConfirmations)'
                        /\ mints'[i].to = RecipientOf[t]
                        /\ mints'[i].amount = swap'[t].destinationAmount
    BY DEF MintInv, Late
  <2>2. CASE i \in 1..Len(mints) /\ mints'[i] = mints[i]
    <3>1. /\ Late(t)
          /\ Backed(t)
          /\ Deep(t, TotalConfirmations)
          /\ mints[i].to = RecipientOf[t]
          /\ mints[i].amount = swap[t].destinationAmount
      BY <1>0, <2>1, <2>2 DEF MintInv, Late
    <3>2. Late(t)'
      BY <1>2, <3>1 DEF JobTyped, Late
    <3> QED
      BY <1>4, <2>2, <3>1, <3>2 DEF Backed, Quoted, Deep
  <2>3. CASE mints'[i] = MintOf(s)
    <3>1. t = s
      BY <2>1, <2>3 DEF MintOf
    <3>2. Late(s)'
      BY <1>2 DEF Late
    <3> QED
      BY <1>1, <1>4, <2>3, <3>1, <3>2 DEF Backed, Quoted, Deep, MintOf
  <2> QED
    BY <1>3, <2>1, <2>2, <2>3, AppendProperties, LenProperties
<1> QED
  BY <1>5, <1>6, <1>7 DEF IInv

\* What happens to the users' jetton wallets: a mint is executed, or others pay.
Arrival == MintExecuted \/ OthersPay

\* It is no step of the program.
LEMMA ArrivalKeeps ==
  ASSUME Arrival
  PROVE  UNCHANGED <<chain, mints, fees, swap, wallet, job, run, request, cancel, age, faults>>
  BY DEF Arrival, MintExecuted, OthersPay, Incoming

\* What came in before stays.
TonKept == \A i \in 1..Len(ton) : i \in 1..Len(ton') /\ ton'[i] = ton[i]

LEMMA ArrivalAdds ==
  ASSUME TypeOK, Arrival
  PROVE  ton' \in Seq(Arrivals) /\ TonKept
<1>1. mints \in Seq(Mints) /\ ton \in Seq(Arrivals)
  BY DEF TypeOK
<1>2. PICK to \in Recipients, mint \in Nat : ton' = Append(ton, [to |-> to, mint |-> mint])
  <2>1. CASE MintExecuted
    <3>1. PICK i \in 1..Len(mints) : Incoming(mints[i].to, i)
      BY <2>1 DEF MintExecuted
    <3>2. mints[i] \in Mints /\ i \in Nat
      BY <1>1, ElementOfSeq
    <3> QED
      BY <3>1, <3>2 DEF Incoming, Mints
  <2>2. CASE OthersPay
    BY <2>2, RecipientAssumption DEF OthersPay, Incoming
  <2> QED
    BY <2>1, <2>2 DEF Arrival
<1> DEFINE transfer == [to |-> to, mint |-> mint]
<1>3. transfer \in Arrivals
  BY <1>2 DEF Arrivals
<1>4. ton' = Append(ton, transfer)
  BY <1>2
<1> HIDE DEF transfer
<1>5. ton' \in Seq(Arrivals)
  BY <1>1, <1>3, <1>4, AppendProperties
<1>6. Len(ton) \in Nat /\ Len(ton') = Len(ton) + 1
  BY <1>1, <1>4
<1>7. \A i \in 1..Len(ton) : ton'[i] = ton[i]
  BY <1>1, <1>4
<1> QED
  BY <1>5, <1>6, <1>7 DEF TonKept

LEMMA ArrivalStep ==
  ASSUME IInv, Arrival
  PROVE  IInv'
<1>1. TypeOK /\ UNCHANGED <<chain, mints, fees, swap, wallet, job, run, request, cancel, age, faults>>
  BY ArrivalKeeps DEF IInv
<1>2. TypeOK'
  BY <1>1, ArrivalAdds DEF TypeOK, TablesOK
<1>3. ASSUME NEW s \in Swaps
      PROVE  SwapInv(s)'
  <2>1. SwapInv(s)
    BY DEF IInv
  <2>2. RequestInv(s)' /\ ExitInv(s)'
    BY <1>1, <2>1 DEF SwapInv, RequestInv, ExitInv, Quoted
  <2>3. ConfirmInv(s)' /\ PipelineInv(s)'
    BY <1>1, <2>1 DEF SwapInv, ConfirmInv, PipelineInv, Quoted, Backed, Deep, At
  <2> QED
    BY <2>2, <2>3 DEF SwapInv
<1>4. MintInv'
  BY <1>1 DEF IInv, MintInv, Backed, Quoted, Deep
<1> QED
  BY <1>2, <1>3, <1>4 DEF IInv

\* A block more leaves the transfers of the blocks below where they are and only
\* deepens them.
LEMMA MineBlockStep ==
  ASSUME IInv, MineBlock
  PROVE  IInv'
<1>0. TypeOK /\ TablesOK /\ MintInv
  BY DEF IInv, TypeOK, TablesOK
<1>1. PICK block \in {NoTransfer} \cup Transfers : chain' = Append(chain, block)
  BY DEF MineBlock
<1>2. /\ chain' \in Seq(Transfers \cup {NoTransfer})
      /\ Len(chain) \in Nat
      /\ Len(chain') = Len(chain) + 1
      /\ \A n \in 1..Len(chain) : chain'[n] = chain[n]
  BY <1>0, <1>1, AppendProperties, LenProperties DEF TypeOK, TablesOK
<1>3. UNCHANGED <<mints, ton, fees, swap, wallet, job, run, request, cancel, age, faults>>
  BY DEF MineBlock
<1>4. TypeOK'
  BY <1>0, <1>2, <1>3 DEF TypeOK, TablesOK
<1>5. ASSUME NEW t \in Swaps, Backed(t)
      PROVE  Backed(t)'
  BY <1>0, <1>2, <1>3, <1>5 DEF Backed, Quoted
<1>6. ASSUME NEW t \in Swaps, NEW n \in Nat, Deep(t, n)
      PROVE  Deep(t, n)'
  <2>1. swap[t].sourceTransactionId \in Nat
    BY <1>0 DEF TypeOK, TablesOK, Rows
  <2> QED
    BY <1>2, <1>3, <1>6, <2>1 DEF Deep
<1>7. ASSUME NEW t \in Swaps
      PROVE  SwapInv(t)'
  <2>1. SwapInv(t) /\ job[t].arg \in Nat
    BY <1>0 DEF IInv, TypeOK, TablesOK, Jobs
  <2>2. RequestInv(t)' /\ ExitInv(t)'
    BY <1>3, <2>1 DEF SwapInv, RequestInv, ExitInv, Quoted
  <2>3. ConfirmInv(t)'
    BY <1>2, <1>3, <1>5, <2>1 DEF SwapInv, ConfirmInv, At
  <2>4. PipelineInv(t)'
    <3>1. TotalConfirmations \in Nat
      BY ConfirmationAssumption
    <3>2. job[t].name = "wait" => job[t].arg - 1 \in Nat
      BY <2>1 DEF SwapInv, PipelineInv
    <3> QED
      BY <1>3, <1>5, <1>6, <2>1, <3>1, <3>2 DEF SwapInv, PipelineInv
  <2> QED
    BY <2>2, <2>3, <2>4 DEF SwapInv
<1>8. MintInv'
  BY <1>0, <1>3, <1>5, <1>6, ConfirmationAssumption DEF MintInv
<1> QED
  BY <1>4, <1>7, <1>8 DEF IInv

\* A crash loses what the handlers hold; a job it leaves in Redis is the job it
\* was, or is over.
LEMMA CrashStep ==
  ASSUME IInv, Crash, UNCHANGED world
  PROVE  IInv'
<1>0. TypeOK /\ TablesOK /\ MintInv
  BY DEF IInv, TypeOK
<1>1. UNCHANGED <<chain, mints, ton, fees, swap, wallet>> /\ TablesOK'
  BY <1>0, CrashEffect DEF world
<1>2. ASSUME NEW t \in Swaps
      PROVE  /\ RequestInv(t) => RequestInv(t)'
             /\ run'[t].stage = "idle"
             /\ CrashedJob(t)
  BY <1>0, CrashEffect
<1>3. TypeOK'
  BY <1>0, <1>1 DEF TypeOK
<1>4. ASSUME NEW t \in Swaps
      PROVE  (Backed(t) => Backed(t)') /\ \A n : Deep(t, n) => Deep(t, n)'
  BY <1>1 DEF Backed, Quoted, Deep
<1>5. ASSUME NEW t \in Swaps
      PROVE  SwapInv(t)'
  <2>1. SwapInv(t)
    BY DEF IInv
  <2>2. RequestInv(t)'
    BY <1>2, <2>1 DEF SwapInv
  <2>3. ExitInv(t)' /\ ConfirmInv(t)'
    BY <1>2 DEF ExitInv, ConfirmInv, At
  <2>4. PipelineInv(t)'
    BY <1>1, <1>2, <1>4, <2>1 DEF SwapInv, PipelineInv, CrashedJob
  <2> QED
    BY <2>2, <2>3, <2>4 DEF SwapInv
<1>6. MintInv'
  <2>1. ASSUME NEW t \in Swaps, Late(t)
        PROVE  Late(t)'
    BY <1>2, <2>1 DEF Late, CrashedJob
  <2> QED
    BY <1>0, <1>1, <1>4, <2>1 DEF MintInv, Late
<1> QED
  BY <1>3, <1>5, <1>6 DEF IInv

\* The steps of createSwap, cancelSwap, SwapsHelper, the clock, and a throw.
Shared(s) ==
  \/ Create(s) \/ CreateFails(s) \/ Cancel(s) \/ Settle(s)
  \/ HandlerThrows(s) /\ UNCHANGED world
  \/ Tick(s) /\ UNCHANGED world

\* They do what SwapJobs_proofs says of them.
LEMMA SharedEffect ==
  ASSUME IInv, NEW s \in Swaps, Shared(s)
  PROVE  Effect(s) /\ UNCHANGED world
<1>1. TablesOK /\ RequestInv(s) /\ ExitInv(s)
  BY DEF IInv, TypeOK, SwapInv
<1>2. Len(ton) \in Nat /\ Len(chain) \in Nat
  BY LenProperties DEF IInv, TypeOK
<1>3. CASE Create(s)
  BY <1>1, <1>2, <1>3, PickWalletEffect, MarkWalletEffect, InsertSwapEffect,
     AddConfirmJobEffect DEF Create
<1>4. CASE CreateFails(s)
  BY <1>1, <1>2, <1>4, InsertFailsEffect, AddConfirmJobFailsEffect, FailSwapEffect,
     ReleaseRequestedEffect, RequestThrowsEffect DEF CreateFails
<1>5. CASE Cancel(s) \/ Settle(s)
  BY <1>1, <1>5, CancelReadEffect, CancelWriteEffect, ExitRowEffect,
     ExitWalletEffect DEF Cancel, Settle
<1>6. CASE (HandlerThrows(s) \/ Tick(s)) /\ UNCHANGED world
  BY <1>1, <1>6, HandlerThrowsEffect, TickEffect
<1> QED
  BY <1>3, <1>4, <1>5, <1>6 DEF Shared

-----------------------------------------------------------------------------
(* The invariant holds.                                                      *)

\* Before any request there is no row, no job and no mint.
LEMMA InitInv == Init => IInv
<1> SUFFICES ASSUME Init
             PROVE  IInv
  OBVIOUS
<1>1. TablesOK /\ \A s \in Swaps : RequestInv(s) /\ run[s].stage = "idle"
  BY InitTablesOK DEF Init
<1>2. chain \in Seq(Transfers \cup {NoTransfer}) /\ mints \in Seq(Mints)
      /\ ton \in Seq(Arrivals)
  BY DEF Init
<1>3. TypeOK
  BY <1>1, <1>2 DEF Init, TypeOK
<1>4. ASSUME NEW s \in Swaps
      PROVE  SwapInv(s)
  <2>1. job[s].name = "none"
    BY DEF Init, InitTables, NoJob, NewJob
  <2> QED
    BY <1>1, <2>1 DEF SwapInv, ExitInv, ConfirmInv, PipelineInv, At
<1>5. MintInv
  BY DEF Init, MintInv
<1> QED
  BY <1>3, <1>4, <1>5 DEF IInv

\* Every step preserves the invariant.
LEMMA NextInv == IInv /\ [Next]_vars => IInv'
<1> SUFFICES ASSUME IInv, [Next]_vars
             PROVE  IInv'
  OBVIOUS
<1>1. CASE UNCHANGED vars
  <2>1. TypeOK'
    BY <1>1 DEF IInv, TypeOK, TablesOK, vars
  <2>2. ASSUME NEW s \in Swaps
        PROVE  SwapInv(s)'
    <3>1. SwapInv(s)
      BY DEF IInv
    <3>2. RequestInv(s)' /\ ExitInv(s)'
      BY <1>1, <3>1 DEF vars, SwapInv, RequestInv, ExitInv, Quoted
    <3>3. ConfirmInv(s)' /\ PipelineInv(s)'
      BY <1>1, <3>1 DEF vars, SwapInv, ConfirmInv, PipelineInv, Quoted, Backed, Deep, At
    <3> QED
      BY <3>2, <3>3 DEF SwapInv
  <2>3. MintInv'
    BY <1>1 DEF IInv, vars, MintInv, Backed, Quoted, Deep
  <2> QED
    BY <2>1, <2>2, <2>3 DEF IInv
<1>2. CASE MineBlock
  BY <1>2, MineBlockStep
<1>9. CASE MintExecuted \/ OthersPay
  BY <1>9, ArrivalStep DEF Arrival
<1>3. CASE Crash /\ UNCHANGED world
  BY <1>3, CrashStep
<1>4. ASSUME NEW s \in Swaps, Confirm(s)
      PROVE  IInv'
  BY <1>4, ConfirmReadStep, ConfirmScanStep, ConfirmWriteRowStep, ConfirmCreditStep,
     OnConfirmFailedStep, OnConfirmCompletedStep DEF Confirm
<1>5. ASSUME NEW s \in Swaps, Wait(s)
      PROVE  IInv'
  BY <1>5, WaitReadStep, WaitConfirmedStep, OnWaitCompletedStep DEF Wait
<1>6. ASSUME NEW s \in Swaps, Mint(s)
      PROVE  IInv'
  BY <1>6, MintReadStep, MintSendStep, OnMintCompletedStep, GetMintReadStep,
     GetMintFindStep, OnGetMintCompletedStep DEF Mint
<1>7. ASSUME NEW s \in Swaps, Fee(s)
      PROVE  IInv'
  BY <1>7, FeeReadStep, FeeSendStep, FeeWriteRowStep, FeeDebitStep DEF Fee
<1>8. ASSUME NEW s \in Swaps, Shared(s)
      PROVE  IInv'
  BY <1>8, SharedEffect, SharedStep DEF Shared, Create, CreateFails, Cancel, Settle
<1> QED
  BY <1>1, <1>2, <1>3, <1>4, <1>5, <1>6, <1>7, <1>8, <1>9 DEF Next, Shared

\* The invariant holds in every state the program reaches.
THEOREM Invariance == Spec => []IInv
<1> QED
  BY InitInv, NextInv, PTL DEF Spec

\* The rows, the jobs, what the handlers hold and the two chains keep their types.
THEOREM TypesHold == Spec => []TypeOK
<1>1. IInv => TypeOK
  BY DEF IInv
<1> QED
  BY <1>1, Invariance, PTL

\* mintTonJettons checks nothing, and every mint is backed all the same: whatever is
\* retried, redelivered, canceled or expired, its swap has a transfer to its source
\* wallet, TotalConfirmations deep, and the mint is for the amount computed from it.
THEOREM MintsAreBacked == Spec => []MintBacked
<1>1. ASSUME IInv
      PROVE  MintBacked
  <2>1. SUFFICES ASSUME NEW i \in 1..Len(mints)
                 PROVE  LET s == mints[i].swap
                        IN  /\ Backed(s)
                            /\ Len(chain) >= swap[s].sourceTransactionId
                                               + TotalConfirmations - 1
                            /\ mints[i].to = RecipientOf[s]
                            /\ mints[i].amount = swap[s].destinationAmount
    BY DEF MintBacked
  <2>2. mints[i].swap \in Swaps
    <3>1. mints \in Seq(Mints)
      BY <1>1 DEF IInv, TypeOK
    <3>2. mints[i] \in Mints
      BY <3>1, ElementOfSeq
    <3> QED
      BY <3>2 DEF Mints
  <2>3. PICK s \in Swaps : mints[i].swap = s
    BY <2>2
  <2> QED
    BY <1>1, <2>3 DEF IInv, MintInv, Deep
<1> QED
  BY <1>1, Invariance, PTL

\* Together, what is minted for a swap and the fee its row keeps stay below the
\* transfer that backs it plus one unit of the source token (createSwap computes
\* both from the amount before it is rounded).
THEOREM MintsStayWithinTransfers == Spec => []MintWithinTransfer
<1>1. ASSUME IInv
      PROVE  MintWithinTransfer
  <2>1. SUFFICES ASSUME NEW i \in 1..Len(mints)
                 PROVE  mints[i].amount + swap[mints[i].swap].fee
                          < chain[swap[mints[i].swap].sourceTransactionId].amount
                              + SourceUnit
    BY DEF MintWithinTransfer
  <2>2. mints[i].swap \in Swaps
    <3>1. mints \in Seq(Mints)
      BY <1>1 DEF IInv, TypeOK
    <3>2. mints[i] \in Mints
      BY <3>1, ElementOfSeq
    <3> QED
      BY <3>2 DEF Mints
  <2>3. PICK s \in Swaps : mints[i].swap = s
    BY <2>2
  <2>4. /\ mints[i].amount = swap[s].destinationAmount
        /\ Backed(s)
    BY <1>1, <2>3 DEF IInv, MintInv
  <2>5. PICK amount \in Asked \cup Transferred :
          /\ swap[s].sourceAmount = StoredSource(amount)
          /\ swap[s].destinationAmount = StoredDestination(amount)
          /\ swap[s].fee = StoredFee(amount)
    BY <2>4 DEF Backed, Quoted
  <2>6. amount \in Nat
    BY AmountAssumption
  <2>7. StoredFee(amount) + StoredDestination(amount)
          < StoredSource(amount) + SourceUnit
    BY <2>6, QuoteOverpaidBelowUnit DEF OverpaidBelowUnit
  <2>8. chain[swap[s].sourceTransactionId].amount = StoredSource(amount)
    BY <2>4, <2>5 DEF Backed
  <2>9. StoredFee(amount) \in Nat /\ StoredDestination(amount) \in Nat
    BY <2>6, StoredAmounts
  <2> QED
    BY <2>3, <2>4, <2>5, <2>7, <2>8, <2>9
<1> QED
  BY <1>1, Invariance, PTL

-----------------------------------------------------------------------------
(* A swap is concluded by a mint of its own and what came in since.          *)

\* What was handed over stays so.
MintsKept == \A i \in 1..Len(mints) : i \in 1..Len(mints') /\ mints'[i] = mints[i]

LEMMA ChainsKept ==
  ASSUME mints' = mints, ton' = ton
  PROVE  MintsKept /\ TonKept
  BY DEF MintsKept, TonKept

LEMMA SentStays ==
  ASSUME NEW t \in Swaps, MintsKept, Sent(t)
  PROVE  Sent(t)'
<1>1. PICK i \in 1..Len(mints) : mints[i].swap = t
  BY DEF Sent
<1>2. i \in 1..Len(mints') /\ mints'[i] = mints[i]
  BY <1>1 DEF MintsKept
<1> QED
  BY <1>1, <1>2 DEF Sent

\* What a recipient has had since the swap was created, it has had for good.
LEMMA ArrivedStays ==
  ASSUME NEW t \in Swaps, TonKept, KeepsOrigin(t), swap[t].status # "none", Arrived(t)
  PROVE  Arrived(t)'
<1>1. PICK i \in 1..Len(ton) : ton[i].to = RecipientOf[t] /\ i > swap[t].createdAt
  BY DEF Arrived
<1>2. i \in 1..Len(ton') /\ ton'[i] = ton[i] /\ swap'[t].createdAt = swap[t].createdAt
  BY <1>1 DEF TonKept, KeepsOrigin
<1> QED
  BY <1>1, <1>2 DEF Arrived

\* The swap gets no further than it was, or has had its mint sent, or an arrival.
Advances(t) ==
  /\ Conveyed(t)' => Conveyed(t) \/ Sent(t)'
  /\ Concluded(t)' => Concluded(t) \/ (Arrived(t) /\ swap[t].status # "none")

\* An action preserves ConcludedInv if every swap advances so.
LEMMA ConcludedStep ==
  ASSUME ConcludedInv, MintsKept, TonKept, \A t \in Swaps : KeepsOrigin(t),
         \A t \in Swaps : Advances(t)
  PROVE  ConcludedInv'
<1>1. ASSUME NEW t \in Swaps, Concluded(t)'
      PROVE  swap'[t].status # "none" /\ Arrived(t)'
  <2>1. Arrived(t) /\ swap[t].status # "none"
    BY <1>1 DEF ConcludedInv, Advances
  <2> QED
    BY <2>1, ArrivedStays DEF KeepsOrigin
<1>2. ASSUME NEW t \in Swaps, Conveyed(t)'
      PROVE  Sent(t)'
  BY <1>2, SentStays DEF ConcludedInv, Advances
<1> QED
  BY <1>1, <1>2 DEF ConcludedInv

\* The action leaves the rows, fees, jobs and handlers of other swaps alone.
OthersKept(s) ==
  \A t \in Swaps \ {s} :
    /\ swap'[t] = swap[t] /\ fees'[t] = fees[t]
    /\ job'[t] = job[t] /\ run'[t] = run[t]

\* An action on s concludes nothing if it does not for s.
LEMMA OwnConcluded ==
  ASSUME ConcludedInv, NEW s \in Swaps, OthersKept(s), MintsKept, TonKept,
         \A t \in Swaps : KeepsOrigin(t), Advances(s)
  PROVE  ConcludedInv'
<1>1. ASSUME NEW t \in Swaps \ {s}
      PROVE  Advances(t)
  BY <1>1 DEF OthersKept, Advances, Conveyed, Concluded, At
<1> QED
  BY <1>1, ConcludedStep

\* The handlers write columns that leave a swap where and since when it receives.
LEMMA OriginsKept ==
  ASSUME IInv, NEW s \in Swaps,
         Shared(s) \/ Confirm(s) \/ Wait(s) \/ Mint(s) \/ Fee(s)
  PROVE  \A t \in Swaps : KeepsOrigin(t)
<1>0. TypeOK /\ TablesOK /\ SwapInv(s) /\ RequestInv(s) /\ ExitInv(s)
  BY DEF IInv, TypeOK, SwapInv
<1>1. CASE UNCHANGED swap
  BY <1>1, SameRowsKeepOrigin
<1>2. CASE Shared(s)
  <2>1. \/ UNCHANGED swap \/ InsertSwap(s, Len(ton))
        \/ FailSwap(s) \/ CancelWrite(s) \/ ExitRow(s)
    BY <1>2 DEF Shared, Create, CreateFails, Cancel, Settle, PickWallet, MarkWallet,
       AddConfirmJob, InsertFails, AddConfirmJobFails, ReleaseRequested,
       RequestThrows, CancelRead, ExitWallet, HandlerThrows, Tick
  <2> QED
    BY <1>0, <2>1, SharedKeepsOrigin
<1>3. CASE ConfirmWriteRow(s)
  BY <1>0, <1>3, ConfirmedRowKeepsOrigin DEF ConfirmWriteRow
<1>4. CASE WaitConfirmed(s)
  <2>1. RowTyped(s) /\ swap'[s].status = "confirmed"
    <3>1. job[s].arg \in Nat
      BY <1>0 DEF TablesOK, Jobs
    <3> QED
      BY <1>0, <1>4, <3>1, ConfirmationsFields DEF WaitConfirmed
  <2> QED
    BY <2>1, RowKeepsOrigin
<1>5. CASE GetMintFind(s)
  <2>1. CASE swap' = [swap EXCEPT ![s].status = "completed"]
    <3>1. RowTyped(s) /\ swap'[s].status = "completed"
      BY <1>0, <2>1, StatusFields DEF Statuses
    <3> QED
      BY <3>1, RowKeepsOrigin
  <2> QED
    BY <1>1, <1>5, <2>1 DEF GetMintFind
<1>6. CASE FeeWriteRow(s)
  <2>1. swap[s].status # "none"
    BY <1>0, <1>6 DEF FeeWriteRow, At, RequestInv
  <2>2. RowTyped(s) /\ swap'[s].status = swap[s].status
    BY <1>0, <1>6, CollectedFields DEF FeeWriteRow
  <2> QED
    BY <2>1, <2>2, RowKeepsOrigin
<1>7. CASE Confirm(s)
  BY <1>1, <1>3, <1>7 DEF Confirm, ConfirmRead, ConfirmReads, ConfirmScan,
     ConfirmCredit, OnConfirmFailed, OnConfirmCompleted
<1>8. CASE Wait(s)
  BY <1>1, <1>4, <1>8 DEF Wait, WaitRead, OnWaitCompleted
<1>9. CASE Mint(s)
  BY <1>1, <1>5, <1>9 DEF Mint, MintRead, GetMintRead, MinterRead, MintSend,
     OnMintCompleted, OnGetMintCompleted
<1>10. CASE Fee(s)
  BY <1>1, <1>6, <1>10 DEF Fee, FeeRead, FeeSend, FeeDebit
<1> QED
  BY <1>2, <1>7, <1>8, <1>9, <1>10


\* The handlers and listeners of EthToTon are about one swap.
LEMMA HandlersKeepOthers ==
  ASSUME IInv, NEW s \in Swaps, Confirm(s) \/ Wait(s) \/ Mint(s) \/ Fee(s)
  PROVE  OthersKept(s)
<1>0. /\ swap \in [Swaps -> Rows] /\ fees \in [Swaps -> Nat]
      /\ job \in [Swaps -> Jobs] /\ run \in [Swaps -> Runs]
  BY DEF IInv, TypeOK, TablesOK
<1>1. ASSUME NEW t \in Swaps \ {s}
      PROVE  /\ \A stage : Goto(s, stage) => job'[t] = job[t] /\ run'[t] = run[t]
             /\ \A stage : GotoWithBalance(s, stage) => job'[t] = job[t] /\ run'[t] = run[t]
             /\ \A result : Return(s, result) => job'[t] = job[t] /\ run'[t] = run[t]
             /\ \A result : Exit(s, result) => job'[t] = job[t] /\ run'[t] = run[t]
             /\ \A new : Enqueue(s, new) => job'[t] = job[t] /\ run'[t] = run[t]
             /\ \A why : Fails(s, why) => job'[t] = job[t] /\ run'[t] = run[t]
  BY <1>0 DEF Goto, GotoWithBalance, Return, Exit, Enqueue, Fails
<1>2. ASSUME NEW t \in Swaps \ {s}
      PROVE  job'[t] = job[t] /\ run'[t] = run[t]
  <2>1. CASE Confirm(s)
    <3>1. ASSUME NEW n, run' = [run EXCEPT ![s].stage = "row", ![s].tx = n], job' = job
          PROVE  job'[t] = job[t] /\ run'[t] = run[t]
      BY <1>0, <3>1
    <3> QED
      BY <1>1, <2>1, <3>1 DEF Confirm, ConfirmRead, ConfirmReads, ConfirmScan,
         ConfirmWriteRow, ConfirmCredit, OnConfirmFailed, OnConfirmCompleted
  <2>2. CASE Wait(s)
    BY <1>1, <2>2 DEF Wait, WaitRead, WaitConfirmed, OnWaitCompleted
  <2>3. CASE Mint(s)
    BY <1>1, <2>3 DEF Mint, MintRead, GetMintRead, MinterRead, MintSend,
       OnMintCompleted, GetMintFind, OnGetMintCompleted
  <2>4. CASE Fee(s)
    BY <1>1, <2>4 DEF Fee, FeeRead, FeeSend, FeeWriteRow, FeeDebit, DebitRefused
  <2> QED
    BY <2>1, <2>2, <2>3, <2>4
<1>3. ASSUME NEW t \in Swaps \ {s}
      PROVE  swap'[t] = swap[t] /\ fees'[t] = fees[t]
  <2>1. CASE Confirm(s)
    BY <1>0, <2>1 DEF Confirm, ConfirmRead, ConfirmReads, ConfirmScan,
       ConfirmWriteRow, ConfirmCredit, OnConfirmFailed, OnConfirmCompleted, world
  <2>2. CASE Wait(s)
    BY <1>0, <2>2 DEF Wait, WaitRead, WaitConfirmed, OnWaitCompleted
  <2>3. CASE Mint(s)
    BY <1>0, <2>3 DEF Mint, MintRead, GetMintRead, MinterRead, MintSend,
       OnMintCompleted, GetMintFind, OnGetMintCompleted
  <2>4. CASE Fee(s)
    BY <1>0, <2>4 DEF Fee, FeeRead, FeeSend, FeeWriteRow, FeeDebit
  <2> QED
    BY <2>1, <2>2, <2>3, <2>4
<1> QED
  BY <1>2, <1>3 DEF OthersKept


\* Requests, the helpers, the clock and a throw conclude nothing.
LEMMA SharedConcluded ==
  ASSUME IInv, ConcludedInv, NEW s \in Swaps, Shared(s)
  PROVE  ConcludedInv'
<1>0. TablesOK /\ ExitInv(s) /\ Len(ton) \in Nat
  BY LenProperties DEF IInv, TypeOK, SwapInv
<1>1. Effect(s) /\ UNCHANGED world
  BY SharedEffect
<1>2. OthersKept(s) /\ MintsKept /\ TonKept
  BY <1>1, ChainsKept DEF Effect, OnlyOf, OthersKept, world
<1>3. GainsNothing(s)
  <2>1. \/ UNCHANGED swap \/ InsertSwap(s, Len(ton))
        \/ FailSwap(s) \/ CancelWrite(s) \/ ExitRow(s)
    BY DEF Shared, Create, CreateFails, Cancel, Settle, PickWallet, MarkWallet,
       AddConfirmJob, InsertFails, AddConfirmJobFails, ReleaseRequested,
       RequestThrows, CancelRead, ExitWallet, HandlerThrows, Tick
  <2> QED
    BY <1>0, <2>1, SharedGainsNothing
<1>4. Advances(s)
  <2>1. JobEffect(s) /\ fees' = fees
    BY <1>1 DEF Effect, world
  <2>2. swap'[s].status = "completed" => swap[s].status = "completed"
    BY <1>3 DEF GainsNothing
  <2>3. \A name \in {"getMint", "fee"} : job'[s].name = name => job[s].name = name
    BY <2>1 DEF JobEffect
  <2>4. \A name \in {"mint", "getMint"} :
          At(s, name, "completed")' /\ Processable(run'[s].result)
            => At(s, name, "completed") /\ Processable(run[s].result)
    BY <2>1 DEF JobEffect, At
  <2> QED
    BY <2>1, <2>2, <2>3, <2>4 DEF Advances, Conveyed, Concluded
<1> QED
  BY <1>2, <1>4, OriginsKept, OwnConcluded

\* Neither do the handlers that confirm the transfer (EthSourceSwapsProcessor).
LEMMA ConfirmConcluded ==
  ASSUME IInv, ConcludedInv, NEW s \in Swaps, Confirm(s) \/ Wait(s)
  PROVE  ConcludedInv'
<1>0. TablesOK /\ RequestInv(s) /\ SwapInv(s)
  BY DEF IInv, TypeOK, SwapInv
<1>1. UNCHANGED <<mints, ton, fees>>
  BY DEF Confirm, Wait, ConfirmRead, ConfirmScan, ConfirmWriteRow, OnConfirmFailed,
     OnConfirmCompleted, WaitRead, WaitConfirmed, OnWaitCompleted, world
<1>2. job'[s].name \notin {"getMint", "fee"}
  <2>1. job[s].name \in {"confirm", "wait"}
    BY DEF Confirm, Wait, ConfirmRead, ConfirmReads, ConfirmScan, ConfirmWriteRow,
       ConfirmCredit, OnConfirmFailed, OnConfirmCompleted, WaitRead, WaitConfirmed,
       OnWaitCompleted, Takes, At
  <2>2. CASE UNCHANGED job
    BY <2>1, <2>2
  <2>3. ASSUME NEW why \in {"error", "notFound"}, Fails(s, why)
        PROVE  job'[s].name \notin {"getMint", "fee"}
    BY <1>0, <2>1, <2>3, FailsFields
  <2>4. ASSUME NEW new, new.name \notin {"getMint", "fee"}, Enqueue(s, new)
        PROVE  job'[s].name \notin {"getMint", "fee"}
    BY <1>0, <2>4 DEF Enqueue, TablesOK
  <2>5. /\ EndedJob.name = "ended"
        /\ NextConfirm(s).name = "confirm"
        /\ NewJob("wait", 2, run[s].tx, NormalAttempts).name = "wait"
        /\ NewJob("wait", job[s].arg + 1, job[s].tx, 1).name = "wait"
        /\ NewJob("mint", 0, 0, ExtendedAttempts).name = "mint"
    BY DEF EndedJob, NextConfirm, NewJob
  <2>6. CASE Confirm(s)
    BY <2>2, <2>3, <2>4, <2>5, <2>6 DEF Confirm, ConfirmRead, ConfirmReads, Exit, Goto,
       GotoWithBalance, Return, ConfirmScan, ConfirmWriteRow, ConfirmCredit,
       OnConfirmFailed, OnConfirmCompleted
  <2>7. CASE Wait(s)
    BY <2>2, <2>4, <2>5, <2>7 DEF Wait, Exit, Goto, Return, WaitRead, WaitConfirmed,
       OnWaitCompleted
  <2> QED
    BY <2>6, <2>7
<1>5. ~At(s, "mint", "completed")'
  <2>1. job[s].name \in {"confirm", "wait"}
    BY DEF Confirm, Wait, ConfirmRead, ConfirmReads, ConfirmScan, ConfirmWriteRow,
       ConfirmCredit, OnConfirmFailed, OnConfirmCompleted, WaitRead, WaitConfirmed,
       OnWaitCompleted, Takes, At
  <2>2. CASE UNCHANGED job
    BY <2>1, <2>2 DEF At
  <2>3. CASE \E new : Enqueue(s, new)
    BY <1>0, <2>3, RestFields DEF Enqueue, At, TablesOK
  <2>4. CASE \E why \in {"error", "notFound"} : Fails(s, why)
    BY <1>0, <2>1, <2>4, FailsFields DEF At
  <2>5. CASE Confirm(s)
    BY <2>2, <2>3, <2>4, <2>5 DEF Confirm, ConfirmRead, ConfirmReads, Exit, Goto,
       GotoWithBalance, Return, ConfirmScan, ConfirmWriteRow, ConfirmCredit,
       OnConfirmFailed, OnConfirmCompleted
  <2>6. CASE Wait(s)
    BY <2>2, <2>3, <2>6 DEF Wait, Exit, Goto, Return, WaitRead, WaitConfirmed,
       OnWaitCompleted
  <2> QED
    BY <2>5, <2>6
<1>3. swap'[s].status \in {swap[s].status, "confirmed"}
  <2>1. CASE ConfirmWriteRow(s)
    <3> DEFINE amount == chain[run[s].tx].amount
               tx == run[s].tx
    <3>1. swap'[s] = ConfirmedRow(s, amount, tx)
      BY <1>0, <2>1 DEF ConfirmWriteRow, TablesOK
    <3> HIDE DEF amount, tx
    <3>2. ConfirmedRow(s, amount, tx).status = "confirmed"
      BY <1>0, ConfirmedRowStatus
    <3> QED
      BY <3>1, <3>2
  <2>2. CASE WaitConfirmed(s)
    <3>1. job[s].arg \in Nat
      BY <1>0 DEF TablesOK, Jobs
    <3> QED
      BY <1>0, <2>2, <3>1, ConfirmationsFields DEF WaitConfirmed
  <2> QED
    BY <2>1, <2>2 DEF Confirm, Wait, ConfirmRead, ConfirmReads, ConfirmScan,
       ConfirmCredit, OnConfirmFailed, OnConfirmCompleted, WaitRead, OnWaitCompleted
<1>4. Advances(s)
  BY <1>1, <1>2, <1>3, <1>5 DEF Advances, Conveyed, Concluded, At
<1> QED
  BY <1>1, <1>4, ChainsKept, HandlersKeepOthers, OriginsKept, OwnConcluded

\* A message handed to TON is added to the mints.
LEMMA MintSendKeeps ==
  ASSUME IInv, NEW s \in Swaps, MintSend(s)
  PROVE  MintsKept /\ TonKept
<1>1. mints \in Seq(Mints) /\ (mints' = mints \/ mints' = Append(mints, MintOf(s)))
  BY MintsExtended DEF IInv, TypeOK
<1>2. ton' = ton
  BY DEF MintSend
<1>3. CASE mints' = mints
  BY <1>2, <1>3, ChainsKept
<1>4. CASE mints' = Append(mints, MintOf(s))
  <2>1. Len(mints) \in Nat /\ Len(mints') = Len(mints) + 1
    BY <1>1, <1>4
  <2>2. \A i \in 1..Len(mints) : mints'[i] = mints[i]
    BY <1>1, <1>4
  <2> QED
    BY <1>2, <2>1, <2>2 DEF MintsKept, TonKept
<1> QED
  BY <1>1, <1>3, <1>4

\* A call that returns has handed its message over (mintTonJettons).
LEMMA MintSendSends ==
  ASSUME IInv, NEW s \in Swaps, MintSend(s), At(s, "mint", "completed")'
  PROVE  Sent(s)'
<1>1. TablesOK /\ job[s].name = "mint" /\ mints \in Seq(Mints)
  BY DEF IInv, TypeOK, MintSend, At
<1>2. ~Fails(s, "error")
  BY <1>1, FailsFields DEF At
<1>3. mints' = Append(mints, MintOf(s))
  BY <1>2 DEF MintSend
<1>4. Len(mints) + 1 \in 1..Len(mints') /\ mints'[Len(mints) + 1] = MintOf(s)
  BY <1>1, <1>3
<1> QED
  BY <1>4 DEF Sent, MintOf

\* The search for the mint concludes a swap when it has found one.
LEMMA GetMintFindConcluded ==
  ASSUME IInv, NEW s \in Swaps, GetMintFind(s), Concluded(s)'
  PROVE  Concluded(s) \/ (Arrived(s) /\ swap[s].status # "none")
<1>0. TablesOK /\ RequestInv(s) /\ job[s].name = "getMint"
  BY DEF IInv, TypeOK, SwapInv, GetMintFind, At
<1>1. swap[s].status # "none"
  BY <1>0 DEF RequestInv
<1>2. CASE MintFound(s)
  BY <1>1, <1>2 DEF MintFound, Arrived
<1>3. CASE UNCHANGED swap /\ Fails(s, "error")
  <2>1. fees' = fees /\ job'[s].name # "fee" /\ ~At(s, "getMint", "completed")'
    BY <1>0, <1>3, FailsFields DEF GetMintFind, At
  <2> QED
    BY <1>3, <2>1 DEF Concluded
<1> QED
  BY <1>2, <1>3 DEF GetMintFind

\* Of the jobs of TonDestinationSwapsProcessor only that search does.
LEMMA MintConcluded ==
  ASSUME IInv, ConcludedInv, NEW s \in Swaps, Mint(s)
  PROVE  ConcludedInv'
<1>0. TablesOK /\ fees' = fees
  BY DEF IInv, TypeOK, Mint, MintRead, GetMintRead, MinterRead, MintSend,
     OnMintCompleted, GetMintFind, OnGetMintCompleted
<1>1. MintsKept /\ TonKept
  BY MintSendKeeps, ChainsKept DEF Mint, MintRead, GetMintRead, MinterRead,
     OnMintCompleted, GetMintFind, OnGetMintCompleted
<1>2. Concluded(s)' => Concluded(s) \/ (Arrived(s) /\ swap[s].status # "none")
  <2>1. CASE MintRead(s) \/ GetMintRead(s)
    <3>1. /\ job' = job /\ swap' = swap /\ job[s].name # "fee"
          /\ run'[s].stage \in {"exitRow", "send", "find"}
      <4>1. {"expired", "failed"} \subseteq Statuses /\ {"send", "find"} \subseteq Stages
        BY DEF Statuses, Stages
      <4> QED
        BY <1>0, <2>1, <4>1, ExitFields, GotoFields DEF MintRead, GetMintRead,
           MinterRead, Takes
    <3> QED
      BY <1>0, <3>1 DEF Concluded, At
  <2>2. CASE MintSend(s)
    <3>1. job'[s].name \in {"mint", "lost"} /\ swap' = swap
      <4>1. "confirmed" \in Statuses /\ job[s].name = "mint"
        BY <2>2 DEF Statuses, MintSend, At
      <4> QED
        BY <1>0, <2>2, <4>1, ReturnFields, FailsFields DEF MintSend
    <3> QED
      BY <1>0, <3>1 DEF Concluded, At
  <2>3. CASE OnMintCompleted(s)
    <3>1. run'[s] = Idle /\ job'[s].name # "fee" /\ swap' = swap
      <4>1. NewJob("getMint", 0, 0, ExtendedAttempts).name = "getMint"
        BY DEF NewJob
      <4> QED
        BY <1>0, <2>3, <4>1, RestFields DEF OnMintCompleted, Enqueue, TablesOK
    <3> QED
      BY <1>0, <3>1, RestFields DEF Concluded, At
  <2>4. CASE GetMintFind(s)
    BY <2>4, GetMintFindConcluded
  <2>5. CASE OnGetMintCompleted(s)
    <3>1. CASE Processable(run[s].result)
      BY <2>5, <3>1 DEF OnGetMintCompleted, Concluded
    <3>2. CASE ~Processable(run[s].result)
      <4>1. run'[s] = Idle /\ job'[s].name = "ended" /\ swap' = swap
        BY <1>0, <2>5, <3>2, RestFields, EnqueueFields DEF OnGetMintCompleted
      <4> QED
        BY <1>0, <4>1 DEF Concluded, At
    <3> QED
      BY <3>1, <3>2
  <2> QED
    BY <2>1, <2>2, <2>3, <2>4, <2>5 DEF Mint
<1>3. Conveyed(s)' => Conveyed(s) \/ Sent(s)'
  <2>1. CASE job[s].name = "getMint"
    BY <2>1 DEF Conveyed
  <2>2. CASE MintRead(s)
    <3>1. /\ job' = job /\ swap' = swap /\ job[s].name = "mint"
          /\ run'[s].stage \in {"exitRow", "send"}
      <4>1. {"expired", "failed"} \subseteq Statuses /\ "send" \in Stages
        BY DEF Statuses, Stages
      <4> QED
        BY <1>0, <2>2, <4>1, ExitFields, GotoFields DEF MintRead, MinterRead, Takes
    <3> QED
      BY <1>0, <3>1 DEF Conveyed, Concluded, At
  <2>3. CASE MintSend(s)
    <3>1. CASE At(s, "mint", "completed")'
      BY <2>3, <3>1, MintSendSends
    <3>2. CASE ~At(s, "mint", "completed")'
      <4>1. job'[s].name \in {"mint", "lost"} /\ swap' = swap
        <5>1. "confirmed" \in Statuses /\ job[s].name = "mint"
          BY <2>3 DEF Statuses, MintSend, At
        <5> QED
          BY <1>0, <2>3, <5>1, ReturnFields, FailsFields DEF MintSend
      <4> QED
        BY <1>0, <3>2, <4>1 DEF Conveyed, Concluded, At
    <3> QED
      BY <3>1, <3>2
  <2>4. CASE OnMintCompleted(s)
    <3>1. CASE Processable(run[s].result)
      BY <2>4, <3>1 DEF OnMintCompleted, Conveyed
    <3>2. CASE ~Processable(run[s].result)
      <4>1. run'[s] = Idle /\ job'[s].name = "ended" /\ swap' = swap
        BY <1>0, <2>4, <3>2, RestFields, EnqueueFields DEF OnMintCompleted
      <4> QED
        BY <1>0, <4>1 DEF Conveyed, Concluded, At
    <3> QED
      BY <3>1, <3>2
  <2>5. CASE GetMintRead(s) \/ GetMintFind(s) \/ OnGetMintCompleted(s)
    BY <2>1, <2>5 DEF GetMintRead, MinterRead, GetMintFind, OnGetMintCompleted, Takes, At
  <2> QED
    BY <2>2, <2>3, <2>4, <2>5 DEF Mint
<1> QED
  BY <1>1, <1>2, <1>3, HandlersKeepOthers, OriginsKept, OwnConcluded DEF Advances

\* A swap whose fee is charged has a fee job, and so is concluded (transferEthFee).
LEMMA FeeConcluded ==
  ASSUME IInv, ConcludedInv, NEW s \in Swaps, Fee(s)
  PROVE  ConcludedInv'
<1>1. Concluded(s)
  BY DEF Fee, FeeRead, FeeSend, FeeWriteRow, FeeDebit, Takes, At, Concluded
<1>2. MintsKept /\ TonKept
  BY ChainsKept DEF Fee, FeeRead, FeeSend, FeeWriteRow, FeeDebit
<1> QED
  BY <1>1, <1>2, HandlersKeepOthers, OriginsKept, OwnConcluded DEF Advances, Conveyed

\* A crash, a block and what comes in leave the rows, and a crash starts no job.
LEMMA WorldConcluded ==
  ASSUME IInv, ConcludedInv,
         MineBlock \/ Arrival \/ (Crash /\ UNCHANGED world) \/ UNCHANGED vars
  PROVE  ConcludedInv'
<1>1. UNCHANGED <<mints, fees, swap>>
  <2>1. TablesOK
    BY DEF IInv, TypeOK
  <2> QED
    BY <2>1, CrashEffect, ArrivalKeeps DEF MineBlock, world, vars
<1>2. MintsKept /\ TonKept
  BY <1>1, ArrivalAdds, ChainsKept DEF MintsKept, MineBlock, world, vars, IInv
<1>3. ASSUME NEW t \in Swaps
      PROVE  Advances(t)
  <2>1. CASE UNCHANGED <<job, run>>
    BY <1>1, <2>1 DEF Advances, Conveyed, Concluded, At
  <2>2. CASE Crash
    <3>1. /\ run'[t].stage = "idle"
          /\ \A name \in {"getMint", "fee"} : job'[t].name = name => job[t].name = name
      BY <2>2, CrashEffect DEF CrashedJob, IInv, TypeOK
    <3> QED
      BY <1>1, <3>1 DEF Advances, Conveyed, Concluded, At
  <2> QED
    BY <2>1, <2>2, ArrivalKeeps DEF MineBlock, vars
<1> QED
  BY <1>1, <1>2, <1>3, SameRowsKeepOrigin, ConcludedStep

\* So it is kept by every step.
LEMMA ConcludedNext == IInv /\ ConcludedInv /\ [Next]_vars => ConcludedInv'
BY SharedConcluded, ConfirmConcluded, MintConcluded, FeeConcluded, WorldConcluded
   DEF Next, Shared, Arrival

\* And holds before any request.
LEMMA ConcludedInit == Init => ConcludedInv
BY DEF Init, InitTables, ConcludedInv, Conveyed, Concluded, At, NoSwap, NoJob, NewJob, Idle, NewRun

\* In every state a swap whose mint job has returned, or that is on its way to the
\* fee, has handed a mint of its own to TON; one that is concluded has seen jettons
\* come in for its recipient since it was created.
THEOREM ConclusionsHold == Spec => []ConcludedInv
<1> QED
  BY InitInv, NextInv, ConcludedInit, ConcludedNext, PTL DEF Spec

\* A swap that reads completed, or whose fee was charged, has handed a mint of its
\* own to TON and seen jettons come in for its recipient since it was created,
\* whatever was retried, redelivered or lost (mintTonJettons, getTonMintTransaction,
\* transferEthFee).  That the mint was executed is not said.
THEOREM ChargesFollowMints == Spec => []ChargedAfterMint
<1>1. ConcludedInv => ChargedAfterMint
  BY DEF ConcludedInv, Conveyed, Concluded, ChargedAfterMint
<1> QED
  BY <1>1, ConclusionsHold, PTL

-----------------------------------------------------------------------------
(* EthToTon implements SwapPromise: every step pays, charges, or receives.   *)

\* What the source wallet of a swap received stays received.
LEMMA ReceivedGrows ==
  ASSUME \A n \in 1..Len(chain) : n \in 1..Len(chain') /\ chain'[n] = chain[n],
         \A t \in Swaps : KeepsOrigin(t)
  PROVE  /\ DOMAIN received' = Swaps
         /\ \A t \in Swaps : received[t] \subseteq received'[t]
<1>1. ASSUME NEW t \in Swaps, NEW amount \in received[t]
      PROVE  amount \in received'[t]
  <2>1. PICK n \in 1..Len(chain) : /\ amount = chain[n].amount
                                   /\ swap[t].status # "none"
                                   /\ chain[n].to = swap[t].sourceWallet
    BY <1>1 DEF received
  <2>2. /\ n \in 1..Len(chain') /\ chain'[n] = chain[n]
        /\ swap'[t].status # "none"
        /\ swap'[t].sourceWallet = swap[t].sourceWallet
    BY <2>1 DEF KeepsOrigin
  <2> QED
    BY <2>1, <2>2 DEF received
<1> QED
  BY <1>1 DEF received

\* A step that mints nothing and charges nothing is one of receiving.
LEMMA ReceiveStep ==
  ASSUME \A n \in 1..Len(chain) : n \in 1..Len(chain') /\ chain'[n] = chain[n],
         \A t \in Swaps : KeepsOrigin(t), UNCHANGED <<mints, fees>>
  PROVE  Promise!Receive
<1>1. /\ DOMAIN received' = Swaps
      /\ \A t \in Swaps : received[t] \subseteq received'[t]
  BY ReceivedGrows
<1>2. charged' = charged
  BY DEF charged
<1> QED
  BY <1>1, <1>2 DEF Promise!Receive

\* A block is mined on those before it.
LEMMA BlocksStay ==
  ASSUME IInv, MineBlock
  PROVE  \A n \in 1..Len(chain) : n \in 1..Len(chain') /\ chain'[n] = chain[n]
<1>1. PICK block \in {NoTransfer} \cup Transfers : chain' = Append(chain, block)
  BY DEF MineBlock
<1>2. chain \in Seq(Transfers \cup {NoTransfer}) /\ block \in Transfers \cup {NoTransfer}
  BY DEF IInv, TypeOK
<1> QED
  BY <1>1, <1>2

\* The mint of mintTonJettons is one for tokens received, at the rate of the bridge,
\* and the same as any the swap has had before.
LEMMA MintRefines ==
  ASSUME IInv, NEW s \in Swaps, MintSend(s), mints' # mints
  PROVE  Promise!Pay(s)
<1>0. TypeOK /\ TablesOK /\ SwapInv(s) /\ MintInv
  BY DEF IInv, TypeOK
<1>1. Backed(s) /\ swap[s].status # "none"
  BY <1>0 DEF MintSend, At, SwapInv, PipelineInv, RequestInv
<1>2. PICK a \in Asked \cup Transferred :
        /\ swap[s].sourceAmount = StoredSource(a)
        /\ swap[s].destinationAmount = StoredDestination(a)
  BY <1>1 DEF Backed, Quoted
<1> DEFINE q == [source |-> StoredSource(a), destination |-> StoredDestination(a)]
<1>3. q \in Quotes
  BY DEF Quotes
<1>4. q.source \in received[s]
  BY <1>1, <1>2 DEF Backed, received
<1>5. \A i \in 1..Len(mints) : mints[i].swap = s => mints[i].amount = q.destination
  BY <1>0, <1>2 DEF MintInv
<1>6. mints' = Append(mints, [swap |-> s, to |-> RecipientOf[s], amount |-> q.destination])
  BY <1>2 DEF MintSend, MintOf
<1>7. UNCHANGED <<received, charged>>
  BY DEF MintSend, received, charged
<1> HIDE DEF q
<1> QED
  BY <1>3, <1>4, <1>5, <1>6, <1>7 DEF Promise!Pay

\* The fee charges a swap a mint of which was handed over (transferEthFee).
LEMMA ChargeRefines ==
  ASSUME IInv, ConcludedInv, NEW s \in Swaps, FeeSend(s), fees' # fees
  PROVE  Promise!Charge(s)
<1>1. /\ fees' = [fees EXCEPT ![s] = @ + 1]
      /\ UNCHANGED <<chain, mints, swap>>
  BY DEF FeeSend
<1>2. fees \in [Swaps -> Nat]
  BY DEF IInv, TypeOK
<1>3. \E i \in 1..Len(mints) : mints[i].swap = s
  BY DEF FeeSend, At, ConcludedInv, Conveyed, Concluded, Sent
<1>4. charged' = charged \cup {s}
  <2>1. ASSUME NEW t \in Swaps
        PROVE  fees'[t] > 0 <=> fees[t] > 0 \/ t = s
    BY <1>1, <1>2
  <2> QED
    BY <2>1 DEF charged
<1>5. received' = received
  BY <1>1 DEF received
<1> QED
  BY <1>1, <1>3, <1>4, <1>5 DEF Promise!Charge

\* Every step of the pipeline is one the promise allows.
LEMMA StepRefines ==
  ASSUME IInv, ConcludedInv, Next
  PROVE  Promise!Next
<1>1. ASSUME UNCHANGED <<chain, mints, mints, fees>>, \A t \in Swaps : KeepsOrigin(t)
      PROVE  Promise!Next
  BY <1>1, ReceiveStep DEF Promise!Next
<1>2. CASE MineBlock
  <2>1. UNCHANGED <<mints, fees, swap>>
    BY <1>2 DEF MineBlock
  <2> QED
    BY <1>2, <2>1, BlocksStay, SameRowsKeepOrigin, ReceiveStep DEF Promise!Next
<1>5. CASE Arrival
  BY <1>1, <1>5, ArrivalKeeps, SameRowsKeepOrigin
<1>3. CASE Crash /\ UNCHANGED world
  BY <1>1, <1>3, SameRowsKeepOrigin DEF Crash, world
<1>4. ASSUME NEW s \in Swaps,
             Shared(s) \/ Confirm(s) \/ Wait(s) \/ Mint(s) \/ Fee(s)
      PROVE  Promise!Next
  <2>1. \A t \in Swaps : KeepsOrigin(t)
    BY <1>4, OriginsKept
  <2>2. CASE UNCHANGED <<chain, mints, mints, fees>>
    BY <1>1, <2>1, <2>2
  <2>3. CASE Shared(s)
    BY <2>2, <2>3, SharedEffect DEF world
  <2>4. CASE Confirm(s) \/ Wait(s)
    BY <2>2, <2>4 DEF Confirm, Wait, ConfirmRead, ConfirmScan, ConfirmWriteRow,
       OnConfirmFailed, OnConfirmCompleted, WaitRead, WaitConfirmed, OnWaitCompleted,
       world
  <2>5. CASE Mint(s)
    <3>1. UNCHANGED <<chain, mints, mints, fees>> \/ (MintSend(s) /\ mints' # mints)
      BY <2>5 DEF Mint, MintRead, GetMintRead, MinterRead, MintSend, OnMintCompleted,
         GetMintFind, OnGetMintCompleted
    <3> QED
      BY <2>2, <3>1, MintRefines DEF Promise!Next
  <2>6. CASE Fee(s)
    <3>1. UNCHANGED <<chain, mints, mints, fees>> \/ (FeeSend(s) /\ fees' # fees)
      BY <2>6 DEF Fee, FeeRead, FeeSend, FeeWriteRow, FeeDebit
    <3> QED
      BY <2>2, <3>1, ChargeRefines DEF Promise!Next
  <2> QED
    BY <1>4, <2>3, <2>4, <2>5, <2>6
<1> HIDE DEF Promise!Next
<1> QED
  BY <1>2, <1>3, <1>4, <1>5 DEF Next, Shared, Arrival

\* An Ethereum source swap keeps what the bridge promises: whatever fails, is
\* retried, redelivered or canceled, jettons are minted for tokens received, at the
\* rate of the bridge, to the address the swap was ordered for, and the fee is taken
\* only once such a mint of the swap was handed over.
THEOREM KeepsThePromise == Spec => ImplementsPromise
<1>1. Init => Promise!Init
  <2>1. ASSUME Init
        PROVE  /\ received = [s \in Swaps |-> {}]
               /\ mints = <<>>
               /\ charged = {}
    <3>1. \A s \in Swaps : swap[s].status = "none" /\ ~(fees[s] > 0)
      BY <2>1 DEF Init, InitTables, NoSwap
    <3> QED
      BY <2>1, <3>1 DEF Init, received, charged
  <2> QED
    BY <2>1 DEF Promise!Init
<1>2. IInv /\ ConcludedInv /\ [Next]_vars => [Promise!Next]_Promise!vars
  <2>1. ASSUME UNCHANGED vars
        PROVE  UNCHANGED Promise!vars
    BY <2>1 DEF vars, Promise!vars, received, charged
  <2> QED
    BY <2>1, StepRefines
<1> QED
  BY <1>1, <1>2, Invariance, ConclusionsHold, PTL
     DEF Spec, ImplementsPromise, Promise!Spec

-----------------------------------------------------------------------------
(* Wallets in use are held.                                                  *)

\* The handlers after the confirmation leave wallets marked as they are
\* (EthSourceSwapsProcessor from the second confirmation on,
\* TonDestinationSwapsProcessor).
LEMMA LateKeepsHold ==
  ASSUME IInv, NEW s \in Swaps, Wait(s) \/ Mint(s) \/ Fee(s)
  PROVE  KeepsHold(s)
<1>0. TablesOK /\ RequestInv(s) /\ UNCHANGED request
  BY DEF IInv, TypeOK, SwapInv, Wait, Mint, Fee, WaitRead, WaitConfirmed,
     OnWaitCompleted, MintRead, GetMintRead, MinterRead, MintSend, OnMintCompleted,
     GetMintFind, OnGetMintCompleted, FeeRead, FeeSend, FeeWriteRow, FeeDebit
<1>1. job[s].name \in {"wait", "mint", "getMint", "fee"}
  BY DEF Wait, Mint, Fee, WaitRead, WaitConfirmed, OnWaitCompleted, MintRead,
     GetMintRead, MinterRead, MintSend, OnMintCompleted, GetMintFind,
     OnGetMintCompleted, FeeRead, FeeSend, FeeWriteRow, FeeDebit, Takes, At
<1>2. job' = job \/ run'[s] = Idle
  <2>1. ASSUME NEW new, Enqueue(s, new)
        PROVE  run'[s] = Idle
    BY <1>0, <2>1 DEF Enqueue, TablesOK
  <2>2. ASSUME Fails(s, "error")
        PROVE  run'[s] = Idle
    BY <1>0, <1>1, <2>2 DEF Fails, TablesOK
  <2> QED
    BY <2>1, <2>2 DEF Wait, Mint, Fee, WaitRead, WaitConfirmed, OnWaitCompleted,
       MintRead, GetMintRead, MinterRead, MintSend, OnMintCompleted, GetMintFind,
       OnGetMintCompleted, FeeRead, FeeSend, FeeWriteRow, FeeDebit, DebitRefused,
       Exit, Goto, GotoWithBalance, Return
<1>3. \A w \in Wallets : wallet'[w].inUse => wallet[w].inUse
  <2>1. CASE UNCHANGED wallet
    BY <2>1
  <2>2. CASE Debit(s, swap[s].fee)
    BY <1>0, <2>2 DEF Debit, TablesOK
  <2> QED
    BY <2>1, <2>2 DEF Wait, Mint, Fee, WaitRead, WaitConfirmed, OnWaitCompleted,
       MintRead, GetMintRead, MinterRead, MintSend, OnMintCompleted, GetMintFind,
       OnGetMintCompleted, FeeRead, FeeSend, FeeWriteRow, FeeDebit, DebitRefused
<1> QED
  BY <1>0, <1>1, <1>2, <1>3, RestFields, LateHolds DEF LostInv

\* The confirm job holds its wallet until the handler has credited it
\* (confirmEthTransfer and its listeners).
LEMMA ConfirmKeepsHold ==
  ASSUME IInv, NEW s \in Swaps, Confirm(s)
  PROVE  KeepsHold(s)
<1>0. /\ TablesOK /\ RequestInv(s) /\ UNCHANGED request
      /\ job[s].name = "confirm"
  BY DEF IInv, TypeOK, SwapInv, Confirm, ConfirmRead, ConfirmReads, ConfirmScan,
     ConfirmWriteRow, ConfirmCredit, OnConfirmFailed, OnConfirmCompleted, Takes, At
<1>1. swap'[s].sourceWallet = swap[s].sourceWallet
  BY <1>0, OriginsKept DEF KeepsOrigin, RequestInv
<1>2. CASE ConfirmRead(s)
  <2>1. job' = job /\ run'[s].stage \in {"exitRow", "scan"}
    BY <1>0, <1>2, ConfirmReadsFields DEF ConfirmRead, Stages
  <2> QED
    BY <1>0, <1>1, <1>2, <2>1, ConfirmHolds DEF ConfirmRead, ConfirmReads
<1>3. CASE ConfirmScan(s)
  <2>1. job'[s].name = "confirm" /\ run'[s].stage \in {"idle", "failed", "row", "exitRow"}
    <3>1. ASSUME NEW why \in {"error", "notFound"}, Fails(s, why)
          PROVE  job'[s].name = "confirm" /\ run'[s].stage \in {"idle", "failed"}
      BY <1>0, <3>1, FailsFields
    <3>2. ASSUME Exit(s, "failed")
          PROVE  job' = job /\ run'[s].stage = "exitRow"
      BY <1>0, <3>2, ExitFields DEF Statuses
    <3>3. ASSUME NEW n, run' = [run EXCEPT ![s].stage = "row", ![s].tx = n]
          PROVE  run'[s].stage = "row"
      BY <1>0, <3>3 DEF TablesOK, Runs
    <3> QED
      BY <1>0, <1>3, <3>1, <3>2, <3>3 DEF ConfirmScan
  <2> QED
    BY <1>0, <1>1, <1>3, <2>1, ConfirmHolds DEF ConfirmScan
<1>4. CASE ConfirmWriteRow(s)
  <2>1. job' = job /\ run'[s].stage = "credit"
    BY <1>0, <1>4, GotoFields DEF ConfirmWriteRow, Stages
  <2> QED
    BY <1>0, <1>1, <1>4, <2>1, ConfirmHolds DEF ConfirmWriteRow
<1>5. CASE ConfirmCredit(s)
  <2>1. job' = job
    BY <1>0, <1>5, ConfirmCreditFields
  <2>2. \A w \in Wallets :
          wallet'[w].inUse => wallet[w].inUse /\ w # swap[s].sourceWallet
    BY <1>0, <1>5 DEF ConfirmCredit, TablesOK
  <2> QED
    BY <1>0, <1>1, <2>1, <2>2, ConfirmHolds
<1>6. CASE OnConfirmFailed(s)
  <2>1. job'[s] = NextConfirm(s) /\ run'[s] = Idle
    BY <1>0, <1>6 DEF OnConfirmFailed, Enqueue, TablesOK
  <2>2. NextConfirm(s).name = "confirm" /\ Idle.stage = "idle"
    BY DEF NextConfirm, NewJob, Idle, NewRun
  <2> QED
    BY <1>0, <1>1, <1>6, <2>1, <2>2, ConfirmHolds DEF OnConfirmFailed
<1>7. CASE OnConfirmCompleted(s)
  <2>1. /\ EndedJob.name = "ended"
        /\ NewJob("wait", 2, run[s].tx, NormalAttempts).name = "wait"
    BY DEF EndedJob, NewJob
  <2>2. job'[s].name \in {"ended", "wait"}
    BY <1>0, <1>7, <2>1 DEF OnConfirmCompleted, Enqueue, TablesOK
  <2> QED
    BY <1>0, <1>1, <1>7, <2>2, ConfirmHolds DEF OnConfirmCompleted, At
<1> QED
  BY <1>2, <1>3, <1>4, <1>5, <1>6, <1>7 DEF Confirm

\* Every step keeps the wallets in use held.
LEMMA HeldNext == IInv /\ HeldInv /\ [Next]_vars => HeldInv'
<1> SUFFICES ASSUME IInv, HeldInv, [Next]_vars
             PROVE  HeldInv'
  OBVIOUS
<1>0. TablesOK
  BY DEF IInv, TypeOK
<1>1. ASSUME NEW s \in Swaps, Shared(s)
      PROVE  HeldInv'
  <2>1. /\ RequestInv(s) /\ ExitInv(s) /\ MarkedInv(s) /\ LostInv(s)
        /\ Len(ton) \in Nat /\ Len(chain) \in Nat
    BY LenProperties DEF IInv, SwapInv, HeldInv, TypeOK
  <2>2. KeepsHold(s)
    BY <1>0, <1>1, <2>1, CreateHolds, CreateFailsHolds, CancelHolds, SettleHolds
       DEF Shared, Create, CreateFails, Cancel, Settle
  <2>3. OnlyOf(s)
    BY <1>1, SharedEffect DEF Effect
  <2> QED
    BY <2>2, <2>3, HeldStep
<1>2. ASSUME NEW s \in Swaps, Confirm(s) \/ Wait(s) \/ Mint(s) \/ Fee(s)
      PROVE  HeldInv'
  <2>1. UNCHANGED <<request, cancel>>
    BY <1>2 DEF Confirm, Wait, Mint, Fee, ConfirmRead, ConfirmReads, ConfirmScan,
       ConfirmWriteRow, ConfirmCredit, OnConfirmFailed, OnConfirmCompleted, WaitRead,
       WaitConfirmed, OnWaitCompleted, MintRead, GetMintRead, MinterRead, MintSend,
       OnMintCompleted, GetMintFind, OnGetMintCompleted, FeeRead, FeeSend,
       FeeWriteRow, FeeDebit
  <2>2. OnlyOf(s)
    BY <1>2, <2>1, HandlersKeepOthers DEF OthersKept, OnlyOf
  <2> QED
    BY <1>2, <2>2, LateKeepsHold, ConfirmKeepsHold, HeldStep
<1>3. CASE MineBlock \/ Arrival \/ UNCHANGED vars
  BY <1>3, ArrivalKeeps DEF MineBlock, vars, HeldInv, InUseIsHeld, Holds, MarkedInv, LostInv
<1>4. CASE Crash
  BY <1>0, <1>4, CrashHolds
<1> QED
  BY <1>1, <1>2, <1>3, <1>4 DEF Next, Shared, Arrival

\* However requests, cancellations, deadlines, failures and crashes interleave, a
\* wallet in use belongs to a request or a job that has still to release it, or to
\* one that was cut off (createSwap, confirmEthTransfer, SwapsHelper).
THEOREM WalletsAreHeld == Spec => []InUseIsHeld
<1>1. Init => HeldInv
  BY InitHeld DEF Init
<1>2. HeldInv => InUseIsHeld
  BY DEF HeldInv
<1> QED
  BY <1>1, <1>2, InitInv, NextInv, HeldNext, PTL DEF Spec

-----------------------------------------------------------------------------
(* The scan passes over no transfer.                                         *)

\* Block n, if the chain has it, paid the source wallet of s nothing.
Unpaid(s, n) == n \in 1..Len(chain) => chain[n].to # swap[s].sourceWallet

\* Between the block the scan of s began at and the one it has come to there was
\* nothing to take, and what it takes is not too old.
ScanInv(s) ==
  LET tx == swap[s].sourceTransactionId
  IN  /\ job[s].name = "none" => tx = 0
      /\ job[s].name = "confirm" =>
           /\ request[s].block <= job[s].arg
           /\ job[s].arg <= Len(chain) + 1
           /\ tx = 0 => \A n \in request[s].block..(job[s].arg - 1) : Unpaid(s, n)
      /\ At(s, "confirm", "failed") /\ run[s].result = "notFound" =>
           job[s].arg <= Len(chain) /\ Unpaid(s, job[s].arg)
      /\ At(s, "confirm", "row") => run[s].tx + LookBack >= request[s].block
      /\ tx # 0 =>
           /\ tx \in 1..Len(chain)
           /\ chain[tx].to = swap[s].sourceWallet
           /\ tx + LookBack >= request[s].block

Scanned == \A s \in Swaps : ScanInv(s)

\* The scan of s has come no further, and what it found is what it had found.
KeepsScan(s) ==
  /\ request'[s].block = request[s].block
  /\ swap'[s].sourceTransactionId = swap[s].sourceTransactionId
  /\ swap'[s].sourceWallet = swap[s].sourceWallet
  /\ job'[s].name \in {"none", "confirm"} =>
       job'[s].name = job[s].name /\ job'[s].arg = job[s].arg
  /\ At(s, "confirm", "failed")' /\ run'[s].result = "notFound" =>
       At(s, "confirm", "failed") /\ run[s].result = "notFound"
  /\ At(s, "confirm", "row")' => At(s, "confirm", "row") /\ run'[s].tx = run[s].tx

LEMMA ScanKept ==
  ASSUME NEW s \in Swaps, ScanInv(s), KeepsScan(s), UNCHANGED chain
  PROVE  ScanInv(s)'
  BY DEF ScanInv, KeepsScan, Unpaid, At

\* An action on s alone leaves the scans of the other swaps.
LEMMA ScanStep ==
  ASSUME Scanned, NEW s \in Swaps, OnlyOf(s), UNCHANGED chain, ScanInv(s)'
  PROVE  Scanned'
<1>1. ASSUME NEW t \in Swaps \ {s}
      PROVE  ScanInv(t)'
  <2>1. KeepsScan(t)
    BY DEF OnlyOf, KeepsScan, At
  <2> QED
    BY <2>1, ScanKept DEF Scanned
<1> QED
  BY <1>1 DEF Scanned

\* Until its job is added the row of a swap has taken no transfer (createSwap up to
\* the insertion of the row).
LEMMA UnscannedStep ==
  ASSUME TablesOK, NEW s \in Swaps, RequestInv(s), ScanInv(s),
         PickWallet(s) \/ MarkWallet(s) \/ InsertSwap(s, Len(ton)) \/ InsertFails(s)
  PROVE  ScanInv(s)'
<1>1. job' = job /\ job[s].name = "none"
  BY DEF PickWallet, MarkWallet, InsertSwap, InsertFails, RequestAt, RequestInv
<1>2. swap'[s].sourceTransactionId = 0
  <2>1. swap[s].sourceTransactionId = 0
    BY <1>1 DEF ScanInv
  <2>2. CASE InsertSwap(s, Len(ton))
    BY <2>2 DEF InsertSwap, TablesOK, NoSwap
  <2> QED
    BY <2>1, <2>2 DEF PickWallet, MarkWallet, InsertFails
<1> QED
  BY <1>1, <1>2 DEF ScanInv, At

\* The scan begins at the latest block there is (runConfirmEthSwapJob).
LEMMA ScanBegins ==
  ASSUME TablesOK, NEW s \in Swaps, RequestInv(s), ScanInv(s), Len(chain) \in Nat,
         UNCHANGED chain,
         AddConfirmJob(s, Len(chain)) \/ AddConfirmJobFails(s, Len(chain))
  PROVE  ScanInv(s)'
<1>1. job[s].name = "none" /\ run[s].stage = "idle" /\ UNCHANGED swap
  BY DEF AddConfirmJob, AddConfirmJobFails, RequestAt, RequestInv
<1>2. swap[s].sourceTransactionId = 0
  BY <1>1 DEF ScanInv
<1>3. request'[s].block = Len(chain)
  BY DEF AddConfirmJob, AddConfirmJobFails, TablesOK, Requests
<1>4. CASE UNCHANGED <<job, run>>
  BY <1>1, <1>2, <1>4 DEF ScanInv, At
<1>5. CASE Enqueue(s, NewJob("confirm", Len(chain), 0, 1))
  <2>1. job'[s].arg = Len(chain) /\ run'[s].stage = "idle"
    BY <1>5, RestFields DEF Enqueue, TablesOK, NewJob
  <2> QED
    BY <1>1, <1>2, <1>3, <2>1 DEF ScanInv, At
<1> QED
  BY <1>4, <1>5 DEF AddConfirmJob, AddConfirmJobFails

\* What else requests, the helpers, the clock and a throw do leaves the scan.
LEMMA SharedScan ==
  ASSUME IInv, NEW s \in Swaps, ScanInv(s), Shared(s)
  PROVE  ScanInv(s)'
<1>0. /\ TablesOK /\ RequestInv(s) /\ ExitInv(s) /\ Len(chain) \in Nat
      /\ UNCHANGED chain /\ Effect(s)
  BY LenProperties, SharedEffect DEF IInv, TypeOK, SwapInv, world
<1>1. CASE PickWallet(s) \/ MarkWallet(s) \/ InsertSwap(s, Len(ton)) \/ InsertFails(s)
  BY <1>0, <1>1, UnscannedStep
<1>2. CASE AddConfirmJob(s, Len(chain)) \/ AddConfirmJobFails(s, Len(chain))
  BY <1>0, <1>2, ScanBegins
<1>3. CASE \/ FailSwap(s) \/ ReleaseRequested(s) \/ RequestThrows(s)
           \/ CancelRead(s) \/ CancelWrite(s) \/ Tick(s)
  <2>1. UNCHANGED <<job, run>>
    BY <1>3 DEF FailSwap, ReleaseRequested, RequestThrows, CancelRead, CancelWrite, Tick
  <2>2. request'[s].block = request[s].block
    BY <1>0, <1>3, RequestGotoKeepsBlock DEF FailSwap, ReleaseRequested, RequestThrows,
       CancelRead, CancelWrite, Tick
  <2>3. UNCHANGED swap \/ KeepsRow(s)
    BY <1>0, <1>3 DEF Effect, FailSwap, ReleaseRequested, RequestThrows, CancelRead,
       CancelWrite, Tick, RequestAt, RequestInv
  <2> QED
    BY <1>0, <2>1, <2>2, <2>3, ScanKept DEF KeepsScan, KeepsRow, At
<1>4. CASE Settle(s) \/ HandlerThrows(s)
  <2>1. UNCHANGED request /\ run[s].stage # "idle"
    BY <1>4 DEF Settle, ExitRow, ExitWallet, HandlerThrows
  <2>2. KeepsRow(s) /\ job[s].name # "none"
    BY <1>0, <2>1 DEF Effect, RequestInv
  <2>3. CASE Settle(s)
    <3>1. job' = job /\ run'[s].stage \in {"exitWallet", "completed"}
      BY <1>0, <2>3 DEF Settle, ExitRow, ExitWallet, Goto, Return, NewRun, TablesOK, Runs
    <3> QED
      BY <1>0, <2>1, <2>2, <3>1, ScanKept DEF KeepsScan, KeepsRow, At
  <2>4. CASE HandlerThrows(s)
    <3>1. \/ /\ job'[s].name = job[s].name /\ job'[s].arg = job[s].arg
             /\ run'[s].stage = "idle"
          \/ /\ job'[s] = job[s] /\ run'[s].stage = "failed" /\ run'[s].result = "error"
          \/ job'[s].name = "lost"
      BY <1>0, <2>4, FailsFields DEF HandlerThrows
    <3> QED
      BY <1>0, <2>1, <2>2, <3>1, ScanKept DEF KeepsScan, KeepsRow, At
  <2> QED
    BY <1>4, <2>3, <2>4
<1> QED
  BY <1>1, <1>2, <1>3, <1>4 DEF Shared, Create, CreateFails, Cancel, Settle

\* The handler finds a transfer no older than its window, or none in the block it
\* reads (confirmEthTransfer).
LEMMA ConfirmScanScan ==
  ASSUME IInv, NEW s \in Swaps, ScanInv(s), ConfirmScan(s)
  PROVE  ScanInv(s)'
<1>0. /\ TablesOK /\ Len(chain) \in Nat /\ job[s].name = "confirm"
      /\ job[s].arg \in Nat /\ request[s].block \in Nat /\ LookBack \in Nat
      /\ UNCHANGED <<chain, swap, request>>
  BY LenProperties, BlockAssumption
     DEF IInv, TypeOK, ConfirmScan, At, TablesOK, Jobs, Requests
<1>1. ASSUME job[s].arg > Len(chain), Fails(s, "error")
      PROVE  ScanInv(s)'
  <2>1. \/ /\ job'[s].name = job[s].name /\ job'[s].arg = job[s].arg
           /\ run'[s].stage = "idle"
        \/ /\ job'[s] = job[s] /\ run'[s].stage = "failed" /\ run'[s].result = "error"
    BY <1>0, <1>1, FailsFields
  <2> QED
    BY <1>0, <2>1, ScanKept DEF KeepsScan, At
<1>2. ASSUME job[s].arg <= Len(chain), Payments(s) = {}, Fails(s, "notFound")
      PROVE  ScanInv(s)'
  <2>1. Unpaid(s, job[s].arg)
    BY <1>0, <1>2 DEF Unpaid, Payments, Window
  <2>2. /\ job'[s].name = job[s].name /\ job'[s].arg = job[s].arg
        /\ run'[s].stage \in {"idle", "failed"}
    BY <1>0, <1>2, FailsFields
  <2> QED
    BY <1>0, <1>2, <2>1, <2>2 DEF ScanInv, Unpaid, At
<1>3. ASSUME NEW n \in Payments(s),
             run' = [run EXCEPT ![s].stage = "row", ![s].tx = n], job' = job
      PROVE  ScanInv(s)'
  <2>0. /\ request[s].block <= job[s].arg
        /\ n \in 1..job[s].arg /\ n >= job[s].arg - LookBack
    BY <1>0, <1>3 DEF Payments, Window, ScanInv
  <2>1. n \in Nat /\ n + LookBack >= request[s].block
    BY <1>0, <2>0
  <2>2. run'[s].stage = "row" /\ run'[s].tx = n
    BY <1>0, <1>3, <2>1 DEF TablesOK, Runs
  <2> QED
    BY <1>0, <1>3, <2>1, <2>2 DEF ScanInv, Unpaid, At
<1>4. ASSUME Exit(s, "failed")
      PROVE  ScanInv(s)'
  <2>1. job' = job /\ run'[s].stage = "exitRow"
    BY <1>0, <1>4, ExitFields DEF Statuses
  <2> QED
    BY <1>0, <2>1, ScanKept DEF KeepsScan, At
<1> QED
  BY <1>1, <1>2, <1>3, <1>4 DEF ConfirmScan

\* The listener of a failed confirm job moves the scan past a block that was read and
\* held nothing, and past no other (onConfirmEthTransferFailed).
LEMMA OnConfirmFailedScan ==
  ASSUME IInv, NEW s \in Swaps, ScanInv(s), OnConfirmFailed(s)
  PROVE  ScanInv(s)'
<1>0. /\ TablesOK /\ Len(chain) \in Nat /\ At(s, "confirm", "failed")
      /\ job[s].arg \in Nat /\ request[s].block \in Nat
      /\ UNCHANGED <<chain, swap, request>>
  BY LenProperties DEF IInv, TypeOK, OnConfirmFailed, TablesOK, Jobs, Requests
<1>1. /\ job'[s].name = "confirm" /\ job'[s].arg = NextBlock(s)
      /\ run'[s].stage = "idle"
  BY <1>0, RestFields DEF OnConfirmFailed, Enqueue, TablesOK, NextConfirm, NewJob
<1>2. CASE run[s].result = "notFound"
  <2>1. NextBlock(s) = job[s].arg + 1 /\ Unpaid(s, job[s].arg)
    BY <1>0, <1>2 DEF NextBlock, ScanInv
  <2>2. /\ request[s].block <= job[s].arg /\ job[s].arg <= Len(chain)
        /\ swap[s].sourceTransactionId = 0 =>
             \A n \in request[s].block..(job[s].arg - 1) : Unpaid(s, n)
    BY <1>0, <1>2 DEF ScanInv, At
  <2>3. swap[s].sourceTransactionId = 0 =>
          \A n \in request[s].block..(NextBlock(s) - 1) : Unpaid(s, n)
    <3>1. \A n \in request[s].block..(NextBlock(s) - 1) :
            n \in request[s].block..(job[s].arg - 1) \/ n = job[s].arg
      BY <1>0, <2>1
    <3> QED
      BY <2>1, <2>2, <3>1
  <2>4. request[s].block <= NextBlock(s) /\ NextBlock(s) <= Len(chain) + 1
    BY <1>0, <2>1, <2>2
  <2> HIDE DEF NextBlock
  <2> QED
    BY <1>0, <1>1, <2>3, <2>4 DEF ScanInv, Unpaid, At
<1>3. CASE run[s].result # "notFound"
  <2>1. NextBlock(s) = job[s].arg
    BY <1>3 DEF NextBlock
  <2> QED
    BY <1>0, <1>1, <2>1 DEF ScanInv, Unpaid, At
<1> QED
  BY <1>2, <1>3

\* The other handlers of the confirm job write the row of what was found, or leave
\* the scan (confirmEthTransfer, onConfirmEthTransferCompleted).
LEMMA ConfirmScanned ==
  ASSUME IInv, NEW s \in Swaps, ScanInv(s), Confirm(s)
  PROVE  ScanInv(s)'
<1>0. /\ TablesOK /\ RequestInv(s) /\ ConfirmInv(s)
      /\ UNCHANGED <<chain, request>> /\ job[s].name = "confirm"
  BY DEF IInv, TypeOK, SwapInv, Confirm, ConfirmRead, ConfirmReads, ConfirmScan,
     ConfirmWriteRow, ConfirmCredit, OnConfirmFailed, OnConfirmCompleted, Takes, At,
     world
<1>1. CASE ConfirmRead(s)
  <2>1. job' = job /\ run'[s].stage \in {"exitRow", "scan"}
    BY <1>0, <1>1, ConfirmReadsFields DEF ConfirmRead, Stages
  <2> QED
    BY <1>0, <1>1, <2>1, ScanKept DEF ConfirmRead, ConfirmReads, KeepsScan, At
<1>2. CASE ConfirmWriteRow(s)
  <2> DEFINE tx == run[s].tx
             amount == chain[tx].amount
  <2>1. tx \in 1..Len(chain) /\ chain[tx].to = swap[s].sourceWallet
    BY <1>0, <1>2 DEF ConfirmWriteRow, ConfirmInv
  <2>2. tx + LookBack >= request[s].block
    BY <1>2 DEF ConfirmWriteRow, ScanInv
  <2>3. swap'[s] = ConfirmedRow(s, amount, tx)
    BY <1>0, <1>2 DEF ConfirmWriteRow, TablesOK
  <2>4. job' = job /\ run'[s].stage = "credit"
    BY <1>0, <1>2, GotoFields DEF ConfirmWriteRow, Stages
  <2> HIDE DEF tx, amount
  <2>5. /\ swap'[s].sourceTransactionId = tx
        /\ swap'[s].sourceWallet = swap[s].sourceWallet
    BY <1>0, <2>3, ConfirmedRowStatus
  <2> QED
    BY <1>0, <2>1, <2>2, <2>4, <2>5 DEF ScanInv, At
<1>3. CASE ConfirmCredit(s)
  <2>1. job' = job /\ run'[s].stage = "completed"
    BY <1>0, <1>3, ConfirmCreditFields
  <2> QED
    BY <1>0, <1>3, <2>1, ScanKept DEF ConfirmCredit, KeepsScan, At
<1>4. CASE OnConfirmCompleted(s)
  <2>1. /\ EndedJob.name = "ended"
        /\ NewJob("wait", 2, run[s].tx, NormalAttempts).name = "wait"
    BY DEF EndedJob, NewJob
  <2>2. job'[s].name \in {"ended", "wait"}
    BY <1>0, <1>4, <2>1 DEF OnConfirmCompleted, Enqueue, TablesOK
  <2> QED
    BY <1>0, <1>4, <2>2, ScanKept DEF OnConfirmCompleted, KeepsScan, At
<1> QED
  BY <1>1, <1>2, <1>3, <1>4, ConfirmScanScan, OnConfirmFailedScan DEF Confirm

\* The handlers after the confirmation leave the transfer of the row, and no job they
\* add scans again (EthSourceSwapsProcessor, TonDestinationSwapsProcessor).
LEMMA LateRow ==
  ASSUME IInv, NEW s \in Swaps, Wait(s) \/ Mint(s) \/ Fee(s)
  PROVE  /\ KeepsRow(s) /\ UNCHANGED request
         /\ job[s].name \in {"wait", "mint", "getMint", "fee"}
         /\ job'[s].name \notin {"none", "confirm"}
<1>0. TablesOK
  BY DEF IInv, TypeOK
<1>1. job[s].name \in {"wait", "mint", "getMint", "fee"} /\ UNCHANGED request
  BY DEF Wait, Mint, Fee, WaitRead, WaitConfirmed, OnWaitCompleted, MintRead,
     GetMintRead, MinterRead, MintSend, OnMintCompleted, GetMintFind,
     OnGetMintCompleted, FeeRead, FeeSend, FeeWriteRow, FeeDebit, Takes, At
<1>2. KeepsRow(s)
  <2>1. CASE UNCHANGED swap
    BY <2>1 DEF KeepsRow
  <2>2. CASE WaitConfirmed(s)
    <3>1. job[s].arg \in Nat
      BY <1>0 DEF TablesOK, Jobs
    <3> QED
      BY <1>0, <2>2, <3>1, ConfirmationsFields DEF WaitConfirmed, RowTyped
  <2>3. CASE swap' = [swap EXCEPT ![s].status = "completed"]
    BY <1>0, <2>3, StatusFields DEF Statuses, RowTyped
  <2>4. CASE FeeWriteRow(s)
    BY <1>0, <2>4, CollectedFields DEF FeeWriteRow, RowTyped
  <2> QED
    BY <2>1, <2>2, <2>3, <2>4 DEF Wait, Mint, Fee, WaitRead, OnWaitCompleted, MintRead,
       GetMintRead, MinterRead, MintSend, OnMintCompleted, GetMintFind,
       OnGetMintCompleted, FeeRead, FeeSend, FeeDebit
<1>3. job'[s].name \notin {"none", "confirm"}
  <2>1. ASSUME NEW new, new.name \notin {"none", "confirm"}, Enqueue(s, new)
        PROVE  job'[s].name \notin {"none", "confirm"}
    BY <1>0, <2>1 DEF Enqueue, TablesOK
  <2>2. ASSUME Fails(s, "error")
        PROVE  job'[s].name \notin {"none", "confirm"}
    BY <1>0, <1>1, <2>2, FailsFields
  <2>3. /\ EndedJob.name = "ended"
        /\ NewJob("wait", job[s].arg + 1, job[s].tx, 1).name = "wait"
        /\ NewJob("mint", 0, 0, ExtendedAttempts).name = "mint"
        /\ NewJob("getMint", 0, 0, ExtendedAttempts).name = "getMint"
        /\ NewJob("fee", 0, 0, UltimateAttempts).name = "fee"
    BY DEF EndedJob, NewJob
  <2>4. CASE Wait(s)
    BY <1>1, <2>1, <2>3, <2>4 DEF Wait, WaitRead, WaitConfirmed, OnWaitCompleted, Exit,
       Goto, Return
  <2>5. CASE Mint(s)
    BY <1>1, <2>1, <2>2, <2>3, <2>5 DEF Mint, MintRead, GetMintRead, MinterRead,
       MintSend, OnMintCompleted, GetMintFind, OnGetMintCompleted, Exit, Goto, Return
  <2>6. CASE Fee(s)
    BY <1>1, <2>1, <2>2, <2>3, <2>6 DEF Fee, FeeRead, FeeSend, FeeWriteRow, FeeDebit,
       DebitRefused, Exit, Goto, GotoWithBalance, Return
  <2> QED
    BY <2>4, <2>5, <2>6
<1> QED
  BY <1>1, <1>2, <1>3

\* A block that is mined comes after all those the scans have passed.
LEMMA MineBlockScan ==
  ASSUME IInv, NEW s \in Swaps, ScanInv(s), MineBlock
  PROVE  ScanInv(s)'
<1>1. /\ Len(chain) \in Nat /\ job[s].arg \in Nat /\ request[s].block \in Nat
      /\ UNCHANGED <<job, run, request, swap>>
  BY LenProperties DEF IInv, TypeOK, TablesOK, Jobs, Requests, MineBlock
<1>2. Len(chain') = Len(chain) + 1 /\ \A n \in 1..Len(chain) : chain'[n] = chain[n]
  <2>1. PICK block \in {NoTransfer} \cup Transfers : chain' = Append(chain, block)
    BY DEF MineBlock
  <2>2. chain \in Seq(Transfers \cup {NoTransfer})
    BY DEF IInv, TypeOK
  <2> QED
    BY <2>1, <2>2
<1>3. ASSUME NEW n, n <= Len(chain), Unpaid(s, n)
      PROVE  Unpaid(s, n)'
  BY <1>1, <1>2, <1>3 DEF Unpaid
<1> QED
  BY <1>1, <1>2, <1>3 DEF ScanInv, At

\* Every step leaves the scans as they should be.
LEMMA ScannedNext == IInv /\ Scanned /\ [Next]_vars => Scanned'
<1> SUFFICES ASSUME IInv, Scanned, [Next]_vars
             PROVE  Scanned'
  OBVIOUS
<1>0. TablesOK
  BY DEF IInv, TypeOK
<1>1. ASSUME NEW s \in Swaps, Shared(s)
      PROVE  Scanned'
  <2>1. OnlyOf(s) /\ UNCHANGED chain
    BY <1>1, SharedEffect DEF Effect, world
  <2> QED
    BY <1>1, <2>1, SharedScan, ScanStep DEF Scanned
<1>2. ASSUME NEW s \in Swaps, Confirm(s) \/ Wait(s) \/ Mint(s) \/ Fee(s)
      PROVE  Scanned'
  <2>1. UNCHANGED <<chain, request, cancel>>
    BY <1>2 DEF Confirm, Wait, Mint, Fee, ConfirmRead, ConfirmReads, ConfirmScan,
       ConfirmWriteRow, ConfirmCredit, OnConfirmFailed, OnConfirmCompleted, WaitRead,
       WaitConfirmed, OnWaitCompleted, MintRead, GetMintRead, MinterRead, MintSend,
       OnMintCompleted, GetMintFind, OnGetMintCompleted, FeeRead, FeeSend,
       FeeWriteRow, FeeDebit, world
  <2>2. OnlyOf(s)
    BY <1>2, <2>1, HandlersKeepOthers DEF OthersKept, OnlyOf
  <2>3. ScanInv(s)'
    <3>1. CASE Wait(s) \/ Mint(s) \/ Fee(s)
      BY <2>1, <3>1, LateRow, ScanKept DEF Scanned, KeepsScan, KeepsRow, At
    <3> QED
      BY <1>2, <3>1, ConfirmScanned DEF Scanned
  <2> QED
    BY <2>1, <2>2, <2>3, ScanStep
<1>3. CASE MineBlock
  BY <1>3, MineBlockScan DEF Scanned
<1>4. CASE Crash /\ UNCHANGED world
  <2>1. ASSUME NEW t \in Swaps
        PROVE  KeepsScan(t)
    BY <1>0, <1>4, CrashEffect DEF KeepsScan, CrashedJob, At
  <2> QED
    BY <1>4, <2>1, ScanKept DEF Scanned, world
<1>5. CASE Arrival \/ UNCHANGED vars
  <2>1. ASSUME NEW t \in Swaps
        PROVE  KeepsScan(t)
    BY <1>5, ArrivalKeeps DEF vars, KeepsScan, At
  <2> QED
    BY <1>5, <2>1, ArrivalKeeps, ScanKept DEF Scanned, vars
<1> QED
  BY <1>1, <1>2, <1>3, <1>4, <1>5 DEF Next, Shared, Arrival

\* Before any request nothing was scanned.
LEMMA ScannedInit == Init => Scanned
BY DEF Init, InitTables, Scanned, ScanInv, At, NoSwap, NoJob, NewJob, Idle, NewRun

\* It holds in every state the program reaches.
THEOREM ScansHold == Spec => []Scanned
<1> QED
  BY InitInv, NextInv, ScannedInit, ScannedNext, PTL DEF Spec

\* However often Infura lags or fails and the failed listener adds the job anew, the
\* scan of confirmEthTransfer passes over no transfer to the source wallet.
THEOREM ScansPassOverNothing == Spec => []NoTransferPassedOver
<1>1. Scanned => NoTransferPassedOver
  BY DEF Scanned, ScanInv, Unpaid, NoTransferPassedOver
<1> QED
  BY <1>1, ScansHold, PTL

\* A transfer that two swaps have taken went to a wallet they share, and was not older
\* than LookBack blocks when the scan of either began (confirmEthTransfer).
THEOREM SharedTransfersAreRecent == Spec => []SharedTransferIsRecent
<1>1. Scanned => SharedTransferIsRecent
  BY DEF Scanned, ScanInv, SharedTransferIsRecent
<1> QED
  BY <1>1, ScansHold, PTL

-----------------------------------------------------------------------------
(* Mints and fees are repeated no more often than attempts and stalls allow. *)

MintsOf(s) == {i \in 1..Len(mints) : mints[i].swap = s}
Minted(s) == Cardinality(MintsOf(s))

\* What the mint and the fee job have done is within their budget, and before they
\* begin nothing was done.
BudgetInv(s) ==
  /\ Minted(s) <= ExtendedAttempts + MaxStalls
  /\ job[s].name = "mint" =>
       Within(Minted(s), ExtendedAttempts, job[s], run[s].stage = "completed")
  /\ fees[s] <= UltimateAttempts + MaxStalls
  /\ job[s].name \in {"none", "confirm", "wait", "mint", "getMint"} => fees[s] = 0
  /\ job[s].name = "fee" =>
       Within(fees[s], UltimateAttempts, job[s], run[s].stage \in {"collect", "debit"})

Budgeted == \A s \in Swaps : BudgetInv(s)

\* Mints are counted, and there are none before the mint job.
LEMMA MintedFields ==
  ASSUME IInv, NEW s \in Swaps
  PROVE  /\ Minted(s) \in Nat
         /\ job[s].name \in {"none", "confirm", "wait"} => Minted(s) = 0
<1>1. Len(mints) \in Nat /\ MintsOf(s) \subseteq 1..Len(mints)
  BY LenProperties DEF IInv, TypeOK, MintsOf
<1>2. Cardinality(MintsOf(s)) \in Nat
  BY <1>1, OneMore
<1>3. ASSUME job[s].name \in {"none", "confirm", "wait"}
      PROVE  MintsOf(s) = {}
  BY <1>3 DEF IInv, MintInv, MintsOf
<1> QED
  BY <1>2, <1>3, FS_EmptySet DEF Minted

\* A step that mints and charges nothing for s and leaves its job budgeted.
LEMMA SameCounts ==
  ASSUME NEW s \in Swaps, UNCHANGED mints
  PROVE  Minted(s)' = Minted(s)
  BY DEF Minted, MintsOf

\* A message of mintTonJettons adds one mint for its swap at the most, and none for
\* the others.
LEMMA MintSendCounts ==
  ASSUME IInv, NEW s \in Swaps, MintSend(s)
  PROVE  /\ Minted(s)' \in Nat /\ Minted(s)' <= Minted(s) + 1
         /\ \A t \in Swaps \ {s} : Minted(t)' = Minted(t)
<1> DEFINE mint == MintOf(s)
<1>1. CASE mints' = mints
  <2>1. \A t \in Swaps : Minted(t)' = Minted(t)
    BY <1>1, SameCounts
  <2> QED
    BY <2>1, MintedFields
<1>2. CASE mints' = Append(mints, mint)
  <2>1. mints \in Seq(Mints) /\ Len(mints) \in Nat /\ mint.swap = s
    BY LenProperties DEF IInv, TypeOK, MintOf
  <2> HIDE DEF mint
  <2>2. /\ Len(mints') = Len(mints) + 1
        /\ mints'[Len(mints) + 1] = mint
        /\ \A i \in 1..Len(mints) : mints'[i] = mints[i]
    BY <1>2, <2>1
  <2>3. /\ MintsOf(s) \subseteq 1..Len(mints)
        /\ MintsOf(s)' \subseteq MintsOf(s) \cup {Len(mints) + 1}
    BY <2>1, <2>2 DEF MintsOf
  <2>4. /\ Cardinality(MintsOf(s)') \in Nat
        /\ Cardinality(MintsOf(s)') <= Cardinality(MintsOf(s)) + 1
    BY <2>1, <2>3, OneMore
  <2>5. ASSUME NEW t \in Swaps \ {s}
        PROVE  MintsOf(t)' = MintsOf(t)
    BY <2>1, <2>2 DEF MintsOf
  <2> QED
    BY <2>4, <2>5 DEF Minted
<1> QED
  BY <1>1, <1>2 DEF MintSend

\* An action on s alone leaves the budgets of the other swaps.
LEMMA BudgetStep ==
  ASSUME Budgeted, NEW s \in Swaps, BudgetInv(s)',
         \A t \in Swaps \ {s} :
           /\ job'[t] = job[t] /\ run'[t] = run[t]
           /\ fees'[t] = fees[t] /\ Minted(t)' = Minted(t)
  PROVE  Budgeted'
<1>1. ASSUME NEW t \in Swaps \ {s}
      PROVE  BudgetInv(t)'
  BY DEF Budgeted, BudgetInv
<1> QED
  BY <1>1 DEF Budgeted

\* A throw uses up an attempt of the mint or the fee job (the attempts of queue.add).
LEMMA ThrowBudget ==
  ASSUME IInv, NEW s \in Swaps, BudgetInv(s), job[s].name # "none",
         Fails(s, "error"), UNCHANGED <<mints, fees>>
  PROVE  BudgetInv(s)'
<1>0. /\ TablesOK /\ Minted(s) \in Nat /\ Minted(s)' = Minted(s)
      /\ fees[s] \in Nat /\ fees'[s] = fees[s]
      /\ ExtendedAttempts \in Nat /\ UltimateAttempts \in Nat
  BY MintedFields, SameCounts, AttemptAssumption DEF IInv, TypeOK
<1>1. /\ job'[s].name \in {job[s].name, "lost"}
      /\ job[s].name # "confirm" => run'[s].stage = "idle"
  BY <1>0, FailsFields
<1>2. CASE job[s].name = "mint"
  <2> DEFINE spent == run[s].stage = "completed"
  <2>1. Within(Minted(s), ExtendedAttempts, job[s], spent) /\ spent \in BOOLEAN
    BY <1>2 DEF BudgetInv
  <2> HIDE DEF spent
  <2>2. \/ job'[s].name = "lost"
        \/ Within(Minted(s), ExtendedAttempts, job'[s], FALSE)
    BY <1>0, <1>2, <2>1, FailsWithin
  <2>3. run'[s].stage # "completed"
    BY <1>1, <1>2
  <2>4. job'[s].name = "mint" =>
          Within(Minted(s)', ExtendedAttempts, job'[s], run'[s].stage = "completed")
    BY <1>0, <2>2, <2>3 DEF Within
  <2> QED
    BY <1>0, <1>1, <1>2, <2>4 DEF BudgetInv
<1>3. CASE job[s].name = "fee"
  <2> DEFINE spent == run[s].stage \in {"collect", "debit"}
  <2>1. Within(fees[s], UltimateAttempts, job[s], spent) /\ spent \in BOOLEAN
    BY <1>3 DEF BudgetInv
  <2> HIDE DEF spent
  <2>2. \/ job'[s].name = "lost"
        \/ Within(fees[s], UltimateAttempts, job'[s], FALSE)
    BY <1>0, <1>3, <2>1, FailsWithin
  <2>3. run'[s].stage \notin {"collect", "debit"}
    BY <1>1, <1>3
  <2>4. job'[s].name = "fee" =>
          Within(fees'[s], UltimateAttempts, job'[s], run'[s].stage \in {"collect", "debit"})
    BY <1>0, <2>2, <2>3 DEF Within
  <2> QED
    BY <1>0, <1>1, <1>3, <2>4 DEF BudgetInv
<1> QED
  BY <1>0, <1>1, <1>2, <1>3 DEF BudgetInv

\* Requests, the helpers and the clock do no more than that.
LEMMA SharedBudget ==
  ASSUME IInv, NEW s \in Swaps, BudgetInv(s), Shared(s)
  PROVE  BudgetInv(s)'
<1>0. /\ TablesOK /\ RequestInv(s) /\ Minted(s) \in Nat /\ fees[s] \in Nat
      /\ UNCHANGED <<mints, fees>> /\ Minted(s)' = Minted(s)
  BY MintedFields, SharedEffect, SameCounts DEF IInv, TypeOK, SwapInv, world
<1>1. CASE UNCHANGED <<job, run>>
  BY <1>0, <1>1 DEF BudgetInv
<1>2. CASE AddConfirmJob(s, Len(chain)) \/ AddConfirmJobFails(s, Len(chain))
  <2>1. job[s].name = "none"
    BY <1>0, <1>2 DEF AddConfirmJob, AddConfirmJobFails, RequestAt, RequestInv
  <2>2. CASE Enqueue(s, NewJob("confirm", Len(chain), 0, 1))
    <3>1. job'[s].name = "confirm"
      BY <1>0, <2>2 DEF Enqueue, TablesOK, NewJob
    <3> QED
      BY <1>0, <2>1, <3>1 DEF BudgetInv
  <2> QED
    BY <1>1, <1>2, <2>2 DEF AddConfirmJob, AddConfirmJobFails
<1>3. CASE Settle(s)
  <2>1. /\ job' = job /\ run[s].stage \in {"exitRow", "exitWallet"}
        /\ run'[s].stage \in {"exitWallet", "completed"}
    BY <1>0, <1>3 DEF Settle, ExitRow, ExitWallet, Goto, Return, NewRun, TablesOK, Runs
  <2>2. job[s].left \in Nat /\ job[s].stalls \in Nat
    BY <1>0 DEF TablesOK, Jobs
  <2>3. job[s].name = "mint" =>
          Within(Minted(s), ExtendedAttempts, job[s], run'[s].stage = "completed")
    BY <1>0, <2>1, <2>2, AttemptAssumption DEF BudgetInv, Within
  <2>4. job[s].name = "fee" =>
          Within(fees[s], UltimateAttempts, job[s], run'[s].stage \in {"collect", "debit"})
    BY <1>0, <2>1, <2>2, AttemptAssumption DEF BudgetInv, Within
  <2> QED
    BY <1>0, <2>1, <2>3, <2>4 DEF BudgetInv
<1>4. CASE HandlerThrows(s)
  BY <1>0, <1>4, ThrowBudget DEF HandlerThrows, RequestInv
<1> QED
  BY <1>1, <1>2, <1>3, <1>4 DEF Shared, Create, CreateFails, Cancel, Settle,
     PickWallet, MarkWallet, InsertSwap, InsertFails, FailSwap, ReleaseRequested,
     RequestThrows, CancelRead, CancelWrite, Tick

\* The confirmation mints and charges nothing, and ends with a mint job that has done
\* nothing yet (onWaitForEthTransferConfirmationCompleted).
LEMMA ConfirmBudget ==
  ASSUME IInv, NEW s \in Swaps, BudgetInv(s), Confirm(s) \/ Wait(s)
  PROVE  BudgetInv(s)'
<1>0. /\ TablesOK /\ UNCHANGED <<mints, fees>> /\ Minted(s)' = Minted(s)
      /\ job[s].name \in {"confirm", "wait"}
  BY SameCounts
     DEF IInv, TypeOK, Confirm, Wait, ConfirmRead, ConfirmReads, ConfirmScan,
     ConfirmWriteRow, ConfirmCredit, OnConfirmFailed, OnConfirmCompleted, WaitRead,
     WaitConfirmed, OnWaitCompleted, Takes, At, world
<1>1. Minted(s) = 0 /\ fees[s] = 0
  BY <1>0, MintedFields DEF BudgetInv
<1>2. \/ job'[s].name \notin {"mint", "getMint", "fee"}
      \/ job'[s] = NewJob("mint", 0, 0, ExtendedAttempts)
  <2>1. ASSUME NEW why \in {"error", "notFound"}, Fails(s, why)
        PROVE  job'[s].name \notin {"mint", "getMint", "fee"}
    BY <1>0, <2>1, FailsFields
  <2>2. ASSUME NEW new, Enqueue(s, new)
        PROVE  job'[s] = new
    BY <1>0, <2>2 DEF Enqueue, TablesOK
  <2>3. /\ EndedJob.name = "ended"
        /\ NextConfirm(s).name = "confirm"
        /\ NewJob("wait", 2, run[s].tx, NormalAttempts).name = "wait"
        /\ NewJob("wait", job[s].arg + 1, job[s].tx, 1).name = "wait"
    BY DEF EndedJob, NextConfirm, NewJob
  <2>4. CASE Confirm(s)
    BY <1>0, <2>1, <2>2, <2>3, <2>4 DEF Confirm, ConfirmRead, ConfirmReads, Exit, Goto,
       GotoWithBalance, Return, ConfirmScan, ConfirmWriteRow, ConfirmCredit,
       OnConfirmFailed, OnConfirmCompleted
  <2>5. CASE Wait(s)
    BY <1>0, <2>2, <2>3, <2>5 DEF Wait, Exit, Goto, Return, WaitRead, WaitConfirmed,
       OnWaitCompleted
  <2> QED
    BY <2>4, <2>5
<1>3. ASSUME job'[s] = NewJob("mint", 0, 0, ExtendedAttempts)
      PROVE  /\ job'[s].name = "mint"
             /\ Within(Minted(s), ExtendedAttempts, job'[s], run'[s].stage = "completed")
  <2> DEFINE spent == run'[s].stage = "completed"
  <2>1. spent \in BOOLEAN /\ "mint" \in JobNames /\ 0 \in Nat
    BY DEF JobNames
  <2> HIDE DEF spent
  <2>2. Within(0, ExtendedAttempts, NewJob("mint", 0, 0, ExtendedAttempts), spent)
    BY <2>1, NewWithin, AttemptAssumption
  <2>3. NewJob("mint", 0, 0, ExtendedAttempts).name = "mint"
    BY DEF NewJob
  <2> QED
    BY <1>1, <1>3, <2>2, <2>3 DEF spent
<1>4. CASE job'[s].name \notin {"mint", "getMint", "fee"}
  BY <1>0, <1>1, <1>4 DEF BudgetInv
<1> QED
  BY <1>0, <1>1, <1>2, <1>3, <1>4 DEF BudgetInv

\* A message of mintTonJettons costs its job the turn of an attempt.
LEMMA MintSendBudget ==
  ASSUME IInv, NEW s \in Swaps, BudgetInv(s), MintSend(s)
  PROVE  BudgetInv(s)'
<1>0. /\ TablesOK /\ At(s, "mint", "send") /\ UNCHANGED fees
      /\ Minted(s) \in Nat /\ Minted(s)' \in Nat /\ Minted(s)' <= Minted(s) + 1
      /\ ExtendedAttempts \in Nat /\ MaxStalls \in Nat
  BY MintedFields, MintSendCounts, AttemptAssumption DEF IInv, TypeOK, MintSend
<1>1. Within(Minted(s), ExtendedAttempts, job[s], FALSE) /\ fees[s] = 0
  BY <1>0 DEF BudgetInv, Within, At
<1>2. CASE Return(s, "confirmed")
  <2>1. job' = job /\ run'[s].stage = "completed"
    BY <1>0, <1>2, ReturnFields DEF Statuses
  <2>2. job[s].left \in Nat /\ job[s].stalls \in Nat
    BY <1>0 DEF TablesOK, Jobs
  <2>3. Within(Minted(s)', ExtendedAttempts, job[s], TRUE)
    BY <1>0, <1>1, <2>2 DEF Within
  <2>4. Minted(s)' <= ExtendedAttempts + MaxStalls
    BY <1>0, <2>2, <2>3 DEF Within
  <2> QED
    BY <1>0, <1>1, <2>1, <2>3, <2>4 DEF BudgetInv, At, Within
<1>3. CASE Fails(s, "error")
  <2>1. /\ Minted(s)' <= ExtendedAttempts + MaxStalls
        /\ \/ job'[s].name = "lost"
           \/ Within(Minted(s)', ExtendedAttempts, job'[s], FALSE)
    <3>1. job[s].name # "confirm" /\ FALSE \in BOOLEAN
      BY <1>0 DEF At
    <3> QED
      BY <1>0, <1>1, <1>3, <3>1, FailsWithin
  <2>2. job'[s].name \in {"mint", "lost"} /\ run'[s].stage = "idle"
    BY <1>0, <1>3, FailsFields DEF At
  <2> QED
    BY <1>0, <1>1, <2>1, <2>2 DEF BudgetInv, Within
<1> QED
  BY <1>2, <1>3 DEF MintSend

\* Nothing else of TonDestinationSwapsProcessor mints, and its last job leaves a fee
\* job that has charged nothing yet.
LEMMA MintBudget ==
  ASSUME IInv, NEW s \in Swaps, BudgetInv(s), Mint(s)
  PROVE  BudgetInv(s)'
<1>0. TablesOK /\ UNCHANGED fees /\ job[s].name \in {"mint", "getMint"} /\ fees[s] = 0
  BY DEF IInv, TypeOK, BudgetInv, Mint, MintRead, GetMintRead, MinterRead, MintSend,
     OnMintCompleted, GetMintFind, OnGetMintCompleted, Takes, At
<1>1. ASSUME ~MintSend(s)
      PROVE  UNCHANGED mints /\ Minted(s)' = Minted(s)
  BY <1>1, SameCounts DEF Mint, MintRead, GetMintRead, MinterRead, OnMintCompleted,
     GetMintFind, OnGetMintCompleted
<1>2. ASSUME NEW new, Enqueue(s, new)
      PROVE  job'[s] = new /\ run'[s].stage = "idle"
  BY <1>0, <1>2, RestFields DEF Enqueue, TablesOK
<1>3. CASE MintRead(s) \/ GetMintRead(s)
  <2>1. job' = job /\ run[s].stage = "idle" /\ run'[s].stage # "completed"
    <3>1. /\ {"expired", "failed"} \subseteq Statuses
          /\ {"send", "find"} \subseteq Stages
      BY DEF Statuses, Stages
    <3> QED
      BY <1>0, <1>3, <3>1, ExitFields, GotoFields DEF MintRead, GetMintRead,
         MinterRead, Takes
  <2>2. Minted(s)' = Minted(s)
    BY <1>3, SameCounts DEF MintRead, GetMintRead, MinterRead
  <2> QED
    BY <1>0, <2>1, <2>2 DEF BudgetInv, Within
<1>4. CASE OnMintCompleted(s)
  <2>1. job'[s].name \in {"getMint", "ended"}
    <3>1. /\ NewJob("getMint", 0, 0, ExtendedAttempts).name = "getMint"
          /\ EndedJob.name = "ended"
      BY DEF NewJob, EndedJob
    <3> QED
      BY <1>2, <1>4, <3>1 DEF OnMintCompleted
  <2>2. Minted(s)' = Minted(s)
    BY <1>4, SameCounts DEF OnMintCompleted
  <2> QED
    BY <1>0, <2>1, <2>2 DEF BudgetInv
<1>5. CASE GetMintFind(s)
  <2>1. job[s].name = "getMint" /\ job'[s].name \in {"getMint", "lost"}
    <3>1. CASE Return(s, "completed")
      BY <1>5, <3>1 DEF Return, GetMintFind, At
    <3>2. CASE Fails(s, "error")
      BY <1>0, <1>5, <3>2, FailsFields DEF GetMintFind, At
    <3> QED
      BY <1>5, <3>1, <3>2 DEF GetMintFind, At
  <2>2. Minted(s)' = Minted(s)
    BY <1>5, SameCounts DEF GetMintFind
  <2> QED
    BY <1>0, <2>1, <2>2 DEF BudgetInv
<1>6. CASE OnGetMintCompleted(s)
  <2>1. job'[s] \in {NewJob("fee", 0, 0, UltimateAttempts), EndedJob}
    BY <1>2, <1>6 DEF OnGetMintCompleted
  <2>2. Minted(s)' = Minted(s)
    BY <1>6, SameCounts DEF OnGetMintCompleted
  <2>3. CASE job'[s] = EndedJob
    BY <1>0, <2>2, <2>3, RestFields DEF BudgetInv
  <2>4. CASE job'[s] = NewJob("fee", 0, 0, UltimateAttempts)
    <3> DEFINE spent == run'[s].stage \in {"collect", "debit"}
    <3>1. spent \in BOOLEAN /\ "fee" \in JobNames
      BY DEF JobNames
    <3> HIDE DEF spent
    <3>2. Within(0, UltimateAttempts, NewJob("fee", 0, 0, UltimateAttempts), spent)
      BY <3>1, NewWithin, AttemptAssumption
    <3>3. NewJob("fee", 0, 0, UltimateAttempts).name = "fee"
      BY DEF NewJob
    <3> QED
      BY <1>0, <2>2, <2>4, <3>2, <3>3 DEF BudgetInv, spent
  <2> QED
    BY <2>1, <2>3, <2>4
<1> QED
  BY <1>3, <1>4, <1>5, <1>6, MintSendBudget DEF Mint

\* A transfer of the fee costs its job the turn of an attempt (transferEthFee).
LEMMA FeeBudget ==
  ASSUME IInv, NEW s \in Swaps, BudgetInv(s), Fee(s)
  PROVE  BudgetInv(s)'
<1>0. /\ TablesOK /\ fees \in [Swaps -> Nat] /\ fees[s] \in Nat
      /\ UNCHANGED mints /\ Minted(s)' = Minted(s) /\ job[s].name = "fee"
      /\ UltimateAttempts \in Nat /\ MaxStalls \in Nat
      /\ job[s].left \in Nat /\ job[s].stalls \in Nat
  BY SameCounts, AttemptAssumption DEF IInv, TypeOK, TablesOK, Jobs, Fee, FeeRead,
     FeeSend, FeeWriteRow, FeeDebit, Takes, At
<1>1. CASE FeeRead(s)
  <2>1. CASE Enqueue(s, EndedJob)
    <3>1. job'[s].name = "ended"
      BY <1>0, <2>1, RestFields, EnqueueFields
    <3> QED
      BY <1>0, <1>1, <3>1 DEF BudgetInv, FeeRead
  <2>2. CASE GotoWithBalance(s, "send")
    <3>1. job' = job /\ run'[s].stage = "send"
      BY <1>0, <2>2 DEF GotoWithBalance, TablesOK, NewRun
    <3> QED
      BY <1>0, <1>1, <3>1 DEF BudgetInv, FeeRead, Takes, Within
  <2> QED
    BY <1>1, <2>1, <2>2 DEF FeeRead
<1>2. CASE FeeSend(s)
  <2>1. /\ fees'[s] \in Nat /\ fees'[s] <= fees[s] + 1
        /\ Within(fees[s], UltimateAttempts, job[s], FALSE)
    BY <1>0, <1>2 DEF FeeSend, BudgetInv, Within, At
  <2>2. CASE Goto(s, "collect")
    <3>1. job' = job /\ run'[s].stage = "collect"
      BY <1>0, <2>2, GotoFields DEF Stages
    <3>2. Within(fees'[s], UltimateAttempts, job'[s], TRUE)
      BY <1>0, <2>1, <3>1 DEF Within
    <3>3. fees'[s] <= UltimateAttempts + MaxStalls
      BY <1>0, <2>1, <3>1, <3>2 DEF Within
    <3> QED
      BY <1>0, <3>1, <3>2, <3>3 DEF BudgetInv, Within
  <2>3. CASE Fails(s, "error")
    <3>1. /\ fees'[s] <= UltimateAttempts + MaxStalls
          /\ \/ job'[s].name = "lost"
             \/ Within(fees'[s], UltimateAttempts, job'[s], FALSE)
      <4>1. job[s].name # "confirm" /\ FALSE \in BOOLEAN
        BY <1>0
      <4> QED
        BY <1>0, <2>1, <2>3, <4>1, FailsWithin
    <3>2. job'[s].name \in {"fee", "lost"} /\ run'[s].stage = "idle"
      BY <1>0, <2>3, FailsFields
    <3> QED
      BY <1>0, <3>1, <3>2 DEF BudgetInv, Within
  <2> QED
    BY <1>2, <2>2, <2>3 DEF FeeSend
<1>3. CASE FeeWriteRow(s)
  <2>1. job' = job /\ run'[s].stage = "debit" /\ run[s].stage = "collect"
    BY <1>0, <1>3, GotoFields DEF FeeWriteRow, Stages, At
  <2> QED
    BY <1>0, <1>3, <2>1 DEF FeeWriteRow, BudgetInv, Within
<1>4. CASE FeeDebit(s)
  <2>1. UNCHANGED fees
    BY <1>4 DEF FeeDebit
  <2>2. CASE Enqueue(s, EndedJob)
    <3>1. job'[s].name = "ended"
      BY <1>0, <2>2, RestFields, EnqueueFields
    <3> QED
      BY <1>0, <2>1, <3>1 DEF BudgetInv
  <2>3. CASE Fails(s, "error")
    BY <1>0, <2>1, <2>3, ThrowBudget
  <2> QED
    BY <1>4, <2>2, <2>3 DEF FeeDebit, DebitRefused
<1> QED
  BY <1>1, <1>2, <1>3, <1>4 DEF Fee

\* A crash gives a job back with one more stall, or for lost (Bull's stalled jobs).
LEMMA CrashBudget ==
  ASSUME IInv, NEW s \in Swaps, BudgetInv(s), Crash, UNCHANGED <<mints, fees>>
  PROVE  BudgetInv(s)'
<1>0. /\ TablesOK /\ Minted(s) \in Nat /\ Minted(s)' = Minted(s)
      /\ fees[s] \in Nat /\ fees'[s] = fees[s]
      /\ ExtendedAttempts \in Nat /\ UltimateAttempts \in Nat
  BY MintedFields, SameCounts, AttemptAssumption DEF IInv, TypeOK
<1>1. /\ run'[s].stage = "idle"
      /\ \/ job'[s].name = job[s].name
         \/ job'[s].name \in {"ended", "lost"}
  BY <1>0, CrashEffect DEF CrashedJob
<1>2. ASSUME job[s].name = "mint", job'[s].name = "mint"
      PROVE  Within(Minted(s)', ExtendedAttempts, job'[s], run'[s].stage = "completed")
  <2> DEFINE spent == run[s].stage = "completed"
  <2>1. /\ Within(Minted(s), ExtendedAttempts, job[s], spent)
        /\ spent \in BOOLEAN /\ (spent => run[s].stage # "idle")
    BY <1>2 DEF BudgetInv
  <2> HIDE DEF spent
  <2>2. Within(Minted(s), ExtendedAttempts, job'[s], FALSE)
    BY <1>0, <1>2, <2>1, CrashWithin
  <2> QED
    BY <1>0, <1>1, <2>2 DEF Within
<1>3. ASSUME job[s].name = "fee", job'[s].name = "fee"
      PROVE  Within(fees'[s], UltimateAttempts, job'[s],
                    run'[s].stage \in {"collect", "debit"})
  <2> DEFINE spent == run[s].stage \in {"collect", "debit"}
  <2>1. /\ Within(fees[s], UltimateAttempts, job[s], spent)
        /\ spent \in BOOLEAN /\ (spent => run[s].stage # "idle")
    BY <1>3 DEF BudgetInv
  <2> HIDE DEF spent
  <2>2. Within(fees[s], UltimateAttempts, job'[s], FALSE)
    BY <1>0, <1>3, <2>1, CrashWithin
  <2> QED
    BY <1>0, <1>1, <2>2 DEF Within
<1> QED
  BY <1>0, <1>1, <1>2, <1>3 DEF BudgetInv

\* Every step stays within the budgets.
LEMMA BudgetedNext == IInv /\ Budgeted /\ [Next]_vars => Budgeted'
<1> SUFFICES ASSUME IInv, Budgeted, [Next]_vars
             PROVE  Budgeted'
  OBVIOUS
<1>1. ASSUME NEW s \in Swaps, Shared(s)
      PROVE  Budgeted'
  <2>1. OnlyOf(s) /\ UNCHANGED <<mints, fees>>
    BY <1>1, SharedEffect DEF Effect, world
  <2>2. BudgetInv(s)'
    BY <1>1, SharedBudget DEF Budgeted
  <2> QED
    BY <2>1, <2>2, SameCounts, BudgetStep DEF OnlyOf
<1>2. ASSUME NEW s \in Swaps, Confirm(s) \/ Wait(s) \/ Mint(s) \/ Fee(s)
      PROVE  Budgeted'
  <2>1. OthersKept(s)
    BY <1>2, HandlersKeepOthers
  <2>2. BudgetInv(s)'
    BY <1>2, ConfirmBudget, MintBudget, FeeBudget DEF Budgeted
  <2>3. \A t \in Swaps \ {s} : Minted(t)' = Minted(t)
    <3>1. CASE UNCHANGED mints
      BY <3>1, SameCounts
    <3> QED
      BY <1>2, <3>1, MintSendCounts DEF Confirm, Wait, Mint, Fee, ConfirmRead,
         ConfirmScan, ConfirmWriteRow, OnConfirmFailed, OnConfirmCompleted, WaitRead,
         WaitConfirmed, OnWaitCompleted, MintRead, GetMintRead, MinterRead,
         OnMintCompleted, GetMintFind, OnGetMintCompleted, FeeRead, FeeSend,
         FeeWriteRow, FeeDebit, world
  <2> QED
    BY <2>1, <2>2, <2>3, BudgetStep DEF OthersKept
<1>3. CASE MineBlock \/ Arrival \/ UNCHANGED vars
  <2>1. UNCHANGED <<mints, fees, job, run>>
    BY <1>3, ArrivalKeeps DEF MineBlock, vars
  <2> QED
    BY <2>1, SameCounts DEF Budgeted, BudgetInv
<1>4. CASE Crash /\ UNCHANGED world
  BY <1>4, CrashBudget DEF Budgeted, world
<1> QED
  BY <1>1, <1>2, <1>3, <1>4 DEF Next, Shared, Arrival

\* Before any request nothing was minted or charged.
LEMMA BudgetedInit == Init => Budgeted
<1> SUFFICES ASSUME Init, NEW s \in Swaps
             PROVE  BudgetInv(s)
  BY DEF Budgeted
<1>1. job[s].name = "none" /\ fees[s] = 0
  BY DEF Init, InitTables, NoJob, NewJob
<1>2. Minted(s) = 0
  BY <1>1, InitInv, MintedFields
<1> QED
  BY <1>1, <1>2, AttemptAssumption DEF BudgetInv

\* However often jobs are retried and redelivered, a swap is minted for no more often
\* than its mint job has attempts and stalls, and charged no more often than its fee
\* job has (mintTonJettons, transferEthFee, neither of which looks for what it did).
THEOREM RepeatsStayBounded == Spec => []RepeatsAreBounded
<1>1. Budgeted => RepeatsAreBounded
  BY DEF Budgeted, BudgetInv, Minted, MintsOf, RepeatsAreBounded
<1> QED
  BY <1>1, InitInv, NextInv, BudgetedInit, BudgetedNext, PTL DEF Spec

-----------------------------------------------------------------------------
(* A status of completed or expired is final but for latecomers.             *)

\* The deadline that the handlers of the job of s compare has passed.
PastDeadline(s) ==
  /\ job[s].name \in {"confirm", "wait"} => Expired(s)
  /\ job[s].name \in {"mint", "getMint"} => ExtendedExpired(s)

Exiting(s) == run[s].stage \in {"exitRow", "exitWallet"}

\* A swap reads completed only from its getMint job on, which is at work on it again
\* only when it was delivered again.  It reads expired only when the deadline of its
\* job has passed, so that the job can do nothing but expire it again.
FinalInv(s) ==
  /\ Exiting(s) =>
       /\ job[s].name \in {"confirm", "wait", "mint", "getMint"}
       /\ run[s].result = "expired" => PastDeadline(s)
  /\ swap[s].status = "completed" =>
       /\ job[s].name \in {"getMint", "fee", "ended", "lost"}
       /\ job[s].name = "getMint" => job[s].stalls > 0 \/ run[s].stage = "completed"
  /\ swap[s].status = "expired" =>
       /\ job[s].name \in {"confirm", "wait", "mint", "getMint", "ended", "lost"}
       /\ PastDeadline(s)
       /\ run[s].stage \in {"idle", "exitRow", "exitWallet", "completed", "failed"}
       /\ run[s].stage \in {"exitRow", "exitWallet", "completed"} =>
            run[s].result = "expired"

Finals == \A s \in Swaps : FinalInv(s)

\* No clock goes back.
AgesGrow == \A t \in Swaps : age'[t] \in Nat /\ age'[t] >= age[t]

LEMMA AgesKept ==
  ASSUME TablesOK, UNCHANGED age
  PROVE  AgesGrow
  BY AttemptAssumption DEF TablesOK, AgesGrow

LEMMA DeadlinesStay ==
  ASSUME TablesOK, NEW s \in Swaps, AgesGrow
  PROVE  /\ Expired(s) => Expired(s)'
         /\ ExtendedExpired(s) => ExtendedExpired(s)'
<1>1. age[s] \in Nat /\ age'[s] \in Nat /\ age'[s] >= age[s]
  BY AttemptAssumption DEF TablesOK, AgesGrow
<1> QED
  BY <1>1 DEF Expired, ExtendedExpired

\* A step that leaves the row, the job and the handler of t.
LEMMA FinalKept ==
  ASSUME TablesOK, NEW t \in Swaps, FinalInv(t), AgesGrow,
         swap'[t] = swap[t], job'[t] = job[t], run'[t] = run[t]
  PROVE  FinalInv(t)'
  BY DeadlinesStay DEF FinalInv, PastDeadline, Exiting

\* An action on s alone leaves those of the other swaps.
LEMMA FinalStep ==
  ASSUME TablesOK, Finals, NEW s \in Swaps, FinalInv(s)', AgesGrow,
         \A t \in Swaps \ {s} :
           swap'[t] = swap[t] /\ job'[t] = job[t] /\ run'[t] = run[t]
  PROVE  Finals'
<1>1. ASSUME NEW t \in Swaps \ {s}
      PROVE  FinalInv(t)'
  BY FinalKept DEF Finals
<1> QED
  BY <1>1 DEF Finals

\* Requests, the helpers, the clock and a throw: only a helper writes expired, once
\* the deadline has passed (swapExpired).
LEMMA SharedFinal ==
  ASSUME IInv, NEW s \in Swaps, FinalInv(s), Shared(s)
  PROVE  FinalInv(s)' /\ AgesGrow
<1>0. TablesOK /\ RequestInv(s) /\ ExitInv(s)
  BY DEF IInv, TypeOK, SwapInv
<1>1. CASE Tick(s)
  <2>1. AgesGrow
    BY <1>0, <1>1, AttemptAssumption DEF Tick, AgesGrow, TablesOK
  <2> QED
    BY <1>0, <1>1, <2>1, FinalKept DEF Tick
<1> DEFINE Quiet == \/ PickWallet(s) \/ MarkWallet(s) \/ InsertFails(s)
                    \/ ReleaseRequested(s) \/ RequestThrows(s) \/ CancelRead(s)
<1>2. CASE Quiet
  <2>1. UNCHANGED <<swap, job, run, age>>
    BY <1>2 DEF PickWallet, MarkWallet, InsertFails, ReleaseRequested, RequestThrows,
       CancelRead
  <2> QED
    BY <1>0, <2>1, AgesKept, FinalKept
<1>3. CASE InsertSwap(s, Len(ton)) \/ FailSwap(s) \/ CancelWrite(s)
  <2>1. UNCHANGED <<job, run, age>>
    BY <1>3 DEF InsertSwap, FailSwap, CancelWrite
  <2>2. swap'[s].status \in {"pending", "failed", "canceled"}
    <3>1. swap \in [Swaps -> Rows]
      BY <1>0 DEF TablesOK
    <3>2. CASE InsertSwap(s, Len(ton))
      BY <3>1, <3>2 DEF InsertSwap, NoSwap
    <3>3. CASE FailSwap(s) \/ CancelWrite(s)
      BY <3>1, <3>3 DEF FailSwap, CancelWrite, Rows
    <3> QED
      BY <1>3, <3>2, <3>3
  <2> QED
    BY <1>0, <2>1, <2>2, AgesKept, DeadlinesStay DEF FinalInv, PastDeadline, Exiting
<1>4. CASE AddConfirmJob(s, Len(chain)) \/ AddConfirmJobFails(s, Len(chain))
  <2>1. /\ job[s].name = "none" /\ run[s].stage = "idle" /\ UNCHANGED <<swap, age>>
    BY <1>0, <1>4 DEF AddConfirmJob, AddConfirmJobFails, RequestAt, RequestInv
  <2>2. CASE UNCHANGED <<job, run>>
    BY <1>0, <2>1, <2>2, AgesKept, FinalKept
  <2>3. CASE Enqueue(s, NewJob("confirm", Len(chain), 0, 1))
    <3>1. run'[s].stage = "idle"
      BY <1>0, <2>3, RestFields DEF Enqueue, TablesOK
    <3> QED
      BY <1>0, <2>1, <3>1, AgesKept DEF FinalInv, Exiting
  <2> QED
    BY <1>4, <2>2, <2>3 DEF AddConfirmJob, AddConfirmJobFails
<1>5. CASE ExitRow(s)
  <2>1. /\ job' = job /\ run'[s].stage = "exitWallet" /\ run'[s].result = run[s].result
        /\ UNCHANGED age
    BY <1>0, <1>5, GotoFields DEF ExitRow, Stages
  <2>2. swap'[s].status = run[s].result /\ run[s].result # "completed"
    BY <1>0, <1>5 DEF ExitRow, ExitInv, TablesOK, Rows
  <2> QED
    BY <1>0, <1>5, <2>1, <2>2, AgesKept, DeadlinesStay
       DEF ExitRow, FinalInv, PastDeadline, Exiting
<1>6. CASE ExitWallet(s)
  <2>1. /\ job' = job /\ run'[s].stage = "completed" /\ run'[s].result = run[s].result
        /\ UNCHANGED <<swap, age>>
    BY <1>0, <1>6 DEF ExitWallet, Return, NewRun, TablesOK
  <2> QED
    BY <1>0, <1>6, <2>1, AgesKept, DeadlinesStay
       DEF ExitWallet, FinalInv, PastDeadline, Exiting
<1>7. CASE HandlerThrows(s)
  <2>1. /\ \/ /\ job'[s].name = job[s].name /\ job'[s].stalls = job[s].stalls
              /\ run'[s].stage \in {"idle", "failed"}
           \/ job'[s].name = "lost" /\ run'[s].stage = "idle"
        /\ run[s].stage # "completed" /\ UNCHANGED <<swap, age>>
    BY <1>0, <1>7, FailsFields DEF HandlerThrows, Listening
  <2> QED
    BY <1>0, <2>1, AgesKept, DeadlinesStay DEF FinalInv, PastDeadline, Exiting
<1> QED
  BY <1>1, <1>2, <1>3, <1>4, <1>5, <1>6, <1>7
     DEF Shared, Create, CreateFails, Cancel, Settle

\* Of a swap that reads neither, only what its handler settles with matters.
LEMMA LiveFinal ==
  ASSUME NEW s \in Swaps, swap'[s].status \notin {"completed", "expired"},
         Exiting(s)' => /\ job'[s].name \in {"confirm", "wait", "mint", "getMint"}
                        /\ run'[s].result # "expired"
  PROVE  FinalInv(s)'
  BY DEF FinalInv

\* The confirm job goes on with no swap that has expired, and its listeners add no job
\* to one but the confirm job itself (confirmEthTransfer and its listeners).
LEMMA ConfirmFinal ==
  ASSUME IInv, NEW s \in Swaps, FinalInv(s), Confirm(s)
  PROVE  FinalInv(s)' /\ swap'[s].status \in {swap[s].status, "confirmed"}
         /\ (swap[s].status = "expired" => swap'[s].status = "expired")
<1>0. /\ TablesOK /\ RequestInv(s) /\ job[s].name = "confirm" /\ UNCHANGED age
      /\ swap[s].status # "completed"
  BY DEF IInv, TypeOK, SwapInv, FinalInv, Confirm, ConfirmRead, ConfirmReads,
     ConfirmScan, ConfirmWriteRow, ConfirmCredit, OnConfirmFailed,
     OnConfirmCompleted, Takes, At, world
<1>a. swap[s].status = "expired" => Expired(s)
  BY <1>0 DEF FinalInv, PastDeadline
<1>b. Expired(s)' <=> Expired(s)
  BY <1>0 DEF Expired
<1>1. CASE ConfirmRead(s)
  <2>1. job' = job /\ swap' = swap
    BY <1>0, <1>1, ConfirmReadsFields DEF ConfirmRead, ConfirmReads, Stages
  <2>2. CASE swap[s].status = "canceled" /\ Exit(s, "canceled")
    <3>1. run'[s].result = "canceled"
      BY <1>0, <2>2, ExitFields DEF Statuses
    <3> QED
      BY <1>0, <2>1, <2>2, <3>1, LiveFinal
  <2>3. CASE Expired(s) /\ Exit(s, "expired")
    <3>1. run'[s].stage = "exitRow" /\ run'[s].result = "expired"
      BY <1>0, <2>3, ExitFields DEF Statuses
    <3> QED
      BY <1>0, <1>b, <2>1, <2>3, <3>1 DEF FinalInv, PastDeadline, Exiting
  <2>4. CASE ~Expired(s) /\ GotoWithBalance(s, "scan")
    <3>1. run'[s].stage = "scan"
      BY <1>0, <2>4 DEF GotoWithBalance, TablesOK, NewRun
    <3> QED
      BY <1>0, <1>a, <2>1, <2>4, <3>1, LiveFinal DEF Exiting
  <2> QED
    BY <1>1, <2>1, <2>2, <2>3, <2>4 DEF ConfirmRead, ConfirmReads
<1>2. CASE ConfirmScan(s)
  <2>1. swap[s].status # "expired" /\ swap' = swap
    BY <1>2 DEF ConfirmScan, At, FinalInv
  <2>2. ASSUME NEW why \in {"error", "notFound"}, Fails(s, why)
        PROVE  ~Exiting(s)'
    BY <1>0, <2>2, FailsFields DEF Exiting
  <2>3. ASSUME NEW n, run' = [run EXCEPT ![s].stage = "row", ![s].tx = n]
        PROVE  ~Exiting(s)'
    BY <1>0, <2>3 DEF TablesOK, Runs, Exiting
  <2>4. ASSUME Exit(s, "failed")
        PROVE  job' = job /\ run'[s].result = "failed"
    BY <1>0, <2>4, ExitFields DEF Statuses
  <2> QED
    BY <1>0, <1>2, <2>1, <2>2, <2>3, <2>4, LiveFinal DEF ConfirmScan
<1>3. CASE ConfirmWriteRow(s)
  <2> DEFINE tx == run[s].tx
             amount == chain[tx].amount
  <2>1. swap'[s] = ConfirmedRow(s, amount, tx)
    BY <1>0, <1>3 DEF ConfirmWriteRow, TablesOK
  <2>2. swap[s].status # "expired" /\ run'[s].stage = "credit"
    BY <1>0, <1>3, GotoFields DEF ConfirmWriteRow, Stages, At, FinalInv
  <2> HIDE DEF tx, amount
  <2>3. swap'[s].status = "confirmed"
    BY <1>0, <2>1, ConfirmedRowStatus
  <2> QED
    BY <2>2, <2>3, LiveFinal DEF Exiting
<1>4. CASE ConfirmCredit(s)
  <2>1. swap[s].status # "expired" /\ swap' = swap
    BY <1>4 DEF ConfirmCredit, At, FinalInv
  <2>2. run'[s].stage = "completed"
    BY <1>0, <1>4, ConfirmCreditFields
  <2> QED
    BY <1>0, <2>1, <2>2, LiveFinal DEF Exiting
<1>5. CASE OnConfirmFailed(s)
  <2>1. job'[s].name = "confirm" /\ run'[s].stage = "idle" /\ swap' = swap
    BY <1>0, <1>5, RestFields DEF OnConfirmFailed, Enqueue, TablesOK, NextConfirm, NewJob
  <2> QED
    BY <1>0, <1>a, <1>b, <2>1 DEF FinalInv, PastDeadline, Exiting
<1>6. CASE OnConfirmCompleted(s)
  <2>1. run'[s].stage = "idle" /\ swap' = swap
    BY <1>0, <1>6, RestFields DEF OnConfirmCompleted, Enqueue, TablesOK
  <2>2. swap[s].status = "expired" => job'[s].name = "ended"
    <3>1. swap[s].status = "expired" => ~Processable(run[s].result)
      BY <1>6 DEF OnConfirmCompleted, At, FinalInv, Processable
    <3> QED
      BY <1>0, <1>6, <3>1, RestFields DEF OnConfirmCompleted, Enqueue, TablesOK
  <2> QED
    BY <1>0, <2>1, <2>2 DEF FinalInv, PastDeadline, Exiting
<1> QED
  BY <1>1, <1>2, <1>3, <1>4, <1>5, <1>6 DEF Confirm

\* Neither does the wait job (waitForEthTransferConfirmation).
LEMMA WaitFinal ==
  ASSUME IInv, NEW s \in Swaps, FinalInv(s), Wait(s)
  PROVE  FinalInv(s)' /\ swap'[s].status \in {swap[s].status, "confirmed"}
         /\ (swap[s].status = "expired" => swap'[s].status = "expired")
<1>0. /\ TablesOK /\ job[s].name = "wait" /\ UNCHANGED age
      /\ swap[s].status # "completed"
  BY DEF IInv, TypeOK, FinalInv, Wait, WaitRead, WaitConfirmed, OnWaitCompleted,
     Takes, At
<1>b. Expired(s)' <=> Expired(s)
  BY <1>0 DEF Expired
<1>1. CASE WaitRead(s)
  <2>1. swap' = swap
    BY <1>1 DEF WaitRead
  <2>2. CASE Expired(s) /\ Exit(s, "expired")
    <3>1. job' = job /\ run'[s].stage = "exitRow" /\ run'[s].result = "expired"
      BY <1>0, <2>2, ExitFields DEF Statuses
    <3> QED
      BY <1>0, <1>b, <2>1, <2>2, <3>1 DEF FinalInv, PastDeadline, Exiting
  <2>3. CASE ~Expired(s) /\ Goto(s, "await")
    <3>1. run'[s].stage = "await"
      BY <1>0, <2>3, GotoFields DEF Stages
    <3>2. swap[s].status # "expired"
      BY <1>0, <2>3 DEF FinalInv, PastDeadline
    <3> QED
      BY <1>0, <2>1, <3>1, <3>2, LiveFinal DEF Exiting
  <2> QED
    BY <1>1, <2>1, <2>2, <2>3 DEF WaitRead
<1>2. CASE WaitConfirmed(s)
  <2>1. job[s].arg \in Nat /\ "confirmed" \in Statuses
    BY <1>0 DEF TablesOK, Jobs, Statuses
  <2>2. /\ swap'[s].status = "confirmed" /\ run'[s].stage = "completed"
        /\ swap[s].status # "expired"
    BY <1>0, <1>2, <2>1, ConfirmationsFields, ReturnFields
       DEF WaitConfirmed, At, FinalInv
  <2> QED
    BY <2>2, LiveFinal DEF Exiting
<1>3. CASE OnWaitCompleted(s)
  <2>1. run'[s].stage = "idle" /\ swap' = swap
    BY <1>0, <1>3, RestFields DEF OnWaitCompleted, Enqueue, TablesOK
  <2>2. swap[s].status = "expired" => job'[s].name = "ended"
    <3>1. swap[s].status = "expired" => ~Processable(run[s].result)
      BY <1>3 DEF OnWaitCompleted, At, FinalInv, Processable
    <3> QED
      BY <1>0, <1>3, <3>1, RestFields DEF OnWaitCompleted, Enqueue, TablesOK
  <2> QED
    BY <1>0, <2>1, <2>2 DEF FinalInv, PastDeadline, Exiting
<1> QED
  BY <1>1, <1>2, <1>3 DEF Wait

\* The jobs that mint and look for the mint go on with no swap that has expired; one
\* that reads completed is looked at only when the job was delivered again
\* (mintTonJettons, getTonMintTransaction and their listeners).
LEMMA MintFinal ==
  ASSUME IInv, NEW s \in Swaps, FinalInv(s), Mint(s)
  PROVE  FinalInv(s)' /\ swap'[s].status \in {swap[s].status, "completed"}
         /\ (swap[s].status = "expired" => swap'[s].status = "expired")
<1>0. /\ TablesOK /\ job[s].name \in {"mint", "getMint"} /\ UNCHANGED age
      /\ swap[s].status = "completed" =>
           job[s].name = "getMint" /\ (job[s].stalls > 0 \/ run[s].stage = "completed")
      /\ swap[s].status = "expired" => ExtendedExpired(s)
  BY DEF IInv, TypeOK, FinalInv, PastDeadline, Mint, MintRead, GetMintRead, MinterRead,
     MintSend, OnMintCompleted, GetMintFind, OnGetMintCompleted, Takes, At
<1>b. ExtendedExpired(s)' <=> ExtendedExpired(s)
  BY <1>0 DEF ExtendedExpired
<1>1. ASSUME NEW stage \in {"send", "find"}, MinterRead(s, job[s].name, stage)
      PROVE  FinalInv(s)' /\ swap' = swap
  <2>1. swap' = swap /\ run[s].stage = "idle"
    BY <1>1 DEF MinterRead, Takes
  <2>2. CASE ExtendedExpired(s) /\ Exit(s, "expired")
    <3>1. job' = job /\ run'[s].stage = "exitRow" /\ run'[s].result = "expired"
      BY <1>0, <2>2, ExitFields DEF Statuses
    <3> QED
      BY <1>0, <1>b, <2>1, <2>2, <3>1 DEF FinalInv, PastDeadline, Exiting
  <2>3. CASE ~ExtendedExpired(s) /\ Exit(s, "failed")
    <3>1. job' = job /\ run'[s].stage = "exitRow" /\ run'[s].result = "failed"
      BY <1>0, <2>3, ExitFields DEF Statuses
    <3> QED
      BY <1>0, <2>1, <2>3, <3>1 DEF FinalInv, PastDeadline, Exiting
  <2>4. CASE ~ExtendedExpired(s) /\ Goto(s, stage)
    <3>1. job' = job /\ run'[s].stage = stage
      BY <1>0, <1>1, <2>4, GotoFields DEF Stages
    <3> QED
      BY <1>0, <1>1, <2>1, <2>4, <3>1 DEF FinalInv, PastDeadline, Exiting
  <2> QED
    BY <1>1, <2>1, <2>2, <2>3, <2>4 DEF MinterRead
<1>2. CASE MintRead(s) \/ GetMintRead(s)
  BY <1>1, <1>2 DEF MintRead, GetMintRead, MinterRead, Takes
<1>3. ASSUME Fails(s, "error"), run[s].stage \in {"send", "find"}, UNCHANGED swap
      PROVE  FinalInv(s)'
  <2>1. /\ run'[s].stage = "idle" /\ swap[s].status # "expired"
        /\ \/ job'[s].name = job[s].name /\ job'[s].stalls = job[s].stalls
           \/ job'[s].name = "lost"
    BY <1>0, <1>3, FailsFields DEF FinalInv
  <2> QED
    BY <1>0, <1>3, <2>1 DEF FinalInv, Exiting
<1>4. CASE MintSend(s)
  <2>1. /\ swap' = swap /\ run[s].stage = "send" /\ job[s].name = "mint"
        /\ swap[s].status \notin {"completed", "expired"}
    BY <1>4 DEF MintSend, At, FinalInv
  <2>2. CASE Return(s, "confirmed")
    <3>1. run'[s].stage = "completed"
      BY <1>0, <2>2, ReturnFields DEF Statuses
    <3> QED
      BY <2>1, <3>1, LiveFinal DEF Exiting
  <2> QED
    BY <1>3, <1>4, <2>1, <2>2 DEF MintSend
<1>5. CASE GetMintFind(s)
  <2>1. run[s].stage = "find" /\ job[s].name = "getMint" /\ swap[s].status # "expired"
    BY <1>5 DEF GetMintFind, At, FinalInv
  <2>2. CASE swap' = [swap EXCEPT ![s].status = "completed"] /\ Return(s, "completed")
    <3>1. job' = job /\ run'[s].stage = "completed" /\ swap'[s].status = "completed"
      BY <1>0, <2>2, ReturnFields, StatusFields DEF Statuses
    <3> QED
      BY <2>1, <3>1 DEF FinalInv, Exiting
  <2>3. CASE UNCHANGED swap /\ Fails(s, "error")
    BY <1>3, <2>1, <2>3
  <2> QED
    BY <1>5, <2>1, <2>2, <2>3 DEF GetMintFind
<1>6. CASE OnMintCompleted(s) \/ OnGetMintCompleted(s)
  <2>1. run'[s].stage = "idle" /\ swap' = swap /\ run[s].stage = "completed"
    BY <1>0, <1>6, RestFields
       DEF OnMintCompleted, OnGetMintCompleted, Enqueue, TablesOK, At
  <2>2. swap[s].status = "expired" => ~Processable(run[s].result)
    BY <2>1 DEF FinalInv, Processable
  <2>3. /\ swap[s].status = "expired" => job'[s].name = "ended"
        /\ swap[s].status = "completed" => job'[s].name \in {"fee", "ended"}
    <3>1. NewJob("fee", 0, 0, UltimateAttempts).name = "fee"
      BY DEF NewJob
    <3> QED
      BY <1>0, <1>6, <2>2, <3>1, RestFields
         DEF OnMintCompleted, OnGetMintCompleted, Enqueue, TablesOK, At
  <2> QED
    BY <1>0, <2>1, <2>3 DEF FinalInv, PastDeadline, Exiting
<1> QED
  BY <1>2, <1>4, <1>5, <1>6 DEF Mint

\* The fee job writes no status (transferEthFee).
LEMMA FeeFinal ==
  ASSUME IInv, NEW s \in Swaps, FinalInv(s), Fee(s)
  PROVE  FinalInv(s)' /\ swap'[s].status = swap[s].status
<1>0. /\ TablesOK /\ job[s].name = "fee" /\ UNCHANGED age
      /\ swap[s].status # "expired"
  BY DEF IInv, TypeOK, FinalInv, Fee, FeeRead, FeeSend, FeeWriteRow, FeeDebit, Takes, At
<1>1. swap'[s].status = swap[s].status
  <2>1. CASE FeeWriteRow(s)
    BY <1>0, <2>1, CollectedFields DEF FeeWriteRow
  <2> QED
    BY <2>1 DEF Fee, FeeRead, FeeSend, FeeDebit
<1>2. job'[s].name \in {"fee", "ended", "lost"} /\ ~Exiting(s)'
  <2>1. ASSUME Fails(s, "error")
        PROVE  job'[s].name \in {"fee", "lost"} /\ run'[s].stage = "idle"
    BY <1>0, <2>1, FailsFields
  <2>2. ASSUME Enqueue(s, EndedJob)
        PROVE  job'[s].name = "ended" /\ run'[s].stage = "idle"
    BY <1>0, <2>2, RestFields DEF Enqueue, TablesOK
  <2>3. ASSUME NEW stage \in {"collect", "debit"}, Goto(s, stage)
        PROVE  job' = job /\ run'[s].stage = stage
    BY <1>0, <2>3, GotoFields DEF Stages
  <2>4. ASSUME GotoWithBalance(s, "send")
        PROVE  job' = job /\ run'[s].stage = "send"
    BY <1>0, <2>4 DEF GotoWithBalance, TablesOK, NewRun
  <2> QED
    BY <1>0, <2>1, <2>2, <2>3, <2>4
       DEF Fee, FeeRead, FeeSend, FeeWriteRow, FeeDebit, DebitRefused, Exiting
<1> QED
  BY <1>0, <1>1, <1>2 DEF FinalInv

\* After a crash a job that is delivered again has stalled.
LEMMA CrashFinal ==
  ASSUME IInv, NEW s \in Swaps, FinalInv(s), Crash
  PROVE  FinalInv(s)'
<1>0. TablesOK /\ UNCHANGED <<swap, age>> /\ CrashedJob(s) /\ run'[s].stage = "idle"
  BY CrashEffect DEF IInv, TypeOK, Crash
<1>1. job'[s].name \in {job[s].name, "ended", "lost"}
  BY <1>0 DEF CrashedJob
<1>2. swap[s].status = "completed" /\ job'[s].name = "getMint" => job'[s].stalls > 0
  <2>1. job[s].stalls \in Nat
    BY <1>0 DEF TablesOK, Jobs
  <2>2. ASSUME swap[s].status = "completed", job'[s].name = "getMint"
        PROVE  job'[s].stalls > 0
    <3>1. job[s].name = "getMint" /\ (job[s].stalls > 0 \/ run[s].stage = "completed")
      BY <1>1, <2>2 DEF FinalInv
    <3>2. \/ run[s].stage = "idle" /\ job'[s].stalls = job[s].stalls
          \/ job'[s].stalls = job[s].stalls + 1
      BY <1>0, <2>2, <3>1, CrashStalls
    <3> QED
      BY <2>1, <3>1, <3>2
  <2> QED
    BY <2>2
<1>3. PastDeadline(s) => PastDeadline(s)'
  BY <1>0, <1>1 DEF PastDeadline, Expired, ExtendedExpired
<1> QED
  BY <1>0, <1>1, <1>2, <1>3 DEF FinalInv, Exiting

\* Every step keeps that.
LEMMA FinalsNext == IInv /\ Finals /\ [Next]_vars => Finals'
<1> SUFFICES ASSUME IInv, Finals, [Next]_vars
             PROVE  Finals'
  OBVIOUS
<1>0. TablesOK
  BY DEF IInv, TypeOK
<1>1. ASSUME NEW s \in Swaps, Shared(s)
      PROVE  Finals'
  <2>1. OnlyOf(s)
    BY <1>1, SharedEffect DEF Effect
  <2> QED
    BY <1>0, <1>1, <2>1, SharedFinal, FinalStep DEF Finals, OnlyOf
<1>2. ASSUME NEW s \in Swaps, Confirm(s) \/ Wait(s) \/ Mint(s) \/ Fee(s)
      PROVE  Finals'
  <2>1. UNCHANGED age
    BY <1>2 DEF Confirm, Wait, Mint, Fee, ConfirmRead, ConfirmReads, ConfirmScan,
       ConfirmWriteRow, ConfirmCredit, OnConfirmFailed, OnConfirmCompleted, WaitRead,
       WaitConfirmed, OnWaitCompleted, MintRead, GetMintRead, MinterRead, MintSend,
       OnMintCompleted, GetMintFind, OnGetMintCompleted, FeeRead, FeeSend,
       FeeWriteRow, FeeDebit
  <2>2. FinalInv(s)'
    BY <1>2, ConfirmFinal, WaitFinal, MintFinal, FeeFinal DEF Finals
  <2> QED
    BY <1>0, <1>2, <2>1, <2>2, AgesKept, HandlersKeepOthers, FinalStep DEF OthersKept
<1>3. CASE MineBlock \/ Arrival \/ UNCHANGED vars
  BY <1>0, <1>3, ArrivalKeeps, AgesKept, FinalKept DEF MineBlock, vars, Finals
<1>4. CASE Crash
  BY <1>4, CrashFinal DEF Finals
<1> QED
  BY <1>1, <1>2, <1>3, <1>4 DEF Next, Shared, Arrival

\* Before any request no swap reads anything.
LEMMA FinalsInit == Init => Finals
BY DEF Init, InitTables, Finals, FinalInv, Exiting, NoSwap, Idle, NewRun

\* What may still change a status of completed or expired.
Latecomer(s) ==
  \/ cancel[s] = "write"
  \/ RequestAt(s, "failRow")
  \/ /\ swap[s].status = "completed"
     /\ job[s].name = "getMint" /\ job[s].stalls > 0

OnlyLatecomers ==
  \A s \in Swaps :
    swap[s].status \in {"completed", "expired"} /\ swap'[s].status # swap[s].status
      => Latecomer(s)

\* A helper that goes back on completed is one of a job delivered again (SwapsHelper).
LEMMA SharedLatecomers ==
  ASSUME IInv, NEW s \in Swaps, FinalInv(s), Shared(s),
         swap[s].status \in {"completed", "expired"}, swap'[s].status # swap[s].status
  PROVE  Latecomer(s)
<1>0. TablesOK /\ RequestInv(s)
  BY DEF IInv, TypeOK, SwapInv
<1>1. InsertSwap(s, Len(ton)) \/ FailSwap(s) \/ CancelWrite(s) \/ ExitRow(s)
  BY DEF Shared, Create, CreateFails, Cancel, Settle, PickWallet, MarkWallet,
     AddConfirmJob, InsertFails, AddConfirmJobFails, ReleaseRequested, RequestThrows,
     CancelRead, ExitWallet, HandlerThrows, Tick
<1>2. CASE InsertSwap(s, Len(ton))
  BY <1>0, <1>2 DEF InsertSwap, RequestAt, RequestInv
<1>3. CASE FailSwap(s) \/ CancelWrite(s)
  BY <1>3 DEF FailSwap, CancelWrite, Latecomer
<1>4. CASE ExitRow(s)
  <2>1. run[s].stage = "exitRow" /\ swap'[s].status = run[s].result
    BY <1>0, <1>4 DEF ExitRow, TablesOK, Rows
  <2> QED
    BY <2>1 DEF FinalInv, Exiting, Latecomer
<1> QED
  BY <1>1, <1>2, <1>3, <1>4

\* No handler of the pipeline goes back on either status.
LEMMA LatecomersOnly == IInv /\ Finals /\ [Next]_vars => [OnlyLatecomers]_vars
<1> SUFFICES ASSUME IInv, Finals, Next,
                    NEW s \in Swaps, swap[s].status \in {"completed", "expired"},
                    swap'[s].status # swap[s].status
             PROVE  Latecomer(s)
  BY DEF OnlyLatecomers
<1>1. ASSUME NEW t \in Swaps, Shared(t)
      PROVE  Latecomer(s)
  <2>1. t = s
    BY <1>1, SharedEffect DEF Effect, OnlyOf
  <2> QED
    BY <1>1, <2>1, SharedLatecomers DEF Finals
<1>2. ASSUME NEW t \in Swaps, Confirm(t) \/ Wait(t) \/ Mint(t) \/ Fee(t)
      PROVE  FALSE
  <2>1. t = s
    BY <1>2, HandlersKeepOthers DEF OthersKept
  <2>2. FinalInv(s) /\ swap[s].status = "completed" => job[s].name \in {"getMint", "fee"}
    BY <1>2, <2>1 DEF Finals, FinalInv, Confirm, Wait, Mint, Fee, ConfirmRead,
       ConfirmReads, ConfirmScan, ConfirmWriteRow, ConfirmCredit, OnConfirmFailed,
       OnConfirmCompleted, WaitRead, WaitConfirmed, OnWaitCompleted, MintRead,
       GetMintRead, MinterRead, MintSend, OnMintCompleted, GetMintFind,
       OnGetMintCompleted, FeeRead, FeeSend, FeeWriteRow, FeeDebit, Takes, At
  <2>3. CASE Confirm(s) \/ Wait(s)
    <3>1. job[s].name \in {"confirm", "wait"}
      BY <2>3 DEF Confirm, Wait, ConfirmRead, ConfirmReads, ConfirmScan,
         ConfirmWriteRow, ConfirmCredit, OnConfirmFailed, OnConfirmCompleted, WaitRead,
         WaitConfirmed, OnWaitCompleted, Takes, At
    <3> QED
      BY <2>2, <2>3, <3>1, ConfirmFinal, WaitFinal DEF Finals
  <2>4. CASE Mint(s) \/ Fee(s)
    BY <2>4, MintFinal, FeeFinal DEF Finals
  <2> QED
    BY <1>2, <2>1, <2>3, <2>4
<1>3. CASE MineBlock \/ Arrival \/ Crash
  BY <1>3, ArrivalKeeps DEF MineBlock, Crash
<1> QED
  BY <1>1, <1>2, <1>3 DEF Next, Shared, Arrival

\* Once a swap reads completed or expired, no retry, listener or expiry check goes back
\* on it: only a DELETE or a POST that was under way, or a getTonMintTransaction job
\* delivered a second time (EthSourceSwapsProcessor, TonDestinationSwapsProcessor).
THEOREM FinalStatusesStay == Spec => FinalButForLatecomers
<1>1. Spec => []Finals
  BY InitInv, NextInv, FinalsInit, FinalsNext, PTL DEF Spec
<1>2. Spec => [][OnlyLatecomers]_vars
  BY <1>1, Invariance, LatecomersOnly, PTL DEF Spec
<1>3. [OnlyLatecomers]_vars =>
        [\A s \in Swaps :
           /\ swap[s].status \in {"completed", "expired"}
           /\ swap'[s].status # swap[s].status
           => \/ cancel[s] = "write"
              \/ RequestAt(s, "failRow")
              \/ /\ swap[s].status = "completed"
                 /\ job[s].name = "getMint" /\ job[s].stalls > 0]_vars
  BY DEF OnlyLatecomers, Latecomer
<1> QED
  BY <1>2, <1>3, PTL DEF FinalButForLatecomers

-----------------------------------------------------------------------------
(* No swap is forgotten.                                                     *)

\* Requests, the helpers, the clock and a throw.
LEMMA SharedSettles ==
  ASSUME IInv, NEW s \in Swaps, SettledInv(s), Shared(s)
  PROVE  SettledInv(s)'
<1>1. TablesOK /\ RequestInv(s) /\ ExitInv(s) /\ Len(ton) \in Nat /\ Len(chain) \in Nat
  BY LenProperties DEF IInv, TypeOK, SwapInv
<1> QED
  BY <1>1, QuietSettles, RequestWriteSettles, ExitSettles, ThrowSettles
     DEF Shared, Create, CreateFails, Cancel, Settle

\* The confirm job stays until it returns, and its listeners add it anew, add the wait
\* job, or end a chain that has settled the swap (confirmEthTransfer, its listeners).
LEMMA ConfirmSettles ==
  ASSUME IInv, NEW s \in Swaps, SettledInv(s), Confirm(s)
  PROVE  SettledInv(s)'
<1>0. TablesOK /\ RequestInv(s) /\ job[s].name = "confirm" /\ UNCHANGED request
  BY DEF IInv, TypeOK, SwapInv, Confirm, ConfirmRead, ConfirmReads, ConfirmScan,
     ConfirmWriteRow, ConfirmCredit, OnConfirmFailed, OnConfirmCompleted, Takes, At
<1>1. CASE ConfirmRead(s) \/ ConfirmCredit(s)
  BY <1>0, <1>1, ConfirmSharedSettles DEF ConfirmRead
<1>2. CASE ConfirmScan(s)
  <2>1. UNCHANGED swap
    BY <1>2 DEF ConfirmScan
  <2>2. ASSUME NEW n, run' = [run EXCEPT ![s].stage = "row", ![s].tx = n], job' = job
        PROVE  SettledInv(s)'
    <3>1. run'[s].stage = "row"
      BY <1>0, <2>2 DEF TablesOK, Runs
    <3> QED
      BY <1>0, <2>2, <3>1, AttendedJob DEF Attending
  <2>3. CASE Exit(s, "failed")
    <3>1. job' = job /\ run'[s].stage = "exitRow"
      BY <1>0, <2>3, ExitFields DEF Statuses
    <3> QED
      BY <1>0, <3>1, AttendedJob DEF Attending
  <2> QED
    BY <1>0, <1>2, <2>1, <2>2, <2>3, FailsSettles DEF ConfirmScan
<1>3. CASE ConfirmWriteRow(s)
  <2>1. job' = job /\ run'[s].stage = "credit"
    BY <1>0, <1>3, GotoFields DEF ConfirmWriteRow, Stages
  <2> QED
    BY <1>0, <2>1, AttendedJob DEF Attending
<1>4. CASE OnConfirmFailed(s)
  <2>1. job'[s].name = "confirm" /\ run'[s].stage = "idle"
    BY <1>0, <1>4, RestFields DEF OnConfirmFailed, Enqueue, TablesOK, NextConfirm, NewJob
  <2> QED
    BY <2>1, AttendedJob DEF Attending
<1>5. CASE OnConfirmCompleted(s)
  <2>1. run'[s].stage = "idle" /\ UNCHANGED swap /\ run[s].stage = "completed"
    BY <1>0, <1>5, RestFields DEF OnConfirmCompleted, Enqueue, TablesOK, At
  <2>2. Processable(run[s].result) => job'[s].name = "wait"
    BY <1>0, <1>5 DEF OnConfirmCompleted, Enqueue, TablesOK, NewJob
  <2> QED
    BY <1>0, <2>1, <2>2, ListenerSettles DEF Attending
<1> QED
  BY <1>1, <1>2, <1>3, <1>4, <1>5 DEF Confirm

\* The same of the wait job (waitForEthTransferConfirmation and its listener).
LEMMA WaitSettles ==
  ASSUME IInv, NEW s \in Swaps, SettledInv(s), Wait(s)
  PROVE  SettledInv(s)'
<1>0. TablesOK /\ job[s].name = "wait"
  BY DEF IInv, TypeOK, Wait, WaitRead, WaitConfirmed, OnWaitCompleted, Takes, At
<1>1. CASE WaitRead(s)
  <2>1. job' = job /\ run'[s].stage \in {"exitRow", "await"}
    BY <1>0, <1>1, ExitFields, GotoFields DEF WaitRead, Statuses, Stages
  <2> QED
    BY <1>0, <2>1, AttendedJob DEF Attending
<1>2. CASE WaitConfirmed(s)
  <2>1. job' = job /\ run'[s].stage = "completed" /\ run'[s].result = "confirmed"
    BY <1>0, <1>2, ReturnFields DEF WaitConfirmed, Statuses
  <2> QED
    BY <1>0, <2>1, AttendedJob DEF Attending, Processable
<1>3. CASE OnWaitCompleted(s)
  <2>1. run'[s].stage = "idle" /\ UNCHANGED swap /\ run[s].stage = "completed"
    BY <1>0, <1>3, RestFields DEF OnWaitCompleted, Enqueue, TablesOK, At
  <2>2. Processable(run[s].result) => job'[s].name \in {"wait", "mint"}
    BY <1>0, <1>3 DEF OnWaitCompleted, Enqueue, TablesOK, NewJob
  <2> QED
    BY <1>0, <2>1, <2>2, ListenerSettles DEF Attending
<1> QED
  BY <1>1, <1>2, <1>3 DEF Wait

\* A swap whose getMint job goes on to the fee was completed by it (mintTonJettons,
\* getTonMintTransaction and their listeners).
LEMMA MintSettles ==
  ASSUME IInv, NEW s \in Swaps, SettledInv(s), Mint(s)
  PROVE  SettledInv(s)'
<1>0. TablesOK /\ job[s].name \in {"mint", "getMint"} /\ UNCHANGED request
  BY DEF IInv, TypeOK, Mint, MintRead, GetMintRead, MinterRead, MintSend,
     OnMintCompleted, GetMintFind, OnGetMintCompleted, Takes, At
<1>1. CASE MintRead(s) \/ GetMintRead(s)
  <2>1. job' = job /\ run'[s].stage \in {"exitRow", "send", "find"}
    BY <1>0, <1>1, ExitFields, GotoFields
       DEF MintRead, GetMintRead, MinterRead, Statuses, Stages
  <2> QED
    BY <1>0, <2>1, AttendedJob DEF Attending
<1>2. CASE MintSend(s)
  <2>1. job[s].name = "mint" /\ UNCHANGED swap
    BY <1>2 DEF MintSend, At
  <2>2. CASE Return(s, "confirmed")
    <3>1. job' = job /\ run'[s].stage = "completed" /\ run'[s].result = "confirmed"
      BY <1>0, <2>2, ReturnFields DEF Statuses
    <3> QED
      BY <2>1, <3>1, AttendedJob DEF Attending, Processable
  <2> QED
    BY <1>0, <1>2, <2>1, <2>2, FailsSettles DEF MintSend
<1>3. CASE GetMintFind(s)
  <2>1. CASE swap' = [swap EXCEPT ![s].status = "completed"]
    <3>1. swap'[s].status = "completed"
      BY <1>0, <2>1, StatusFields DEF Statuses
    <3> QED
      BY <3>1, SettledRow DEF Settled
  <2> QED
    BY <1>0, <1>3, <2>1, FailsSettles DEF GetMintFind
<1>4. CASE OnMintCompleted(s) \/ OnGetMintCompleted(s)
  <2>1. run'[s].stage = "idle" /\ UNCHANGED swap /\ run[s].stage = "completed"
    BY <1>0, <1>4, RestFields
       DEF OnMintCompleted, OnGetMintCompleted, Enqueue, TablesOK, At
  <2>2. \/ job[s].name = "getMint"
        \/ Processable(run[s].result) => job'[s].name = "getMint"
    BY <1>0, <1>4
       DEF OnMintCompleted, OnGetMintCompleted, Enqueue, TablesOK, NewJob, At
  <2> QED
    BY <1>0, <2>1, <2>2, ListenerSettles DEF Attending
<1> QED
  BY <1>1, <1>2, <1>3, <1>4 DEF Mint

\* The fee job writes no status (transferEthFee).
LEMMA FeeSettles ==
  ASSUME IInv, NEW s \in Swaps, SettledInv(s), Fee(s)
  PROVE  SettledInv(s)'
<1>0. TablesOK /\ job[s].name = "fee" /\ UNCHANGED request
  BY DEF IInv, TypeOK, Fee, FeeRead, FeeSend, FeeWriteRow, FeeDebit, Takes, At
<1>1. swap'[s].status = swap[s].status
  <2>1. CASE FeeWriteRow(s)
    BY <1>0, <2>1, CollectedFields DEF FeeWriteRow
  <2> QED
    BY <2>1 DEF Fee, FeeRead, FeeSend, FeeDebit
<1>2. /\ job'[s].name \in {"fee", "ended", "lost"}
      /\ run'[s].stage \in {"idle", "send", "collect", "debit"}
  <2>1. ASSUME Fails(s, "error")
        PROVE  job'[s].name \in {"fee", "lost"} /\ run'[s].stage = "idle"
    BY <1>0, <2>1, FailsFields
  <2>2. ASSUME Enqueue(s, EndedJob)
        PROVE  job'[s].name = "ended" /\ run'[s].stage = "idle"
    BY <1>0, <2>2, RestFields DEF Enqueue, TablesOK
  <2>3. ASSUME NEW stage \in {"collect", "debit"}, Goto(s, stage)
        PROVE  job' = job /\ run'[s].stage = stage
    BY <1>0, <2>3, GotoFields DEF Stages
  <2>4. ASSUME GotoWithBalance(s, "send")
        PROVE  job' = job /\ run'[s].stage = "send"
    BY <1>0, <2>4 DEF GotoWithBalance, TablesOK, NewRun
  <2> QED
    BY <1>0, <2>1, <2>2, <2>3, <2>4
       DEF Fee, FeeRead, FeeSend, FeeWriteRow, FeeDebit, DebitRefused
<1> QED
  BY <1>0, <1>1, <1>2, LateJobSettles DEF Attending

\* Every step keeps that.
LEMMA SettlingNext == IInv /\ Settling /\ [Next]_vars => Settling'
<1> SUFFICES ASSUME IInv, Settling, [Next]_vars
             PROVE  Settling'
  OBVIOUS
<1>1. ASSUME NEW s \in Swaps, Shared(s)
      PROVE  Settling'
  <2>1. OnlyOf(s)
    BY <1>1, SharedEffect DEF Effect
  <2> QED
    BY <1>1, <2>1, SharedSettles, SettledStep DEF Settling, OnlyOf
<1>2. ASSUME NEW s \in Swaps, Confirm(s) \/ Wait(s) \/ Mint(s) \/ Fee(s)
      PROVE  Settling'
  <2>1. UNCHANGED request
    BY <1>2 DEF Confirm, Wait, Mint, Fee, ConfirmRead, ConfirmReads, ConfirmScan,
       ConfirmWriteRow, ConfirmCredit, OnConfirmFailed, OnConfirmCompleted, WaitRead,
       WaitConfirmed, OnWaitCompleted, MintRead, GetMintRead, MinterRead, MintSend,
       OnMintCompleted, GetMintFind, OnGetMintCompleted, FeeRead, FeeSend,
       FeeWriteRow, FeeDebit
  <2>2. SettledInv(s)'
    BY <1>2, ConfirmSettles, WaitSettles, MintSettles, FeeSettles DEF Settling
  <2> QED
    BY <1>2, <2>1, <2>2, HandlersKeepOthers, SettledStep DEF OthersKept
<1>3. CASE MineBlock \/ Arrival \/ UNCHANGED vars
  BY <1>3, ArrivalKeeps, SettledKept DEF MineBlock, vars, Settling
<1>4. CASE Crash
  BY <1>4, CrashSettles DEF IInv, TypeOK, Settling
<1> QED
  BY <1>1, <1>2, <1>3, <1>4 DEF Next, Shared, Arrival

\* However handlers fail, are retried, redelivered or meet a late DELETE, a swap that
\* reads pending or confirmed has a request or a job that is to settle it, unless its
\* chain of jobs was cut off (EthSourceSwapsProcessor, TonDestinationSwapsProcessor).
THEOREM NoSwapStaysBehind == Spec => []NoSwapIsForgotten
<1>1. Init => Settling
  BY SettledInit DEF Init
<1>2. Settling => NoSwapIsForgotten
  BY DEF Settling, SettledInv, NoSwapIsForgotten
<1> QED
  BY <1>1, <1>2, InitInv, NextInv, SettlingNext, PTL DEF Spec

-----------------------------------------------------------------------------
(* A swap keeps the transfer it has taken.                                   *)

\* The block that decides when the confirm job of s is at work: it is there, and the
\* first of its window to pay the source wallet.
Decides(s, n) ==
  /\ job[s].arg <= Len(chain)
  /\ n \in Payments(s)
  /\ \A m \in Payments(s) : n <= m

\* As long as the confirm job is delivered or added anew, what it has taken is what it
\* would take again; and nobody has written more confirmations than there are.
TakenInv(s) ==
  LET tx == swap[s].sourceTransactionId
  IN  /\ tx # 0 => Deep(s, swap[s].confirmations)
      /\ tx # 0 /\ job[s].name = "confirm" =>
           /\ Decides(s, tx)
           /\ chain[tx].amount = swap[s].sourceAmount
           /\ swap[s].confirmations = 1
           /\ ~(run[s].stage = "failed" /\ run[s].result = "notFound")
      /\ At(s, "confirm", "row") => Decides(s, run[s].tx)
      /\ job[s].name = "wait" => swap[s].confirmations <= job[s].arg

AllTaken == \A s \in Swaps : TakenInv(s)

\* What TransferIsKept says of the step of one swap.
KeepsTaken(s) ==
  LET tx == swap[s].sourceTransactionId
  IN  tx # 0 =>
        /\ Taken(s)' = Taken(s)
        /\ swap'[s].confirmations \in swap[s].confirmations..(Len(chain') + 1 - tx)

\* The row keeps its transfer and its confirmations, and the confirm and wait jobs are
\* at the block and at the confirmations they were at.
KeepsTransfer(s) ==
  /\ KeepsRow(s)
  /\ swap'[s].confirmations = swap[s].confirmations
  /\ job'[s].name \in {"confirm", "wait"} =>
       job'[s].name = job[s].name /\ job'[s].arg = job[s].arg
  /\ job'[s].name = "confirm" /\ run'[s].stage = "failed" /\ run'[s].result = "notFound"
       => run[s].stage = "failed" /\ run[s].result = "notFound"
  /\ At(s, "confirm", "row")' => At(s, "confirm", "row") /\ run'[s].tx = run[s].tx

\* A row written with as many confirmations as before, or more, of the depth it has.
LEMMA DeepKeeps ==
  ASSUME NEW s \in Swaps, KeepsRow(s), TakenInv(s)',
         swap[s].sourceTransactionId \in Nat, Len(chain') \in Nat,
         swap[s].confirmations \in Nat, swap'[s].confirmations \in Nat,
         swap'[s].confirmations >= swap[s].confirmations
  PROVE  KeepsTaken(s)
<1> DEFINE tx == swap[s].sourceTransactionId
           length == Len(chain')
           was == swap[s].confirmations
           now == swap'[s].confirmations
<1>1. Taken(s)' = Taken(s) /\ swap'[s].sourceTransactionId = tx
  BY DEF Taken, KeepsRow
<1>2. tx # 0 => length >= tx + now - 1
  BY <1>1 DEF TakenInv, Deep
<1>3. tx # 0 => now \in was..(length + 1 - tx)
  <2> HIDE DEF tx, length, was, now
  <2>1. tx \in Nat /\ length \in Nat /\ was \in Nat /\ now \in Nat /\ now >= was
    BY DEF tx, length, was, now
  <2> QED
    BY <1>2, <2>1
<1> QED
  BY <1>1, <1>3 DEF KeepsTaken

LEMMA RowNumbers ==
  ASSUME IInv, NEW s \in Swaps
  PROVE  /\ TablesOK /\ swap[s].sourceTransactionId \in Nat
         /\ swap[s].confirmations \in Nat /\ Len(chain) \in Nat
         /\ job[s].arg \in Nat /\ run[s].tx \in Nat
  BY LenProperties DEF IInv, TypeOK, TablesOK, Rows, Jobs, Runs

\* The rest of an action that leaves the transfer of s.
LEMMA TakenKept ==
  ASSUME IInv, NEW s \in Swaps, TakenInv(s), KeepsTransfer(s), UNCHANGED chain
  PROVE  TakenInv(s)' /\ KeepsTaken(s)
<1>0. /\ swap[s].sourceTransactionId \in Nat /\ swap[s].confirmations \in Nat
      /\ Len(chain) \in Nat
  BY RowNumbers
<1>1. job'[s].name = "confirm" => \A n : Decides(s, n) => Decides(s, n)'
  BY DEF KeepsTransfer, KeepsRow, Decides, Payments, Window
<1>2. TakenInv(s)'
  BY <1>1 DEF TakenInv, KeepsTransfer, KeepsRow, Deep, At
<1>3. KeepsTaken(s)
  BY <1>0, <1>2, DeepKeeps DEF KeepsTransfer
<1> QED
  BY <1>2, <1>3

\* A swap that has taken no transfer keeps none.
LEMMA NothingTaken ==
  ASSUME NEW s \in Swaps, swap[s].sourceTransactionId = 0,
         swap'[s].sourceTransactionId = 0, job'[s].name # "wait",
         ~At(s, "confirm", "row")'
  PROVE  TakenInv(s)' /\ KeepsTaken(s)
  BY DEF TakenInv, KeepsTaken

\* Until its first job is added a swap has taken nothing; a helper, a DELETE and a POST
\* that fails write its status and nothing else (createSwap, cancelSwap, SwapsHelper).
LEMMA SharedTaken ==
  ASSUME IInv, NEW s \in Swaps, ScanInv(s), TakenInv(s), Shared(s)
  PROVE  TakenInv(s)' /\ KeepsTaken(s)
<1>0. /\ TablesOK /\ RequestInv(s) /\ UNCHANGED chain /\ Effect(s)
      /\ swap \in [Swaps -> Rows]
  BY SharedEffect DEF IInv, TypeOK, SwapInv, world, TablesOK
<1>1. CASE PickWallet(s) \/ MarkWallet(s) \/ InsertSwap(s, Len(ton)) \/ InsertFails(s)
  <2>1. job' = job /\ run' = run /\ job[s].name = "none"
    BY <1>0, <1>1 DEF PickWallet, MarkWallet, InsertSwap, InsertFails, RequestAt, RequestInv
  <2>2. swap[s].sourceTransactionId = 0
    BY <2>1 DEF ScanInv
  <2>3. swap'[s].sourceTransactionId = 0
    <3>1. CASE InsertSwap(s, Len(ton))
      BY <1>0, <3>1 DEF InsertSwap, NoSwap
    <3> QED
      BY <1>1, <2>2, <3>1 DEF PickWallet, MarkWallet, InsertFails
  <2> QED
    BY <2>1, <2>2, <2>3, NothingTaken DEF At
<1>2. CASE AddConfirmJob(s, Len(chain)) \/ AddConfirmJobFails(s, Len(chain))
  <2>1. job[s].name = "none" /\ run[s].stage = "idle" /\ UNCHANGED swap
    BY <1>0, <1>2 DEF AddConfirmJob, AddConfirmJobFails, RequestAt, RequestInv
  <2>2. swap[s].sourceTransactionId = 0
    BY <2>1 DEF ScanInv
  <2>3. job'[s].name \in {"none", "confirm"} /\ run'[s].stage = "idle"
    <3>1. CASE Enqueue(s, NewJob("confirm", Len(chain), 0, 1))
      BY <1>0, <3>1, RestFields DEF Enqueue, TablesOK, NewJob
    <3> QED
      BY <1>2, <2>1, <3>1 DEF AddConfirmJob, AddConfirmJobFails
  <2> QED
    BY <2>1, <2>2, <2>3, NothingTaken DEF At
<1>3. CASE ReleaseRequested(s) \/ RequestThrows(s) \/ CancelRead(s) \/ Tick(s)
  <2>1. UNCHANGED <<swap, job, run>>
    BY <1>3 DEF ReleaseRequested, RequestThrows, CancelRead, Tick
  <2> QED
    BY <1>0, <2>1, TakenKept DEF KeepsTransfer, KeepsRow, At
<1>4. CASE FailSwap(s) \/ CancelWrite(s) \/ Settle(s)
  <2>1. \/ UNCHANGED swap
        \/ \E status : swap' = [swap EXCEPT ![s].status = status]
    BY <1>4 DEF FailSwap, CancelWrite, Settle, ExitRow, ExitWallet
  <2>2. KeepsRow(s) /\ swap'[s].confirmations = swap[s].confirmations
    BY <1>0, <2>1 DEF KeepsRow, Rows
  <2>3. CASE FailSwap(s) \/ CancelWrite(s)
    BY <1>0, <2>2, <2>3, TakenKept DEF FailSwap, CancelWrite, KeepsTransfer, At
  <2>4. CASE Settle(s)
    <3>1. job' = job /\ run'[s].stage \in {"exitWallet", "completed"}
      BY <1>0, <2>4 DEF Settle, ExitRow, ExitWallet, Goto, Return, NewRun, TablesOK, Runs
    <3> QED
      BY <1>0, <2>2, <3>1, TakenKept DEF KeepsTransfer, At
  <2> QED
    BY <1>4, <2>3, <2>4
<1>5. CASE HandlerThrows(s)
  <2>1. \/ /\ job'[s].name = job[s].name /\ job'[s].arg = job[s].arg
           /\ run'[s].stage = "idle"
        \/ /\ job'[s] = job[s] /\ run'[s].stage = "failed" /\ run'[s].result = "error"
        \/ job'[s].name = "lost"
    BY <1>0, <1>5, FailsFields DEF HandlerThrows
  <2> QED
    BY <1>0, <1>5, <2>1, TakenKept DEF HandlerThrows, KeepsTransfer, KeepsRow, At
<1> QED
  BY <1>1, <1>2, <1>3, <1>4, <1>5 DEF Shared, Create, CreateFails, Cancel

\* The handler comes upon the transfer it had taken, if any (confirmEthTransfer).
LEMMA ConfirmScanTaken ==
  ASSUME IInv, NEW s \in Swaps, TakenInv(s), ConfirmScan(s)
  PROVE  TakenInv(s)' /\ KeepsTaken(s)
<1>0. /\ TablesOK /\ job[s].name = "confirm" /\ run[s].stage = "scan"
      /\ UNCHANGED <<chain, swap>>
  BY DEF IInv, TypeOK, ConfirmScan, At
<1>1. ASSUME Fails(s, "error")
      PROVE  TakenInv(s)' /\ KeepsTaken(s)
  <2>1. \/ /\ job'[s].name = job[s].name /\ job'[s].arg = job[s].arg
           /\ run'[s].stage = "idle"
        \/ /\ job'[s] = job[s] /\ run'[s].stage = "failed" /\ run'[s].result = "error"
    BY <1>0, <1>1, FailsFields
  <2> QED
    BY <1>0, <2>1, TakenKept DEF KeepsTransfer, KeepsRow, At
<1>2. ASSUME Payments(s) = {}, Fails(s, "notFound")
      PROVE  TakenInv(s)' /\ KeepsTaken(s)
  <2>1. swap[s].sourceTransactionId = 0
    BY <1>0, <1>2 DEF TakenInv, Decides
  <2>2. job'[s].name = "confirm" /\ run'[s].stage \in {"idle", "failed"}
    BY <1>0, <1>2, FailsFields
  <2> QED
    BY <1>0, <2>1, <2>2, NothingTaken DEF At
<1>3. ASSUME job[s].arg <= Len(chain), NEW n \in Payments(s),
             \A m \in Payments(s) : n <= m,
             run' = [run EXCEPT ![s].stage = "row", ![s].tx = n], job' = job
      PROVE  TakenInv(s)' /\ KeepsTaken(s)
  <2>1. run'[s].stage = "row" /\ run'[s].tx = n
    BY <1>0, <1>3 DEF TablesOK, Runs
  <2>2. \A m : Decides(s, m) => Decides(s, m)'
    BY <1>0, <1>3 DEF Decides, Payments, Window
  <2>3. Decides(s, n)'
    BY <1>3, <2>2 DEF Decides
  <2>4. TakenInv(s)'
    BY <1>0, <1>3, <2>1, <2>2, <2>3 DEF TakenInv, Deep, At
  <2> QED
    BY <1>0, <2>4, RowNumbers, DeepKeeps DEF KeepsRow
<1>4. ASSUME Exit(s, "failed")
      PROVE  TakenInv(s)' /\ KeepsTaken(s)
  <2>1. job' = job /\ run'[s].stage = "exitRow"
    BY <1>0, <1>4, ExitFields DEF Statuses
  <2> QED
    BY <1>0, <2>1, TakenKept DEF KeepsTransfer, KeepsRow, At
<1> QED
  BY <1>1, <1>2, <1>3, <1>4 DEF ConfirmScan

\* A row that is written again gets the same transfer and the same amounts
\* (confirmEthTransfer).
LEMMA ConfirmWriteRowTaken ==
  ASSUME IInv, IInv', NEW s \in Swaps, TakenInv(s), ConfirmWriteRow(s)
  PROVE  TakenInv(s)' /\ KeepsTaken(s)
<1>0. /\ TablesOK /\ job[s].name = "confirm" /\ Decides(s, run[s].tx)
      /\ UNCHANGED chain
      /\ swap[s].sourceTransactionId \in Nat /\ Len(chain) \in Nat
      /\ job[s].arg \in Nat /\ run[s].tx \in Nat
  BY RowNumbers DEF ConfirmWriteRow, TakenInv, At
<1> PICK tx \in Nat : tx = run[s].tx
  BY <1>0
<1> PICK old \in Nat : old = swap[s].sourceTransactionId
  BY <1>0
<1> PICK amount : amount = chain[tx].amount
  OBVIOUS
<1>1. tx \in 1..Len(chain) /\ tx \in Payments(s)
  BY <1>0 DEF Decides, Payments, Window
<1>2. job' = job /\ run'[s].stage = "credit" /\ run'[s].tx = tx
  BY <1>0, GotoFields DEF ConfirmWriteRow, Stages
<1>3. swap'[s] = ConfirmedRow(s, amount, tx)
  BY <1>0 DEF ConfirmWriteRow, TablesOK
<1>4. old # 0 => old = tx /\ amount = swap[s].sourceAmount /\ swap[s].confirmations = 1
  <2>1. SUFFICES ASSUME old # 0
                 PROVE  old = tx /\ amount = swap[s].sourceAmount
                        /\ swap[s].confirmations = 1
    OBVIOUS
  <2>2. /\ Decides(s, old) /\ chain[old].amount = swap[s].sourceAmount
        /\ swap[s].confirmations = 1
    BY <1>0, <2>1 DEF TakenInv
  <2>3. old <= tx /\ tx <= old
    BY <1>0, <1>1, <2>2 DEF Decides
  <2> QED
    BY <2>2, <2>3
<1>5. Backed(s)'
  BY <1>0, <1>2 DEF IInv, SwapInv, ConfirmInv, At
<1>6. /\ swap'[s].sourceTransactionId = tx
      /\ swap'[s].sourceWallet = swap[s].sourceWallet
      /\ swap'[s].confirmations = 1
      /\ amount = swap[s].sourceAmount =>
           /\ swap'[s].sourceAmount = swap[s].sourceAmount
           /\ swap'[s].destinationAmount = swap[s].destinationAmount
           /\ swap'[s].fee = swap[s].fee
  BY <1>0, <1>3, ConfirmedRowStatus, ConfirmedRowAgain
<1>7. Decides(s, tx)'
  <2>1. Payments(s)' = Payments(s)
    BY <1>0, <1>2, <1>6 DEF Payments, Window
  <2> QED
    BY <1>0, <1>2, <2>1 DEF Decides
<1>8. Deep(s, 1)'
  BY <1>0, <1>1, <1>6 DEF Deep
<1>9. chain'[tx].amount = swap'[s].sourceAmount
  BY <1>5, <1>6 DEF Backed
<1>10. TakenInv(s)'
  BY <1>0, <1>2, <1>6, <1>7, <1>8, <1>9 DEF TakenInv, At
<1>11. KeepsTaken(s)
  <2>1. old # 0 => Taken(s)' = Taken(s)
    BY <1>4, <1>6 DEF Taken
  <2>2. old # 0 => 1 \in 1..(Len(chain) + 1 - old)
    BY <1>0, <1>1, <1>4
  <2> QED
    BY <1>0, <1>4, <1>6, <2>1, <2>2 DEF KeepsTaken
<1> QED
  BY <1>10, <1>11

\* The scan of a swap that has taken a transfer does not move on, and the job after it
\* asks for more confirmations than the row has (the listeners of confirmEthTransfer).
LEMMA ConfirmTaken ==
  ASSUME IInv, IInv', NEW s \in Swaps, TakenInv(s), Confirm(s)
  PROVE  TakenInv(s)' /\ KeepsTaken(s)
<1>0. /\ TablesOK /\ RequestInv(s) /\ ConfirmInv(s) /\ job[s].name = "confirm"
      /\ UNCHANGED chain
  BY DEF IInv, TypeOK, SwapInv, Confirm, ConfirmRead, ConfirmReads, ConfirmScan,
     ConfirmWriteRow, ConfirmCredit, OnConfirmFailed, OnConfirmCompleted, Takes, At,
     world
<1>1. CASE ConfirmRead(s)
  <2>1. job' = job /\ run'[s].stage \in {"exitRow", "scan"}
    BY <1>0, <1>1, ConfirmReadsFields DEF ConfirmRead, Stages
  <2> QED
    BY <1>0, <1>1, <2>1, TakenKept DEF ConfirmRead, ConfirmReads, KeepsTransfer, KeepsRow, At
<1>2. CASE ConfirmCredit(s)
  <2>1. job' = job /\ run'[s].stage = "completed"
    BY <1>0, <1>2, ConfirmCreditFields
  <2> QED
    BY <1>0, <1>2, <2>1, TakenKept DEF ConfirmCredit, KeepsTransfer, KeepsRow, At
<1>3. CASE OnConfirmFailed(s)
  <2>1. /\ job'[s].name = "confirm" /\ job'[s].arg = NextBlock(s)
        /\ run'[s].stage = "idle" /\ UNCHANGED swap /\ run[s].stage = "failed"
    BY <1>0, <1>3, RestFields DEF OnConfirmFailed, Enqueue, TablesOK, NextConfirm, NewJob, At
  <2>2. CASE swap[s].sourceTransactionId = 0
    BY <2>1, <2>2, NothingTaken DEF At
  <2>3. CASE swap[s].sourceTransactionId # 0
    <3>1. NextBlock(s) = job[s].arg
      BY <1>0, <2>1, <2>3 DEF TakenInv, NextBlock
    <3> QED
      BY <1>0, <2>1, <3>1, TakenKept DEF KeepsTransfer, KeepsRow, At
  <2> QED
    BY <2>2, <2>3
<1>4. CASE OnConfirmCompleted(s)
  <2>1. UNCHANGED swap /\ run[s].stage = "completed"
    BY <1>4 DEF OnConfirmCompleted, At
  <2>2. CASE ~Processable(run[s].result)
    <3>1. job'[s].name = "ended"
      BY <1>0, <1>4, <2>2, RestFields DEF OnConfirmCompleted, Enqueue, TablesOK
    <3> QED
      BY <1>0, <2>1, <3>1, TakenKept DEF KeepsTransfer, KeepsRow, At
  <2>3. CASE Processable(run[s].result)
    <3>1. job'[s].name = "wait" /\ job'[s].arg = 2
      BY <1>0, <1>4, <2>3 DEF OnConfirmCompleted, Enqueue, TablesOK, NewJob
    <3>2. swap[s].sourceTransactionId # 0
      BY <1>0, <2>1, <2>3, RowNumbers DEF ConfirmInv, Backed, At
    <3>3. swap[s].confirmations = 1 /\ Deep(s, 1)
      BY <1>0, <3>2 DEF TakenInv
    <3>4. TakenInv(s)'
      BY <1>0, <2>1, <3>1, <3>3 DEF TakenInv, Deep, At
    <3> QED
      BY <1>0, <2>1, <3>4, RowNumbers, DeepKeeps DEF KeepsRow
  <2> QED
    BY <2>2, <2>3
<1> QED
  BY <1>1, <1>2, <1>3, <1>4, ConfirmScanTaken, ConfirmWriteRowTaken DEF Confirm

\* The wait jobs count up, and each writes what the chain has by then
\* (waitForEthTransferConfirmation).
LEMMA WaitTaken ==
  ASSUME IInv, NEW s \in Swaps, TakenInv(s), Wait(s)
  PROVE  TakenInv(s)' /\ KeepsTaken(s)
<1>0. /\ TablesOK /\ PipelineInv(s) /\ job[s].name = "wait" /\ UNCHANGED chain
      /\ swap[s].sourceTransactionId \in Nat /\ swap[s].confirmations \in Nat
      /\ Len(chain) \in Nat /\ job[s].arg \in Nat /\ swap \in [Swaps -> Rows]
  BY RowNumbers DEF IInv, TypeOK, TablesOK, SwapInv, Wait, WaitRead, WaitConfirmed,
     OnWaitCompleted, Takes, At
<1>1. CASE WaitRead(s)
  <2>1. job' = job /\ UNCHANGED swap
    BY <1>1 DEF WaitRead, Exit, Goto
  <2> QED
    BY <1>0, <2>1, TakenKept DEF KeepsTransfer, KeepsRow, At
<1>2. CASE WaitConfirmed(s)
  <2>1. /\ job' = job /\ KeepsRow(s)
        /\ swap'[s].confirmations = job[s].arg
    BY <1>0, <1>2 DEF WaitConfirmed, Return, KeepsRow, Rows
  <2>2. swap[s].confirmations <= job[s].arg
    BY <1>0 DEF TakenInv
  <2>3. Len(chain) >= swap[s].sourceTransactionId + job[s].arg - 1
    BY <1>0, <1>2 DEF WaitConfirmed, Buried, PipelineInv
  <2>4. TakenInv(s)'
    BY <1>0, <2>1, <2>3 DEF TakenInv, Deep, KeepsRow, At
  <2> QED
    BY <1>0, <2>1, <2>2, <2>4, DeepKeeps
<1>3. CASE OnWaitCompleted(s)
  <2>1. UNCHANGED swap
    BY <1>3 DEF OnWaitCompleted
  <2>2. \/ job'[s].name \in {"ended", "mint"}
        \/ job'[s].name = "wait" /\ job'[s].arg = job[s].arg + 1
    BY <1>0, <1>3, RestFields DEF OnWaitCompleted, Enqueue, TablesOK, NewJob
  <2>3. TakenInv(s)'
    BY <1>0, <2>1, <2>2 DEF TakenInv, Deep, At
  <2> QED
    BY <1>0, <2>1, <2>3, DeepKeeps DEF KeepsRow
<1> QED
  BY <1>1, <1>2, <1>3 DEF Wait

\* The jobs after them leave both (TonDestinationSwapsProcessor, transferEthFee).
LEMMA LateTaken ==
  ASSUME IInv, NEW s \in Swaps, TakenInv(s), Mint(s) \/ Fee(s)
  PROVE  TakenInv(s)' /\ KeepsTaken(s)
<1>0. /\ TablesOK /\ swap \in [Swaps -> Rows] /\ KeepsRow(s) /\ UNCHANGED chain
      /\ job[s].name \in {"mint", "getMint", "fee"}
  BY LateRow DEF IInv, TypeOK, TablesOK, Mint, Fee, MintRead, GetMintRead, MinterRead,
     MintSend, OnMintCompleted, GetMintFind, OnGetMintCompleted, FeeRead, FeeSend,
     FeeWriteRow, FeeDebit, Takes, At
<1>1. swap'[s].confirmations = swap[s].confirmations
  <2>1. \/ UNCHANGED swap
        \/ swap' = [swap EXCEPT ![s].status = "completed"]
        \/ swap' = [swap EXCEPT ![s].collected = TRUE]
    BY DEF Mint, Fee, MintRead, GetMintRead, MinterRead, MintSend, OnMintCompleted,
       GetMintFind, OnGetMintCompleted, FeeRead, FeeSend, FeeWriteRow, FeeDebit
  <2> QED
    BY <1>0, <2>1 DEF Rows
<1>2. job'[s].name \notin {"confirm", "wait"}
  <2>1. ASSUME NEW new, new.name \notin {"confirm", "wait"}, Enqueue(s, new)
        PROVE  job'[s].name \notin {"confirm", "wait"}
    BY <1>0, <2>1 DEF Enqueue, TablesOK
  <2>2. ASSUME Fails(s, "error")
        PROVE  job'[s].name \notin {"confirm", "wait"}
    BY <1>0, <2>2, FailsFields
  <2>3. /\ EndedJob.name = "ended"
        /\ NewJob("getMint", 0, 0, ExtendedAttempts).name = "getMint"
        /\ NewJob("fee", 0, 0, UltimateAttempts).name = "fee"
    BY DEF EndedJob, NewJob
  <2>4. CASE Mint(s)
    BY <1>0, <2>1, <2>2, <2>3, <2>4 DEF Mint, MintRead, GetMintRead, MinterRead,
       MintSend, OnMintCompleted, GetMintFind, OnGetMintCompleted, Exit, Goto, Return
  <2>5. CASE Fee(s)
    BY <1>0, <2>1, <2>2, <2>3, <2>5 DEF Fee, FeeRead, FeeSend, FeeWriteRow, FeeDebit,
       DebitRefused, Exit, Goto, GotoWithBalance, Return
  <2> QED
    BY <2>4, <2>5
<1> QED
  BY <1>0, <1>1, <1>2, TakenKept DEF KeepsTransfer, At

\* A block that is mined buries the transfers deeper.
LEMMA MineBlockTaken ==
  ASSUME IInv, NEW s \in Swaps, TakenInv(s), MineBlock
  PROVE  TakenInv(s)' /\ KeepsTaken(s)
<1>0. /\ UNCHANGED <<swap, job, run>>
      /\ swap[s].sourceTransactionId \in Nat /\ swap[s].confirmations \in Nat
      /\ Len(chain) \in Nat /\ job[s].arg \in Nat
  BY RowNumbers DEF MineBlock
<1>1. Len(chain') = Len(chain) + 1 /\ \A n \in 1..Len(chain) : chain'[n] = chain[n]
  <2>1. PICK block \in {NoTransfer} \cup Transfers : chain' = Append(chain, block)
    BY DEF MineBlock
  <2>2. chain \in Seq(Transfers \cup {NoTransfer})
    BY DEF IInv, TypeOK
  <2> QED
    BY <2>1, <2>2
<1>2. ASSUME NEW n, Decides(s, n)
      PROVE  Decides(s, n)' /\ chain'[n] = chain[n]
  <2>1. Window(s)' = Window(s) /\ \A m \in Window(s) : m \in 1..Len(chain)
    BY <1>0, <1>2 DEF Decides, Window
  <2>2. Payments(s)' = Payments(s)
    BY <1>0, <1>1, <2>1 DEF Payments
  <2> QED
    BY <1>0, <1>1, <1>2, <2>1, <2>2 DEF Decides, Payments
<1>3. ASSUME Deep(s, swap[s].confirmations)
      PROVE  Deep(s, swap[s].confirmations)'
  <2> DEFINE depth == swap[s].sourceTransactionId + swap[s].confirmations - 1
  <2>1. depth \in Int /\ depth' = depth /\ Len(chain) >= depth
    BY <1>0, <1>3 DEF Deep
  <2>2. Len(chain') >= depth
    <3> HIDE DEF depth
    <3> QED
      BY <1>0, <1>1, <2>1
  <2> QED
    BY <2>1, <2>2 DEF Deep
<1>4. TakenInv(s)'
  <2>1. \A n : Decides(s, n) => Decides(s, n)' /\ chain'[n].amount = chain[n].amount
    BY <1>2
  <2> QED
    BY <1>0, <1>3, <2>1 DEF TakenInv, At
<1> QED
  BY <1>0, <1>1, <1>4, DeepKeeps DEF KeepsRow

\* Every step keeps the transfers, and leaves them to be kept.
AllKept == \A s \in Swaps : KeepsTaken(s)

LEMMA TakenNext ==
  IInv /\ IInv' /\ Scanned /\ AllTaken /\ [Next]_vars => AllTaken' /\ AllKept
<1> SUFFICES ASSUME IInv, IInv', Scanned, AllTaken, [Next]_vars, NEW t \in Swaps
             PROVE  TakenInv(t)' /\ KeepsTaken(t)
  BY DEF AllTaken, AllKept
<1>0. ScanInv(t) /\ TakenInv(t)
  BY DEF Scanned, AllTaken
<1>1. ASSUME NEW s \in Swaps, OnlyOf(s), s # t, UNCHANGED chain
      PROVE  TakenInv(t)' /\ KeepsTaken(t)
  <2>1. KeepsTransfer(t)
    BY <1>1 DEF OnlyOf, KeepsTransfer, KeepsRow, At
  <2> QED
    BY <1>0, <1>1, <2>1, TakenKept
<1>2. ASSUME NEW s \in Swaps, Shared(s)
      PROVE  TakenInv(t)' /\ KeepsTaken(t)
  <2>1. OnlyOf(s) /\ UNCHANGED chain
    BY <1>2, SharedEffect DEF Effect, world
  <2> QED
    BY <1>0, <1>1, <1>2, <2>1, SharedTaken
<1>3. ASSUME NEW s \in Swaps, Confirm(s) \/ Wait(s) \/ Mint(s) \/ Fee(s)
      PROVE  TakenInv(t)' /\ KeepsTaken(t)
  <2>1. UNCHANGED <<chain, request, cancel>>
    BY <1>3 DEF Confirm, Wait, Mint, Fee, ConfirmRead, ConfirmReads, ConfirmScan,
       ConfirmWriteRow, ConfirmCredit, OnConfirmFailed, OnConfirmCompleted, WaitRead,
       WaitConfirmed, OnWaitCompleted, MintRead, GetMintRead, MinterRead, MintSend,
       OnMintCompleted, GetMintFind, OnGetMintCompleted, FeeRead, FeeSend,
       FeeWriteRow, FeeDebit, world
  <2>2. OnlyOf(s)
    BY <1>3, <2>1, HandlersKeepOthers DEF OthersKept, OnlyOf
  <2> QED
    BY <1>0, <1>1, <1>3, <2>1, <2>2, ConfirmTaken, WaitTaken, LateTaken
<1>4. CASE MineBlock
  BY <1>0, <1>4, MineBlockTaken
<1>5. CASE Crash /\ UNCHANGED world
  <2>1. TablesOK
    BY DEF IInv, TypeOK
  <2>2. KeepsTransfer(t)
    BY <1>5, <2>1, CrashEffect DEF KeepsTransfer, KeepsRow, CrashedJob, At
  <2> QED
    BY <1>0, <1>5, <2>2, TakenKept DEF world
<1>6. CASE Arrival \/ UNCHANGED vars
  <2>1. KeepsTransfer(t) /\ UNCHANGED chain
    BY <1>6, ArrivalKeeps DEF vars, KeepsTransfer, KeepsRow, At
  <2> QED
    BY <1>0, <2>1, TakenKept
<1> QED
  BY <1>2, <1>3, <1>4, <1>5, <1>6 DEF Next, Shared, Arrival

\* Before any request no swap has taken anything.
LEMMA TakenInit == Init => AllTaken
BY DEF Init, InitTables, AllTaken, TakenInv, At, NoSwap, NoJob, NewJob, Idle, NewRun

\* A swap keeps the transfer it has taken and the amounts computed from it, however
\* often its confirm job is delivered or added anew, and its confirmations only go up
\* and are never more than the chain has (EthSourceSwapsProcessor).
THEOREM TransfersAreKept == Spec => TransferIsKept
<1>1. Spec => []AllTaken
  BY InitInv, NextInv, ScannedInit, ScannedNext, TakenInit, TakenNext, PTL DEF Spec
<1>2. Spec => [][AllKept]_vars
  <2>1. IInv /\ IInv' /\ Scanned /\ AllTaken /\ [Next]_vars => [AllKept]_vars
    BY TakenNext
  <2> QED
    BY <1>1, <2>1, Invariance, ScansHold, PTL DEF Spec
<1>3. [AllKept]_vars =>
        [\A s \in Swaps :
           LET tx == swap[s].sourceTransactionId
           IN  tx # 0 =>
                 /\ Taken(s)' = Taken(s)
                 /\ swap'[s].confirmations
                      \in swap[s].confirmations..(Len(chain') + 1 - tx)]_vars
  BY DEF AllKept, KeepsTaken
<1> QED
  BY <1>2, <1>3, PTL DEF TransferIsKept
=============================================================================
