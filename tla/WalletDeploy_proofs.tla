-------------------------- MODULE WalletDeploy_proofs --------------------------
(* The proofs about WalletDeploy: what a giver pays for a wallet is bounded, *)
(* and so is how often recording the deployment wipes out a credit.          *)
EXTENDS WalletDeploy, TLAPS

-----------------------------------------------------------------------------
(* The inductive invariant.                                                  *)

Jobs == [name : JobNames, left : 0..Attempts, stalls : 0..MaxStalls]
Settled == {"none", "ended", "failed", "lost"}
Answered == {"true", "false"}
Early == {"none", "transferToncoins", "confirmToncoinsTransfer", "deployWallet"}

\* A job that has settled is done with, and a handler waits only where it can.
Consistent(it, stage) ==
  /\ it.name \in Settled => it.left = 0 /\ stage = "idle"
  /\ it.name \notin Settled => it.left >= 1
  /\ stage = "write" => it.name = "confirmWalletDeploy"
  /\ stage = "send" => it.name \in {"transferToncoins", "deployWallet"}

\* What the job called name does, it does never while an earlier one is there, at most
\* once for every attempt that failed, every redelivery and the attempt that has ended,
\* and no more once it is over.
Counted(name, earlier, it, stage, times) ==
  /\ it.name \in earlier => times = 0
  /\ it.name = name =>
       times <= Attempts - it.left + it.stalls + (IF stage \in Answered THEN 1 ELSE 0)
  /\ times <= Attempts + MaxStalls

\* The giver is asked by transferToncoins, and confirmWalletDeploy writes to the row.
Accounted(it, stage, times) == Counted("transferToncoins", {"none"}, it, stage, times)
Written(it, stage, times) == Counted("confirmWalletDeploy", Early, it, stage, times)

\* A wallet has a request from the moment it has a row, and a job only once the request
\* has added it; a swap that has chosen it is one it may still be credited for.
RowInv(w) ==
  /\ wallet[w] = NoRow <=> request[w] = "none"
  /\ request[w] \in {"none", "giver", "add", "refused"} => job[w].name = "none"
  /\ Exists(w) /\ wallet[w].inUse => credits[w] < MaxCredits

\* A write wipes out a credit at most once, and the first of them none: up to it no swap
\* has the wallet and none has credited it, unless it was chosen early.
CreditInv(w) ==
  /\ wiped[w] <= zeroed[w]
  /\ w \notin early =>
       IF zeroed[w] = 0
       THEN Exists(w) => ~wallet[w].inUse /\ wallet[w].balance \in {Null, 0}
       ELSE wiped[w] < zeroed[w]

WalletInv(w) ==
  /\ Consistent(job[w], run[w])
  /\ Accounted(job[w], run[w], paid[w])
  /\ Written(job[w], run[w], zeroed[w])
  /\ RowInv(w)
  /\ CreditInv(w)

IInv == TypeOK /\ \A w \in New : WalletInv(w)

-----------------------------------------------------------------------------
(* Counting what a job does.                                                 *)

LEMMA CountedOnFailure ==
  ASSUME NEW name \in JobNames, NEW earlier \in SUBSET JobNames,
         name \notin earlier, "failed" \notin earlier, name # "failed",
         NEW it \in Jobs, NEW stage, stage \notin Answered, it.left >= 1,
         NEW times \in Nat, Counted(name, earlier, it, stage, times),
         NEW more \in Nat, more = times \/ (it.name = name /\ more = times + 1),
         NEW other \in Jobs,
         \/ /\ it.left > 1
            /\ other.name = it.name /\ other.stalls = it.stalls /\ other.left = it.left - 1
         \/ other.name = "failed"
  PROVE  Counted(name, earlier, other, "idle", more)
<1>1. /\ it.left \in 0..Attempts /\ it.stalls \in 0..MaxStalls
      /\ Attempts \in Nat /\ MaxStalls \in Nat
  BY DeployBounds DEF Jobs
<1>2. it.name = name => times <= Attempts - it.left + it.stalls
  BY <1>1 DEF Counted
<1>3. it.name = name => more <= Attempts - (it.left - 1) + it.stalls
  BY <1>1, <1>2
<1>4. more <= Attempts + MaxStalls
  <2>1. CASE it.name = name
    BY <1>1, <1>3, <2>1
  <2>2. CASE it.name # name
    BY <2>2 DEF Counted
  <2> QED
    BY <2>1, <2>2
<1>5. other.name \in earlier => more = 0
  BY DEF Counted
<1>6. other.name = name => more <= Attempts - other.left + other.stalls + 0
  BY <1>1, <1>3
<1> QED
  BY <1>4, <1>5, <1>6 DEF Counted, Answered

LEMMA CountedOnAnswer ==
  ASSUME NEW name \in JobNames, NEW earlier \in SUBSET JobNames, name \notin earlier,
         NEW it \in Jobs, NEW stage, stage \notin Answered, it.left >= 1,
         NEW times \in Nat, Counted(name, earlier, it, stage, times),
         NEW next, NEW more \in Nat,
         more = times \/ (it.name = name /\ more = times + 1 /\ next \in Answered)
  PROVE  Counted(name, earlier, it, next, more)
<1>1. /\ it.left \in 0..Attempts /\ it.stalls \in 0..MaxStalls
      /\ Attempts \in Nat /\ MaxStalls \in Nat
  BY DeployBounds DEF Jobs
<1>2. it.name = name => times <= Attempts - it.left + it.stalls
  BY <1>1 DEF Counted
<1>3. it.name = name
        => more <= Attempts - it.left + it.stalls + (IF next \in Answered THEN 1 ELSE 0)
  BY <1>1, <1>2
<1>4. more <= Attempts + MaxStalls
  <2>1. CASE more = times
    BY <2>1 DEF Counted
  <2>2. CASE it.name = name /\ more = times + 1
    BY <1>1, <1>2, <2>2
  <2> QED
    BY <2>1, <2>2
<1>5. it.name \in earlier => more = 0
  BY DEF Counted
<1> QED
  BY <1>3, <1>4, <1>5 DEF Counted

LEMMA CountedOnCrash ==
  ASSUME NEW name \in JobNames, NEW earlier \in SUBSET JobNames,
         {"failed", "lost"} \cap earlier = {}, name \notin {"failed", "lost"},
         NEW it \in Jobs, NEW stage,
         NEW times \in Nat, Counted(name, earlier, it, stage, times),
         NEW other \in Jobs,
         \/ other = it /\ stage = "idle"
         \/ /\ other.name = it.name /\ other.left = it.left
            /\ other.stalls = it.stalls + 1
         \/ other.name \in {"failed", "lost"}
  PROVE  Counted(name, earlier, other, "idle", times)
<1>1. /\ it.left \in 0..Attempts /\ it.stalls \in 0..MaxStalls
      /\ Attempts \in Nat /\ MaxStalls \in Nat
  BY DeployBounds DEF Jobs
<1>2. CASE other = it /\ stage = "idle"
  BY <1>2
<1>3. CASE /\ other.name = it.name /\ other.left = it.left
           /\ other.stalls = it.stalls + 1
  <2>1. it.name = name => times <= Attempts - it.left + it.stalls + 1
    BY <1>1 DEF Counted
  <2>2. other.name = name => times <= Attempts - other.left + other.stalls + 0
    BY <1>1, <1>3, <2>1
  <2> QED
    BY <1>3, <2>2 DEF Counted, Answered
<1>4. CASE other.name \in {"failed", "lost"}
  BY <1>4 DEF Counted
<1> QED
  BY <1>2, <1>3, <1>4

LEMMA CountedOnEnd ==
  ASSUME NEW name \in JobNames, NEW earlier \in SUBSET JobNames,
         NEW it \in Jobs, NEW stage,
         NEW times \in Nat, Counted(name, earlier, it, stage, times),
         NEW other \in Jobs,
         other.name \in earlier \cup {name} => it.name \in earlier,
         other.name = name => other.left = Attempts
  PROVE  Counted(name, earlier, other, "idle", times)
<1>1. other.left \in 0..Attempts /\ other.stalls \in 0..MaxStalls /\ Attempts \in Nat
  BY DeployBounds DEF Jobs
<1>2. other.name \in earlier \cup {name} => times = 0
  BY DEF Counted
<1>3. other.name = name => times <= Attempts - other.left + other.stalls + 0
  BY <1>1, <1>2
<1> QED
  BY <1>2, <1>3 DEF Counted, Answered

LEMMA Names ==
  /\ "transferToncoins" \in JobNames /\ "confirmWalletDeploy" \in JobNames
  /\ {"none"} \in SUBSET JobNames /\ Early \in SUBSET JobNames
  /\ "transferToncoins" \notin {"none"} /\ "confirmWalletDeploy" \notin Early
  /\ {"failed", "lost"} \cap {"none"} = {} /\ {"failed", "lost"} \cap Early = {}
  /\ "failed" \notin {"none"} /\ "failed" \notin Early
BY DEF JobNames, Early

\* Both counts at once: what the giver has been asked for, and what has been written.
LEMMA FailureCounts ==
  ASSUME NEW it \in Jobs, NEW stage, stage \notin Answered, it.left >= 1,
         NEW asked \in Nat, NEW asks \in Nat, NEW wrote \in Nat, NEW writes \in Nat,
         Accounted(it, stage, asked), Written(it, stage, wrote),
         asks = asked \/ (it.name = "transferToncoins" /\ asks = asked + 1),
         writes = wrote \/ (it.name = "confirmWalletDeploy" /\ writes = wrote + 1),
         NEW other \in Jobs,
         \/ /\ it.left > 1
            /\ other.name = it.name /\ other.stalls = it.stalls /\ other.left = it.left - 1
         \/ other.name = "failed"
  PROVE  Accounted(other, "idle", asks) /\ Written(other, "idle", writes)
<1>1. Accounted(other, "idle", asks)
  BY Names, CountedOnFailure DEF Accounted
<1>2. Written(other, "idle", writes)
  BY Names, CountedOnFailure DEF Written
<1> QED
  BY <1>1, <1>2

LEMMA AnswerCounts ==
  ASSUME NEW it \in Jobs, NEW stage, stage \notin Answered, it.left >= 1,
         NEW asked \in Nat, NEW asks \in Nat, NEW wrote \in Nat, NEW writes \in Nat,
         Accounted(it, stage, asked), Written(it, stage, wrote), NEW next,
         asks = asked \/ (it.name = "transferToncoins" /\ asks = asked + 1
                            /\ next \in Answered),
         writes = wrote \/ (it.name = "confirmWalletDeploy" /\ writes = wrote + 1
                              /\ next \in Answered)
  PROVE  Accounted(it, next, asks) /\ Written(it, next, writes)
<1>1. Accounted(it, next, asks)
  BY Names, CountedOnAnswer DEF Accounted
<1>2. Written(it, next, writes)
  BY Names, CountedOnAnswer DEF Written
<1> QED
  BY <1>1, <1>2

LEMMA CrashCounts ==
  ASSUME NEW it \in Jobs, NEW stage, NEW asked \in Nat, NEW wrote \in Nat,
         Accounted(it, stage, asked), Written(it, stage, wrote), NEW other \in Jobs,
         \/ other = it /\ stage = "idle"
         \/ /\ other.name = it.name /\ other.left = it.left
            /\ other.stalls = it.stalls + 1
         \/ other.name \in {"failed", "lost"}
  PROVE  Accounted(other, "idle", asked) /\ Written(other, "idle", wrote)
<1>1. Accounted(other, "idle", asked)
  BY Names, CountedOnCrash DEF Accounted
<1>2. Written(other, "idle", wrote)
  BY Names, CountedOnCrash DEF Written
<1> QED
  BY <1>1, <1>2

\* A job that is over, or the one that follows it.
LEMMA EndCounts ==
  ASSUME NEW it \in Jobs, NEW stage, NEW asked \in Nat, NEW wrote \in Nat,
         Accounted(it, stage, asked), Written(it, stage, wrote), NEW other \in Jobs,
         other.name \notin {"none", "transferToncoins"},
         other.name \in Early \/ other.name = "confirmWalletDeploy" => it.name \in Early,
         other.name = "confirmWalletDeploy" => other.left = Attempts
  PROVE  Accounted(other, "idle", asked) /\ Written(other, "idle", wrote)
<1>1. Accounted(other, "idle", asked)
  BY Names, CountedOnEnd DEF Accounted
<1>2. other.name \in Early \cup {"confirmWalletDeploy"} => it.name \in Early
  OBVIOUS
<1>3. Written(other, "idle", wrote)
  BY <1>2, Names, CountedOnEnd DEF Written
<1> QED
  BY <1>1, <1>3

-----------------------------------------------------------------------------
(* Steps that concern one wallet.                                            *)

OthersStay(w) ==
  \A v \in New \ {w} :
    /\ job'[v] = job[v] /\ run'[v] = run[v] /\ paid'[v] = paid[v]
    /\ request'[v] = request[v] /\ zeroed'[v] = zeroed[v] /\ wiped'[v] = wiped[v]
    /\ wallet'[v] = wallet[v] /\ credits'[v] = credits[v]
    /\ v \in early => v \in early'

\* What holds of the wallets a step leaves alone goes on holding.
LEMMA OneWallet ==
  ASSUME IInv, NEW w \in New, TypeOK', OthersStay(w), WalletInv(w)'
  PROVE  IInv'
<1> SUFFICES ASSUME NEW v \in New \ {w}
             PROVE  WalletInv(v)'
  BY DEF IInv
<1>1. WalletInv(v)
  BY DEF IInv
<1>2. /\ job'[v] = job[v] /\ run'[v] = run[v] /\ paid'[v] = paid[v]
      /\ request'[v] = request[v] /\ zeroed'[v] = zeroed[v] /\ wiped'[v] = wiped[v]
      /\ wallet'[v] = wallet[v] /\ credits'[v] = credits[v]
      /\ v \in early => v \in early'
  BY DEF OthersStay
<1>3. Consistent(job[v], run[v])' /\ Accounted(job[v], run[v], paid[v])'
  BY <1>1, <1>2 DEF WalletInv, Consistent, Accounted, Counted
<1>4. Written(job[v], run[v], zeroed[v])'
  BY <1>1, <1>2 DEF WalletInv, Written, Counted
<1>5. RowInv(v)'
  BY <1>1, <1>2 DEF WalletInv, RowInv, Exists
<1>6. CreditInv(v)'
  BY <1>1, <1>2 DEF WalletInv, CreditInv, Exists
<1> QED
  BY <1>3, <1>4, <1>5, <1>6 DEF WalletInv

\* A step of the queue: the table stays, and so does what is known of it.
LEMMA QueueStep ==
  ASSUME IInv, NEW w \in New,
         UNCHANGED <<wallet, request, coins, active, credits, zeroed, wiped, early>>,
         job' \in [New -> Jobs], run' \in [New -> RunStages], paid' \in [New -> Nat],
         sent' \in [New -> [toncoins : Nat, code : Nat]],
         \A v \in New \ {w} : job'[v] = job[v] /\ run'[v] = run[v] /\ paid'[v] = paid[v],
         job[w].name # "none",
         Consistent(job'[w], run'[w]), Accounted(job'[w], run'[w], paid'[w]),
         Written(job'[w], run'[w], zeroed[w])
  PROVE  IInv'
<1>1. TypeOK'
  BY DEF IInv, TypeOK, TableOK, Jobs
<1>2. OthersStay(w)
  BY DEF OthersStay
<1>3. RowInv(w) /\ CreditInv(w)
  BY DEF IInv, WalletInv
<1>4. RowInv(w)'
  BY <1>3 DEF RowInv, Exists
<1>5. CreditInv(w)'
  BY <1>3 DEF CreditInv, Exists
<1> QED
  BY <1>1, <1>2, <1>4, <1>5, OneWallet DEF WalletInv

-----------------------------------------------------------------------------
(* The queue.                                                                *)

LEMMA JobsMade ==
  ASSUME NEW name \in JobNames
  PROVE  /\ NewJob(name) \in Jobs /\ Over(name) \in Jobs
         /\ NewJob(name).name = name /\ NewJob(name).left = Attempts
         /\ NewJob(name).stalls = 0
         /\ Over(name).name = name /\ Over(name).left = 0
BY DeployBounds DEF NewJob, Over, Jobs

LEMMA QueueTyped ==
  ASSUME IInv
  PROVE  /\ job \in [New -> Jobs] /\ run \in [New -> RunStages] /\ paid \in [New -> Nat]
         /\ request \in [New -> RequestStages]
         /\ zeroed \in [New -> Nat] /\ wiped \in [New -> Nat]
         /\ sent \in [New -> [toncoins : Nat, code : Nat]]
         /\ \A w \in New :
              /\ job[w] \in Jobs /\ job[w].name \in JobNames
              /\ job[w].left \in 0..Attempts /\ job[w].stalls \in 0..MaxStalls
              /\ paid[w] \in Nat /\ zeroed[w] \in Nat /\ wiped[w] \in Nat
<1>1. /\ job \in [New -> Jobs] /\ run \in [New -> RunStages] /\ paid \in [New -> Nat]
      /\ request \in [New -> RequestStages]
      /\ zeroed \in [New -> Nat] /\ wiped \in [New -> Nat]
      /\ sent \in [New -> [toncoins : Nat, code : Nat]]
  BY DEF IInv, TypeOK, Jobs
<1>2. \A it \in Jobs : /\ it.name \in JobNames
                       /\ it.left \in 0..Attempts /\ it.stalls \in 0..MaxStalls
  BY DEF Jobs
<1> QED
  BY <1>1, <1>2

\* A handler waits for its next step, or has answered; its job is the same.
LEMMA GotoEffect ==
  ASSUME IInv, NEW w \in New, NEW stage \in RunStages, Goto(w, stage)
  PROVE  /\ job' \in [New -> Jobs] /\ run' \in [New -> RunStages]
         /\ job' = job /\ run'[w] = stage
         /\ \A v \in New \ {w} : job'[v] = job[v] /\ run'[v] = run[v]
BY QueueTyped DEF Goto

LEMMA RetriedJob ==
  ASSUME NEW it \in Jobs
  PROVE  /\ Retried(it) \in Jobs
         /\ it.left > 1 => /\ Retried(it).name = it.name /\ Retried(it).stalls = it.stalls
                           /\ Retried(it).left = it.left - 1
         /\ ~(it.left > 1) => Retried(it).name = "failed" /\ Retried(it).left = 0
<1>1. it.left > 1 => /\ Retried(it) \in Jobs
                     /\ Retried(it).name = it.name /\ Retried(it).stalls = it.stalls
                     /\ Retried(it).left = it.left - 1
  BY DeployBounds DEF Retried, Jobs
<1>2. Over("failed") \in Jobs /\ Over("failed").name = "failed" /\ Over("failed").left = 0
  BY JobsMade DEF JobNames
<1>3. ~(it.left > 1) => Retried(it) = Over("failed")
  BY DEF Retried
<1> QED
  BY <1>1, <1>2, <1>3

\* One attempt less, or none is left.
LEMMA FailsEffect ==
  ASSUME IInv, NEW w \in New, Fails(w)
  PROVE  /\ job' \in [New -> Jobs] /\ run' \in [New -> RunStages]
         /\ run'[w] = "idle"
         /\ \A v \in New \ {w} : job'[v] = job[v] /\ run'[v] = run[v]
         /\ \/ /\ job[w].left > 1
               /\ job'[w].name = job[w].name /\ job'[w].stalls = job[w].stalls
               /\ job'[w].left = job[w].left - 1
            \/ /\ job'[w].name = "failed" /\ job'[w].left = 0
<1>1. job \in [New -> Jobs] /\ run \in [New -> RunStages] /\ job[w] \in Jobs
      /\ job[w].left \in 0..Attempts
  BY QueueTyped
<1>2. /\ run' \in [New -> RunStages] /\ run'[w] = "idle"
      /\ \A v \in New \ {w} : run'[v] = run[v]
  BY <1>1 DEF Fails, RunStages
<1>3. CASE job[w].left > 1
  BY <1>1, <1>2, <1>3, RetriedJob DEF Fails
<1>4. CASE ~(job[w].left > 1)
  BY <1>1, <1>2, <1>4, RetriedJob DEF Fails
<1> QED
  BY <1>3, <1>4

\* The listener hands over to the next job, or the chain ends.
LEMMA CompletedEffect ==
  ASSUME IInv, NEW w \in New, NEW name, NEW next \in Jobs, Completed(w, name, next)
  PROVE  /\ job' \in [New -> Jobs] /\ run' \in [New -> RunStages]
         /\ job[w].name = name /\ run[w] \in Answered /\ run'[w] = "idle"
         /\ \A v \in New \ {w} : job'[v] = job[v] /\ run'[v] = run[v]
         /\ \/ job'[w] = next
            \/ job'[w] = Over("ended")
         /\ UNCHANGED <<wallet, request, paid, tonVars, credits, history, bounds>>
<1>1. job \in [New -> Jobs] /\ run \in [New -> RunStages]
  BY QueueTyped
<1>2. run' = [run EXCEPT ![w] = "idle"] /\ "idle" \in RunStages
  BY DEF Completed, RunStages
<1> DEFINE done == Over("ended")
           then == IF run[w] = "true" THEN next ELSE done
<1>3. done \in Jobs
  BY JobsMade DEF JobNames
<1>4. job' = [job EXCEPT ![w] = then]
  BY DEF Completed
<1> HIDE DEF done
<1>5. then \in Jobs /\ (then = next \/ then = done)
  BY <1>3
<1> HIDE DEF then
<1>6. /\ job' \in [New -> Jobs] /\ job'[w] = then
      /\ \A v \in New \ {w} : job'[v] = job[v]
  BY <1>1, <1>4, <1>5
<1>7. /\ run' \in [New -> RunStages] /\ run'[w] = "idle"
      /\ \A v \in New \ {w} : run'[v] = run[v]
  BY <1>1, <1>2
<1>8. job[w].name = name /\ run[w] \in Answered
  BY DEF Completed, Answered
<1>9. UNCHANGED <<wallet, request, paid, tonVars, credits, history, bounds>>
  BY DEF Completed
<1> QED
  BY <1>5, <1>6, <1>7, <1>8, <1>9 DEF done

-----------------------------------------------------------------------------
(* One lemma per handler, and one per listener.                              *)

\* An attempt that throws, after it has asked the giver to pay or without.
LEMMA FailingStep ==
  ASSUME IInv, NEW w \in New, job[w].name \notin Settled, run[w] \notin Answered, Fails(w),
         UNCHANGED <<wallet, request, coins, active, credits, zeroed, wiped, early>>,
         sent' \in [New -> [toncoins : Nat, code : Nat]], paid' \in [New -> Nat],
         \A v \in New \ {w} : paid'[v] = paid[v],
         \/ paid'[w] = paid[w]
         \/ job[w].name = "transferToncoins" /\ paid'[w] = paid[w] + 1
  PROVE  IInv'
<1>1. /\ job' \in [New -> Jobs] /\ run' \in [New -> RunStages]
      /\ run'[w] = "idle"
      /\ \A v \in New \ {w} : job'[v] = job[v] /\ run'[v] = run[v]
      /\ \/ /\ job[w].left > 1
            /\ job'[w].name = job[w].name /\ job'[w].stalls = job[w].stalls
            /\ job'[w].left = job[w].left - 1
         \/ /\ job'[w].name = "failed" /\ job'[w].left = 0
  BY FailsEffect
<1>2. /\ Consistent(job[w], run[w]) /\ Accounted(job[w], run[w], paid[w])
      /\ Written(job[w], run[w], zeroed[w])
  BY DEF IInv, WalletInv
<1>3. /\ job[w] \in Jobs /\ job'[w] \in Jobs /\ job[w].left >= 1
      /\ paid[w] \in Nat /\ paid'[w] \in Nat /\ zeroed[w] \in Nat
  BY <1>1, <1>2, QueueTyped DEF Consistent
<1>4. Consistent(job'[w], run'[w])
  BY <1>1, <1>2, QueueTyped DEF Consistent, Settled
<1>5. /\ Accounted(job'[w], "idle", paid'[w])
      /\ Written(job'[w], "idle", zeroed[w])
  <2>1. PICK it \in Jobs, other \in Jobs : it = job[w] /\ other = job'[w]
    BY <1>3
  <2>2. PICK asked \in Nat, asks \in Nat, wrote \in Nat :
          asked = paid[w] /\ asks = paid'[w] /\ wrote = zeroed[w]
    BY <1>3
  <2>3. asks = asked \/ (it.name = "transferToncoins" /\ asks = asked + 1)
    BY <2>1, <2>2
  <2>4. \/ /\ it.left > 1
           /\ other.name = it.name /\ other.stalls = it.stalls /\ other.left = it.left - 1
        \/ other.name = "failed"
    BY <1>1, <2>1
  <2>5. Accounted(it, run[w], asked) /\ Written(it, run[w], wrote) /\ it.left >= 1
    BY <1>2, <1>3, <2>1, <2>2
  <2>6. Accounted(other, "idle", asks) /\ Written(other, "idle", wrote)
    BY <2>3, <2>4, <2>5, FailureCounts
  <2> QED
    BY <2>1, <2>2, <2>6
<1>6. job[w].name # "none"
  BY DEF Settled
<1> QED
  BY <1>1, <1>4, <1>5, <1>6, QueueStep

\* A handler that only reads: it goes on, answers, or throws.
LEMMA ReadingStep ==
  ASSUME IInv, NEW w \in New, NEW name \in JobNames \ Settled, NEW stage \in RunStages,
         Takes(w, name), Goto(w, stage) \/ Fails(w),
         stage = "write" => name = "confirmWalletDeploy",
         stage = "send" => name \in {"transferToncoins", "deployWallet"},
         UNCHANGED <<wallet, request, paid, tonVars, credits, history, bounds>>
  PROVE  IInv'
<1>1. /\ job[w].name = name /\ run[w] = "idle" /\ name \notin Settled
      /\ Consistent(job[w], "idle") /\ Accounted(job[w], "idle", paid[w])
      /\ Written(job[w], "idle", zeroed[w])
  BY DEF Takes, IInv, WalletInv
<1>2. /\ job[w] \in Jobs /\ paid[w] \in Nat /\ zeroed[w] \in Nat
      /\ paid \in [New -> Nat] /\ sent \in [New -> [toncoins : Nat, code : Nat]]
      /\ job[w].left >= 1
  BY <1>1, QueueTyped DEF Consistent
<1>3. UNCHANGED <<wallet, request, coins, active, credits, zeroed, wiped, early, paid, sent>>
  BY DEF tonVars, history
<1>4. CASE Goto(w, stage)
  <2>1. /\ job' \in [New -> Jobs] /\ run' \in [New -> RunStages]
        /\ job' = job /\ run'[w] = stage
        /\ \A v \in New \ {w} : job'[v] = job[v] /\ run'[v] = run[v]
    BY <1>4, GotoEffect
  <2>2. Consistent(job'[w], run'[w])
    BY <1>1, <2>1 DEF Consistent
  <2>3. "idle" \notin Answered
    BY DEF Answered
  <2>4. Accounted(job[w], stage, paid[w]) /\ Written(job[w], stage, zeroed[w])
    BY <1>1, <1>2, <2>3, AnswerCounts
  <2>5. job[w].name # "none" /\ job'[w] = job[w] /\ paid'[w] = paid[w]
    BY <1>1, <1>3, <2>1 DEF Settled
  <2> QED
    BY <1>2, <1>3, <2>1, <2>2, <2>4, <2>5, QueueStep
<1>5. CASE Fails(w)
  BY <1>1, <1>2, <1>3, <1>5, FailingStep DEF Answered
<1> QED
  BY <1>4, <1>5

LEMMA HandlerThrowsInv ==
  ASSUME IInv, NEW w \in New, HandlerThrows(w)
  PROVE  IInv'
<1>1. job[w].name \notin Settled
  BY QueueTyped DEF IInv, WalletInv, Consistent, HandlerThrows
<1>2. run[w] \notin Answered
  BY DEF HandlerThrows, Answered
<1>3. /\ sent' \in [New -> [toncoins : Nat, code : Nat]] /\ paid' \in [New -> Nat]
      /\ paid' = paid
      /\ UNCHANGED <<wallet, request, coins, active, credits, zeroed, wiped, early>>
      /\ Fails(w)
  BY QueueTyped DEF HandlerThrows, tonVars, history
<1> QED
  BY <1>1, <1>2, <1>3, FailingStep

\* A handler that hands a message to TON, and returns or throws.
LEMMA SendingStep ==
  ASSUME IInv, NEW w \in New, job[w].name \in {"transferToncoins", "deployWallet"},
         run[w] = "send", Goto(w, "true") \/ Fails(w),
         UNCHANGED <<wallet, request, coins, active, credits, zeroed, wiped, early>>,
         sent' \in [New -> [toncoins : Nat, code : Nat]], paid' \in [New -> Nat],
         \A v \in New \ {w} : paid'[v] = paid[v],
         paid'[w] = IF job[w].name = "transferToncoins" THEN paid[w] + 1 ELSE paid[w]
  PROVE  IInv'
<1>1. job[w].name \notin Settled /\ run[w] \notin Answered
  BY DEF Settled, Answered
<1>2. CASE Fails(w)
  BY <1>1, <1>2, FailingStep
<1>3. CASE Goto(w, "true")
  <2>1. /\ job' \in [New -> Jobs] /\ run' \in [New -> RunStages]
        /\ job' = job /\ run'[w] = "true"
        /\ \A v \in New \ {w} : job'[v] = job[v] /\ run'[v] = run[v]
    BY <1>3, GotoEffect DEF RunStages
  <2>2. /\ Consistent(job[w], run[w]) /\ Accounted(job[w], run[w], paid[w])
        /\ Written(job[w], run[w], zeroed[w])
    BY DEF IInv, WalletInv
  <2>3. /\ job[w] \in Jobs /\ job[w].left >= 1
        /\ paid[w] \in Nat /\ paid'[w] \in Nat /\ zeroed[w] \in Nat
    BY <1>1, <2>2, QueueTyped DEF Consistent
  <2>4. Consistent(job'[w], run'[w])
    BY <1>1, <2>1, <2>2 DEF Consistent
  <2>5. paid'[w] = paid[w] \/ (job[w].name = "transferToncoins" /\ paid'[w] = paid[w] + 1)
    BY DEF Settled
  <2>6. "true" \in Answered
    BY DEF Answered
  <2>7. Accounted(job[w], "true", paid'[w]) /\ Written(job[w], "true", zeroed[w])
    BY <1>1, <2>2, <2>3, <2>5, <2>6, AnswerCounts
  <2>8. job[w].name # "none" /\ job'[w] = job[w]
    BY <1>1, <2>1 DEF Settled
  <2> QED
    BY <2>1, <2>4, <2>7, <2>8, QueueStep
<1> QED
  BY <1>2, <1>3

LEMMA TransferToncoinsReadInv ==
  ASSUME IInv, NEW w \in New, TransferToncoinsRead(w)
  PROVE  IInv'
<1>1. PICK stage \in {"send", "false"} : Goto(w, stage)
  BY DEF TransferToncoinsRead
<1>2. Takes(w, "transferToncoins")
      /\ UNCHANGED <<wallet, request, paid, tonVars, credits, history, bounds>>
  BY DEF TransferToncoinsRead
<1> QED
  BY <1>1, <1>2, ReadingStep DEF JobNames, Settled, RunStages

\* What is handed to TON waits to be carried out.
LEMMA TransferToncoinsSendInv ==
  ASSUME IInv, NEW w \in New, TransferToncoinsSend(w)
  PROVE  IInv'
<1>1. /\ paid' \in [New -> Nat] /\ paid'[w] = paid[w] + 1
      /\ \A v \in New \ {w} : paid'[v] = paid[v]
  BY QueueTyped DEF TransferToncoinsSend, history
<1>2. sent' \in [New -> [toncoins : Nat, code : Nat]]
  BY QueueTyped DEF TransferToncoinsSend, history
<1>3. /\ job[w].name = "transferToncoins" /\ run[w] = "send"
      /\ Goto(w, "true") \/ Fails(w)
      /\ UNCHANGED <<wallet, request, coins, active, credits, zeroed, wiped, early>>
  BY DEF TransferToncoinsSend, At, history
<1> QED
  BY <1>1, <1>2, <1>3, SendingStep

\* The listener of a job that has done what it is for, and the next one.
LEMMA CompletedStep ==
  ASSUME IInv, NEW w \in New, NEW name \in JobNames \ Settled, NEW next \in Jobs,
         Completed(w, name, next),
         \/ next.name \notin Settled /\ next.left = Attempts /\ next.stalls = 0
         \/ next = Over("ended"),
         next.name # "transferToncoins",
         name = "confirmWalletDeploy" => next.name = "ended",
         next.name = "confirmWalletDeploy" => name \in Early,
         next.name \in Early => name \in Early
  PROVE  IInv'
<1>1. /\ job' \in [New -> Jobs] /\ run' \in [New -> RunStages]
      /\ job[w].name = name /\ run[w] \in Answered /\ run'[w] = "idle"
      /\ \A v \in New \ {w} : job'[v] = job[v] /\ run'[v] = run[v]
      /\ job'[w] = next \/ job'[w] = Over("ended")
      /\ UNCHANGED <<wallet, request, paid, tonVars, credits, history, bounds>>
  BY CompletedEffect
<1>2. Over("ended").name = "ended" /\ Over("ended").left = 0
  BY JobsMade DEF JobNames
<1>3. /\ Accounted(job[w], run[w], paid[w]) /\ Written(job[w], run[w], zeroed[w])
      /\ paid[w] \in Nat /\ zeroed[w] \in Nat /\ job[w] \in Jobs /\ job'[w] \in Jobs
  BY <1>1, QueueTyped DEF IInv, WalletInv
<1>4. Consistent(job'[w], run'[w])
  BY <1>1, <1>2, DeployBounds DEF Consistent, Settled
<1>5. job'[w].name \notin {"none", "transferToncoins"}
  BY <1>1, <1>2 DEF Settled
<1>6. /\ paid' = paid
      /\ UNCHANGED <<wallet, request, coins, active, credits, zeroed, wiped, early>>
      /\ paid' \in [New -> Nat] /\ sent' \in [New -> [toncoins : Nat, code : Nat]]
      /\ job[w].name # "none"
  BY <1>1, QueueTyped DEF tonVars, bounds, history, Settled
<1>7. /\ job'[w].name \in Early \/ job'[w].name = "confirmWalletDeploy"
           => job[w].name \in Early
      /\ job'[w].name = "confirmWalletDeploy" => job'[w].left = Attempts
  BY <1>1, <1>2 DEF Early, Settled
<1>8. Accounted(job'[w], "idle", paid[w]) /\ Written(job'[w], "idle", zeroed[w])
  BY <1>3, <1>5, <1>7, EndCounts
<1> QED
  BY <1>1, <1>4, <1>6, <1>8, QueueStep

\* The listener throws: no job follows.
LEMMA ListenerThrowsInv ==
  ASSUME IInv, NEW w \in New, ListenerThrows(w)
  PROVE  IInv'
<1>1. /\ job \in [New -> Jobs] /\ run \in [New -> RunStages] /\ job[w] \in Jobs
      /\ paid[w] \in Nat /\ zeroed[w] \in Nat
      /\ paid \in [New -> Nat] /\ sent \in [New -> [toncoins : Nat, code : Nat]]
  BY QueueTyped
<1>2. /\ Over("lost") \in Jobs /\ Over("lost").name = "lost" /\ Over("lost").left = 0
  BY JobsMade DEF JobNames
<1>3. /\ run[w] = "true" /\ run' = [run EXCEPT ![w] = "idle"]
      /\ job' = [job EXCEPT ![w] = Over("lost")]
      /\ UNCHANGED <<wallet, request, paid, sent, coins, active, credits, zeroed, wiped, early>>
  BY DEF ListenerThrows, tonVars, history
<1>4. /\ job' \in [New -> Jobs] /\ run' \in [New -> RunStages]
      /\ job'[w].name = "lost" /\ job'[w].left = 0 /\ run'[w] = "idle"
      /\ \A v \in New \ {w} : job'[v] = job[v] /\ run'[v] = run[v]
  BY <1>1, <1>2, <1>3 DEF RunStages
<1>5. /\ Consistent(job[w], run[w]) /\ Accounted(job[w], run[w], paid[w])
      /\ Written(job[w], run[w], zeroed[w])
  BY DEF IInv, WalletInv
<1>6. Consistent(job'[w], run'[w])
  BY <1>4 DEF Consistent, Settled
<1>7. job'[w] \in Jobs /\ "lost" \notin Early /\ job[w].name # "none"
  BY <1>3, <1>4, <1>5 DEF Early, Consistent, Settled
<1>8. Accounted(job'[w], "idle", paid[w]) /\ Written(job'[w], "idle", zeroed[w])
  BY <1>1, <1>4, <1>5, <1>7, EndCounts
<1>9. paid' = paid
  BY DEF ListenerThrows
<1> QED
  BY <1>1, <1>3, <1>4, <1>6, <1>7, <1>8, <1>9, QueueStep

LEMMA OnTransferToncoinsCompletedInv ==
  ASSUME IInv, NEW w \in New, OnTransferToncoinsCompleted(w)
  PROVE  IInv'
<1> DEFINE next == NewJob("confirmToncoinsTransfer")
<1>1. /\ next \in Jobs /\ next.name = "confirmToncoinsTransfer"
      /\ next.left = Attempts /\ next.stalls = 0
  BY JobsMade DEF JobNames
<1>2. Completed(w, "transferToncoins", next)
  BY DEF OnTransferToncoinsCompleted
<1> HIDE DEF next
<1> QED
  BY <1>1, <1>2, CompletedStep DEF JobNames, Settled, Early

LEMMA ConfirmToncoinsTransferInv ==
  ASSUME IInv, NEW w \in New, ConfirmToncoinsTransfer(w)
  PROVE  IInv'
<1>1. \E stage \in {"true", "false"} : Goto(w, stage) \/ Fails(w)
  BY DEF ConfirmToncoinsTransfer
<1>2. Takes(w, "confirmToncoinsTransfer")
      /\ UNCHANGED <<wallet, request, paid, tonVars, credits, history, bounds>>
  BY DEF ConfirmToncoinsTransfer
<1> QED
  BY <1>1, <1>2, ReadingStep DEF JobNames, Settled, RunStages

LEMMA OnConfirmToncoinsTransferCompletedInv ==
  ASSUME IInv, NEW w \in New, OnConfirmToncoinsTransferCompleted(w)
  PROVE  IInv'
<1> DEFINE next == NewJob("deployWallet")
<1>1. /\ next \in Jobs /\ next.name = "deployWallet"
      /\ next.left = Attempts /\ next.stalls = 0
  BY JobsMade DEF JobNames
<1>2. Completed(w, "confirmToncoinsTransfer", next)
  BY DEF OnConfirmToncoinsTransferCompleted
<1> HIDE DEF next
<1> QED
  BY <1>1, <1>2, CompletedStep DEF JobNames, Settled, Early

LEMMA DeployWalletReadInv ==
  ASSUME IInv, NEW w \in New, DeployWalletRead(w)
  PROVE  IInv'
<1>1. PICK stage \in {"send", "false"} : Goto(w, stage)
  BY DEF DeployWalletRead
<1>2. Takes(w, "deployWallet")
      /\ UNCHANGED <<wallet, request, paid, tonVars, credits, history, bounds>>
  BY DEF DeployWalletRead
<1> QED
  BY <1>1, <1>2, ReadingStep DEF JobNames, Settled, RunStages

LEMMA DeployWalletSendInv ==
  ASSUME IInv, NEW w \in New, DeployWalletSend(w)
  PROVE  IInv'
<1>1. paid' = paid /\ paid' \in [New -> Nat]
  BY QueueTyped DEF DeployWalletSend
<1>2. sent' \in [New -> [toncoins : Nat, code : Nat]]
  BY QueueTyped DEF DeployWalletSend
<1>3. /\ job[w].name = "deployWallet" /\ run[w] = "send"
      /\ Goto(w, "true") \/ Fails(w)
      /\ UNCHANGED <<wallet, request, coins, active, credits, zeroed, wiped, early>>
  BY DEF DeployWalletSend, At, history
<1> QED
  BY <1>1, <1>2, <1>3, SendingStep

LEMMA OnDeployWalletCompletedInv ==
  ASSUME IInv, NEW w \in New, OnDeployWalletCompleted(w)
  PROVE  IInv'
<1> DEFINE next == NewJob("confirmWalletDeploy")
<1>1. /\ next \in Jobs /\ next.name = "confirmWalletDeploy"
      /\ next.left = Attempts /\ next.stalls = 0
  BY JobsMade DEF JobNames
<1>2. Completed(w, "deployWallet", next)
  BY DEF OnDeployWalletCompleted
<1> HIDE DEF next
<1> QED
  BY <1>1, <1>2, CompletedStep DEF JobNames, Settled, Early

LEMMA ConfirmWalletDeployReadInv ==
  ASSUME IInv, NEW w \in New, ConfirmWalletDeployRead(w)
  PROVE  IInv'
<1>1. \E stage \in {"write", "false"} : Goto(w, stage) \/ Fails(w)
  BY DEF ConfirmWalletDeployRead
<1>2. Takes(w, "confirmWalletDeploy")
      /\ UNCHANGED <<wallet, request, paid, tonVars, credits, history, bounds>>
  BY DEF ConfirmWalletDeployRead
<1> QED
  BY <1>1, <1>2, ReadingStep DEF JobNames, Settled, RunStages

LEMMA OnConfirmWalletDeployCompletedInv ==
  ASSUME IInv, NEW w \in New, OnConfirmWalletDeployCompleted(w)
  PROVE  IInv'
<1> DEFINE next == Over("ended")
<1>1. next \in Jobs /\ next.name = "ended"
  BY JobsMade DEF JobNames
<1>2. Completed(w, "confirmWalletDeploy", next)
  BY DEF OnConfirmWalletDeployCompleted
<1>3. next = Over("ended")
  OBVIOUS
<1> HIDE DEF next
<1> QED
  BY <1>1, <1>2, <1>3, CompletedStep DEF JobNames, Settled, Early

-----------------------------------------------------------------------------
(* Steps that write to the table.                                            *)

\* An update keeps a row a row and writes the columns it names.
LEMMA UpdatedRow ==
  ASSUME TableOK, NEW w \in Wallets, NEW columns, Exists(w),
         \A c \in DOMAIN columns \cap Columns : columns[c] \in Entries(c)
  PROVE  /\ Updated(w, columns) \in Row
         /\ \A c \in Columns : Updated(w, columns)[c]
              = IF c \in DOMAIN columns THEN columns[c] ELSE wallet[w][c]
<1>1. wallet[w] \in Row
  BY DEF TableOK, Exists
<1>2. DOMAIN wallet[w] = Columns
  BY <1>1 DEF Row, Columns
<1>3. Updated(w, columns)
        = [c \in Columns |-> IF c \in DOMAIN columns THEN columns[c] ELSE wallet[w][c]]
  BY <1>2 DEF Updated
<1>4. \A c \in Columns : wallet[w][c] \in Entries(c)
  BY <1>1 DEF Row, Columns, Entries
<1>5. \A c \in Columns : Updated(w, columns)[c] \in Entries(c)
  BY <1>3, <1>4
<1>6. Updated(w, columns) \in Row
  BY <1>3, <1>5 DEF Row, Columns, Entries
<1> QED
  BY <1>3, <1>6

\* update() of one row touches no other, and neither makes nor removes one.
LEMMA UpdateEffect ==
  ASSUME TableOK, NEW w \in Wallets, NEW columns, Update(w, columns),
         \A c \in DOMAIN columns \cap Columns : columns[c] \in Entries(c)
  PROVE  /\ TableOK'
         /\ \A v \in Wallets \ {w} : wallet'[v] = wallet[v]
         /\ wallet'[w] = NoRow <=> wallet[w] = NoRow
         /\ Exists(w)' <=> Exists(w)
         /\ Exists(w) => \A c \in Columns : wallet'[w][c]
              = IF c \in DOMAIN columns THEN columns[c] ELSE wallet[w][c]
<1>1. /\ wallet'[w] = Updated(w, columns)
      /\ wallet' \in [Wallets -> {Updated(w, columns)} \cup Row \cup {NoRow, Deleted}]
      /\ \A v \in Wallets \ {w} : wallet'[v] = wallet[v]
  BY DEF Update, TableOK
<1>2. CASE Exists(w)
  <2>1. /\ Updated(w, columns) \in Row
        /\ \A c \in Columns : Updated(w, columns)[c]
             = IF c \in DOMAIN columns THEN columns[c] ELSE wallet[w][c]
    BY <1>2, UpdatedRow
  <2>2. Updated(w, columns) \notin {NoRow, Deleted}
    BY <2>1 DEF Row, Types, NoRow, Deleted
  <2>3. TableOK'
    BY <1>1, <2>1 DEF TableOK
  <2>4. Exists(w)' /\ wallet'[w] # NoRow /\ wallet[w] # NoRow
    BY <1>1, <1>2, <2>2 DEF Exists
  <2> QED
    BY <1>1, <1>2, <2>1, <2>3, <2>4
<1>3. CASE ~Exists(w)
  <2>1. Updated(w, columns) = [c \in DOMAIN wallet[w] |-> wallet[w][c]]
    BY <1>3 DEF Updated
  <2>2. wallet[w] \in {NoRow, Deleted}
    BY <1>3 DEF Exists
  <2>3. Updated(w, columns) = wallet[w]
    BY <2>1, <2>2 DEF NoRow, Deleted
  <2>4. TableOK'
    BY <1>1, <2>2, <2>3 DEF TableOK
  <2>5. ~Exists(w)'
    BY <1>1, <1>3, <2>3 DEF Exists
  <2> QED
    BY <1>1, <1>3, <2>3, <2>4, <2>5
<1> QED
  BY <1>2, <1>3

LEMMA EntriesOf ==
  /\ Entries("balance") = Balances /\ 0 \in Balances
  /\ Entries("inUse") = BOOLEAN /\ Entries("deployed") = BOOLEAN
BY DEF Entries, Balances

\* A step of the table at one wallet, whose jobs stay where they are.
LEMMA RowStep ==
  ASSUME IInv, NEW w \in New, TableOK',
         UNCHANGED <<job, run, request, paid, coins, active, zeroed, wiped>>,
         sent' \in [New -> [toncoins : Nat, code : Nat]],
         credits' \in [New -> 0..MaxCredits], early' \subseteq New, early \subseteq early',
         \A v \in New \ {w} : wallet'[v] = wallet[v] /\ credits'[v] = credits[v],
         RowInv(w)', CreditInv(w)'
  PROVE  IInv'
<1>1. TypeOK'
  BY DEF IInv, TypeOK
<1>2. OthersStay(w)
  BY DEF OthersStay
<1>3. Consistent(job[w], run[w])' /\ Accounted(job[w], run[w], paid[w])'
  BY DEF IInv, WalletInv, Consistent, Accounted, Counted
<1>4. Written(job[w], run[w], zeroed[w])'
  BY DEF IInv, WalletInv, Written, Counted
<1> QED
  BY <1>1, <1>2, <1>3, <1>4, OneWallet DEF WalletInv

\* The types of what these steps read.
LEMMA TableTyped ==
  ASSUME IInv
  PROVE  /\ TableOK /\ credits \in [New -> 0..MaxCredits] /\ early \subseteq New
         /\ MaxCredits \in Nat
         /\ \A w \in New :
              /\ w \in Wallets /\ RowInv(w) /\ CreditInv(w)
              /\ zeroed[w] \in Nat /\ wiped[w] \in Nat
              /\ Exists(w) => wallet[w] \in Row
<1>1. /\ TableOK /\ credits \in [New -> 0..MaxCredits] /\ early \subseteq New
  BY DEF IInv, TypeOK
<1>2. MaxCredits \in Nat
  BY DeployBounds
<1>3. \A w \in New : w \in Wallets /\ RowInv(w) /\ CreditInv(w)
  BY NewAssumption DEF IInv, WalletInv
<1>4. \A w \in New : Exists(w) => wallet[w] \in Row
  BY <1>1, <1>3 DEF TableOK, Exists
<1> QED
  BY <1>1, <1>2, <1>3, <1>4, QueueTyped

\* POST /ton/wallets.
LEMMA DeployByHandInv ==
  ASSUME IInv, NEW w \in New, DeployByHand(w)
  PROVE  IInv'
<1> DEFINE columns == [balance |-> 0, deployed |-> TRUE]
<1>1. TableOK /\ w \in Wallets /\ RowInv(w) /\ CreditInv(w)
  BY TableTyped
<1>2. /\ DOMAIN columns = {"balance", "deployed"}
      /\ columns["balance"] = 0
      /\ \A c \in DOMAIN columns \cap Columns : columns[c] \in Entries(c)
  <2>1. DOMAIN columns = {"balance", "deployed"}
    OBVIOUS
  <2>2. columns["balance"] = 0 /\ columns["deployed"] = TRUE
    OBVIOUS
  <2> HIDE DEF columns
  <2> QED
    BY <2>1, <2>2, EntriesOf
<1>3. Exists(w) /\ Update(w, columns)
  BY DEF DeployByHand
<1> HIDE DEF columns
<1>4. /\ TableOK' /\ \A v \in Wallets \ {w} : wallet'[v] = wallet[v]
      /\ wallet'[w] = NoRow <=> wallet[w] = NoRow
      /\ Exists(w)'
      /\ \A c \in Columns : wallet'[w][c]
           = IF c \in DOMAIN columns THEN columns[c] ELSE wallet[w][c]
  BY <1>1, <1>2, <1>3, UpdateEffect
<1>5. wallet'[w].inUse = wallet[w].inUse /\ wallet'[w].balance = 0
  BY <1>2, <1>4 DEF Columns
<1>6. /\ sent' \in [New -> [toncoins : Nat, code : Nat]] 
      /\ UNCHANGED <<job, run, request, paid, coins, active, credits, zeroed, wiped, early>>
  BY QueueTyped DEF DeployByHand, history
<1>7. RowInv(w)'
  BY <1>1, <1>3, <1>4, <1>5, <1>6 DEF RowInv
<1>8. CreditInv(w)'
  BY <1>1, <1>3, <1>4, <1>5, <1>6 DEF CreditInv
<1>9. /\ credits' \in [New -> 0..MaxCredits] /\ early' \subseteq New /\ early \subseteq early'
      /\ \A v \in New \ {w} : wallet'[v] = wallet[v] /\ credits'[v] = credits[v]
  BY <1>4, <1>6, TableTyped
<1> QED
  BY <1>4, <1>6, <1>7, <1>8, <1>9, RowStep

\* createSwap chooses the wallet.
LEMMA PickWalletInv ==
  ASSUME IInv, NEW w \in New, PickWallet(w)
  PROVE  IInv'
<1> DEFINE columns == [inUse |-> TRUE]
<1>1. TableOK /\ w \in Wallets /\ RowInv(w) /\ CreditInv(w)
  BY TableTyped
<1>2. /\ DOMAIN columns = {"inUse"}
      /\ \A c \in DOMAIN columns \cap Columns : columns[c] \in Entries(c)
  <2>1. DOMAIN columns = {"inUse"} /\ columns["inUse"] = TRUE
    OBVIOUS
  <2> HIDE DEF columns
  <2> QED
    BY <2>1, EntriesOf
<1>3. Exists(w) /\ Update(w, columns) /\ credits[w] < MaxCredits
  BY DEF PickWallet, BestMatched, FindAll
<1> HIDE DEF columns
<1>4. /\ TableOK' /\ \A v \in Wallets \ {w} : wallet'[v] = wallet[v]
      /\ wallet'[w] = NoRow <=> wallet[w] = NoRow
      /\ Exists(w)'
      /\ \A c \in Columns : wallet'[w][c]
           = IF c \in DOMAIN columns THEN columns[c] ELSE wallet[w][c]
  BY <1>1, <1>2, <1>3, UpdateEffect
<1>5. /\ UNCHANGED <<job, run, request, paid, sent, coins, active, credits, zeroed, wiped>>
      /\ early' = IF zeroed[w] = 0 THEN early \cup {w} ELSE early
  BY DEF PickWallet, tonVars, bounds
<1>6. RowInv(w)'
  BY <1>1, <1>3, <1>4, <1>5 DEF RowInv
<1>7. CreditInv(w)'
  <2>1. CASE zeroed[w] = 0
    BY <1>1, <1>5, <2>1 DEF CreditInv
  <2>2. CASE zeroed[w] # 0
    BY <1>1, <1>5, <2>2 DEF CreditInv
  <2> QED
    BY <2>1, <2>2
<1>8. /\ credits' \in [New -> 0..MaxCredits] /\ early' \subseteq New /\ early \subseteq early'
      /\ \A v \in New \ {w} : wallet'[v] = wallet[v] /\ credits'[v] = credits[v]
      /\ sent' \in [New -> [toncoins : Nat, code : Nat]]
  BY <1>4, <1>5, TableTyped, QueueTyped
<1> QED
  BY <1>4, <1>5, <1>6, <1>7, <1>8, RowStep

\* A swap credits the wallet it has chosen.
LEMMA CreditWalletInv ==
  ASSUME IInv, NEW w \in New, CreditWallet(w)
  PROVE  IInv'
<1> DEFINE columns == [balance |-> Plus(wallet[w].balance, Amount), inUse |-> FALSE]
<1>1. /\ TableOK /\ w \in Wallets /\ RowInv(w) /\ CreditInv(w)
      /\ credits \in [New -> 0..MaxCredits] /\ MaxCredits \in Nat
  BY TableTyped
<1>2. Exists(w) /\ Update(w, columns) /\ wallet[w].inUse
  BY DEF CreditWallet
<1>3. wallet[w].balance \in Balances
  BY <1>2, TableTyped DEF Row
<1>4. Plus(wallet[w].balance, Amount) \in Balances
  BY <1>3, CreditAssumption DEF Plus, Balances
<1>5. /\ DOMAIN columns = {"balance", "inUse"} /\ columns["inUse"] = FALSE
      /\ \A c \in DOMAIN columns \cap Columns : columns[c] \in Entries(c)
  <2>1. DOMAIN columns = {"balance", "inUse"}
    OBVIOUS
  <2>2. columns["balance"] = Plus(wallet[w].balance, Amount) /\ columns["inUse"] = FALSE
    OBVIOUS
  <2> HIDE DEF columns
  <2> QED
    BY <1>4, <2>1, <2>2, EntriesOf
<1>6. PICK given : given = columns
  OBVIOUS
<1> HIDE DEF columns
<1>7. /\ TableOK' /\ \A v \in Wallets \ {w} : wallet'[v] = wallet[v]
      /\ wallet'[w] = NoRow <=> wallet[w] = NoRow
      /\ Exists(w)'
      /\ \A c \in Columns : wallet'[w][c]
           = IF c \in DOMAIN given THEN given[c] ELSE wallet[w][c]
  BY <1>1, <1>2, <1>5, <1>6, UpdateEffect
<1>8. wallet'[w].inUse = FALSE
  BY <1>5, <1>6, <1>7 DEF Columns
<1>9. /\ UNCHANGED <<job, run, request, paid, sent, coins, active, zeroed, wiped, early>>
      /\ credits' = [credits EXCEPT ![w] = @ + 1]
  BY DEF CreditWallet, tonVars, bounds, history
<1>10. credits[w] < MaxCredits
  BY <1>1, <1>2 DEF RowInv
<1>11. /\ credits' \in [New -> 0..MaxCredits]
       /\ \A v \in New \ {w} : wallet'[v] = wallet[v] /\ credits'[v] = credits[v]
  BY <1>1, <1>7, <1>9, <1>10, NewAssumption
<1>12. RowInv(w)'
  BY <1>1, <1>2, <1>7, <1>8, <1>9 DEF RowInv, Exists
<1>13. CreditInv(w)'
  <2>1. w \in early \/ zeroed[w] # 0
    BY <1>1, <1>2 DEF CreditInv
  <2> QED
    BY <1>1, <1>9, <2>1 DEF CreditInv
<1>14. /\ early' \subseteq New /\ early \subseteq early'
       /\ sent' \in [New -> [toncoins : Nat, code : Nat]]
  BY <1>1, <1>9, TableTyped, QueueTyped
<1> QED
  BY <1>7, <1>9, <1>11, <1>12, <1>13, <1>14, RowStep

\* DELETE /wallets/{id}: the giver may go as well.
LEMMA DetachWalletInv ==
  ASSUME IInv, NEW w \in Wallets, DetachWallet(w)
  PROVE  IInv'
<1>1. /\ TableOK /\ credits \in [New -> 0..MaxCredits] /\ early \subseteq New
      /\ \A v \in New : v \in Wallets /\ RowInv(v) /\ CreditInv(v)
  BY TableTyped
<1>2. /\ Exists(w) /\ wallet' = [wallet EXCEPT ![w] = Deleted]
      /\ UNCHANGED <<job, run, request, paid, sent, coins, active, credits, zeroed, wiped, early>>
  BY DEF DetachWallet, tonVars, history
<1>3. /\ TableOK' /\ \A v \in Wallets \ {w} : wallet'[v] = wallet[v]
      /\ wallet'[w] = Deleted /\ wallet[w] # NoRow
  BY <1>1, <1>2 DEF TableOK, Exists
<1>4. /\ wallet'[w] # NoRow /\ ~Exists(w)'
  BY <1>3 DEF Exists, NoRow, Deleted
<1>5. TypeOK'
  BY <1>2, <1>3 DEF IInv, TypeOK
<1> SUFFICES ASSUME NEW v \in New
             PROVE  WalletInv(v)'
  BY <1>1, <1>2, <1>5 DEF IInv
<1>6. /\ Consistent(job[v], run[v])' /\ Accounted(job[v], run[v], paid[v])'
      /\ Written(job[v], run[v], zeroed[v])'
  BY <1>2 DEF IInv, WalletInv, Consistent, Accounted, Written, Counted
<1>7. CASE v = w
  <2>1. RowInv(v)'
    BY <1>1, <1>2, <1>3, <1>4, <1>7 DEF RowInv
  <2>2. CreditInv(v)'
    BY <1>1, <1>2, <1>4, <1>7 DEF CreditInv
  <2> QED
    BY <1>6, <2>1, <2>2 DEF WalletInv
<1>8. CASE v # w
  <2>1. wallet'[v] = wallet[v]
    BY <1>1, <1>3, <1>8
  <2>2. RowInv(v)'
    BY <1>1, <1>2, <2>1 DEF RowInv, Exists
  <2>3. CreditInv(v)'
    BY <1>1, <1>2, <2>1 DEF CreditInv, Exists
  <2> QED
    BY <1>6, <2>2, <2>3 DEF WalletInv
<1> QED
  BY <1>7, <1>8

\* POST /wallets/create: the row.
LEMMA SaveWalletInv ==
  ASSUME IInv, NEW w \in New, SaveWallet(w)
  PROVE  IInv'
<1> DEFINE row == CreatedRow("ton", "transferer")
<1>1. /\ TableOK /\ w \in Wallets /\ RowInv(w) /\ CreditInv(w)
      /\ zeroed[w] \in Nat /\ wiped[w] \in Nat
  BY TableTyped
<1>2. wallet[w] = NoRow /\ job[w].name = "none"
  BY <1>1 DEF SaveWallet, RowInv
<1>3. WalletInv(w)
  BY DEF IInv
<1>4. /\ UNCHANGED <<job, run, paid, sent, coins, active, credits, zeroed, wiped, early>>
      /\ wallet' = [wallet EXCEPT ![w] = row]
      /\ request' = [request EXCEPT ![w] = "giver"]
  BY DEF SaveWallet, tonVars, bounds, history
<1>5. row \in Row /\ row.inUse = FALSE /\ row.balance = Null
  BY DEF CreatedRow, Row, Types, Balances
<1>6. row # NoRow
  BY DEF CreatedRow, NoRow
<1> HIDE DEF row
<1>7. /\ TableOK' /\ \A v \in Wallets \ {w} : wallet'[v] = wallet[v]
      /\ wallet'[w] # NoRow
      /\ wallet'[w].inUse = FALSE /\ wallet'[w].balance = Null
  BY <1>1, <1>4, <1>5, <1>6 DEF TableOK
<1>8. /\ request' \in [New -> RequestStages] /\ request'[w] = "giver"
      /\ \A v \in New \ {w} : request'[v] = request[v]
  BY <1>4, QueueTyped DEF RequestStages
<1>9. TypeOK'
  BY <1>4, <1>7, <1>8 DEF IInv, TypeOK
<1>10. OthersStay(w)
  BY <1>1, <1>4, <1>7, <1>8, NewAssumption DEF OthersStay
<1>11. /\ Consistent(job[w], run[w])' /\ Accounted(job[w], run[w], paid[w])'
       /\ Written(job[w], run[w], zeroed[w])'
  BY <1>3, <1>4 DEF WalletInv, Consistent, Accounted, Written, Counted
<1>12. RowInv(w)'
  BY <1>2, <1>4, <1>7, <1>8 DEF RowInv
<1>13. CreditInv(w)'
  BY <1>1, <1>4, <1>7 DEF CreditInv
<1> QED
  BY <1>9, <1>10, <1>11, <1>12, <1>13, OneWallet DEF WalletInv

\* The steps of a request that leave the table alone, with the job it adds.
LEMMA RequestStep ==
  ASSUME IInv, NEW w \in New, request[w] \in {"giver", "add"},
         NEW stage \in RequestStages \ {"none"}, request' = [request EXCEPT ![w] = stage],
         UNCHANGED <<wallet, run, paid, sent, coins, active, credits, zeroed, wiped, early>>,
         job' = job \/ job' = [job EXCEPT ![w] = NewJob("transferToncoins")],
         job' = job \/ stage \in {"done", "cut"}
  PROVE  IInv'
<1>1. /\ job \in [New -> Jobs] /\ job[w] \in Jobs
      /\ paid[w] \in Nat /\ zeroed[w] \in Nat
  BY QueueTyped
<1>2. /\ WalletInv(w) /\ RowInv(w) /\ CreditInv(w)
      /\ job[w].name = "none" /\ wallet[w] # NoRow
  BY DEF IInv, WalletInv, RowInv
<1>3. /\ run[w] = "idle" /\ paid[w] = 0 /\ zeroed[w] = 0
  BY <1>2 DEF WalletInv, Consistent, Accounted, Written, Counted, Settled, Early
<1>4. /\ request' \in [New -> RequestStages] /\ request'[w] = stage
      /\ \A v \in New \ {w} : request'[v] = request[v]
  BY QueueTyped
<1>5. /\ NewJob("transferToncoins") \in Jobs
      /\ NewJob("transferToncoins").name = "transferToncoins"
      /\ NewJob("transferToncoins").left = Attempts
      /\ NewJob("transferToncoins").stalls = 0
  BY JobsMade DEF JobNames
<1>6. /\ job' \in [New -> Jobs] /\ \A v \in New \ {w} : job'[v] = job[v]
      /\ \/ job'[w] = job[w]
         \/ /\ job'[w].name = "transferToncoins" /\ job'[w].left = Attempts
            /\ job'[w].stalls = 0 /\ stage \in {"done", "cut"}
  BY <1>1, <1>5
<1>7. TypeOK'
  BY <1>4, <1>6 DEF IInv, TypeOK, TableOK, Jobs
<1>8. OthersStay(w)
  BY <1>4, <1>6 DEF OthersStay
<1>9. Attempts \in Nat /\ Attempts >= 1 /\ MaxStalls \in Nat
  BY DeployBounds
<1>10. Consistent(job'[w], run'[w])
  BY <1>2, <1>3, <1>6, <1>9 DEF WalletInv, Consistent, Settled
<1>11. Accounted(job'[w], run'[w], paid'[w])
  BY <1>2, <1>3, <1>6, <1>9 DEF WalletInv, Accounted, Counted, Answered
<1>12. Written(job'[w], run'[w], zeroed'[w])
  BY <1>2, <1>3, <1>6, <1>9 DEF WalletInv, Written, Counted, Early
<1>13. RowInv(w)'
  BY <1>2, <1>4, <1>6 DEF RowInv, Exists
<1>14. CreditInv(w)'
  BY <1>2 DEF CreditInv, Exists
<1> QED
  BY <1>7, <1>8, <1>10, <1>11, <1>12, <1>13, <1>14, OneWallet DEF WalletInv

LEMMA CreateWalletInv ==
  ASSUME IInv, NEW w \in New, CreateWallet(w)
  PROVE  IInv'
<1>1. CASE SaveWallet(w)
  BY <1>1, SaveWalletInv
<1>2. CASE FindGiver(w)
  <2>1. PICK stage \in {"add", "refused"} : request' = [request EXCEPT ![w] = stage]
    BY <1>2 DEF FindGiver
  <2>2. /\ request[w] \in {"giver", "add"} /\ job' = job
        /\ UNCHANGED <<wallet, run, paid, sent, coins, active, credits, zeroed, wiped, early>>
    BY <1>2 DEF FindGiver, tonVars, history
  <2> QED
    BY <2>1, <2>2, RequestStep DEF RequestStages
<1>3. CASE AddTransferToncoins(w)
  <2>1. /\ request[w] \in {"giver", "add"} /\ request' = [request EXCEPT ![w] = "done"]
        /\ job' = [job EXCEPT ![w] = NewJob("transferToncoins")]
        /\ UNCHANGED <<wallet, run, paid, sent, coins, active, credits, zeroed, wiped, early>>
    BY <1>3 DEF AddTransferToncoins, tonVars, history
  <2> QED
    BY <2>1, RequestStep DEF RequestStages
<1> QED
  BY <1>1, <1>2, <1>3 DEF CreateWallet

LEMMA RequestThrowsInv ==
  ASSUME IInv, NEW w \in New, RequestThrows(w)
  PROVE  IInv'
<1>1. /\ request[w] \in {"giver", "add"} /\ request' = [request EXCEPT ![w] = "cut"]
      /\ job' = job \/ job' = [job EXCEPT ![w] = NewJob("transferToncoins")]
      /\ UNCHANGED <<wallet, run, paid, sent, coins, active, credits, zeroed, wiped, early>>
  BY DEF RequestThrows, tonVars, history
<1> QED
  BY <1>1, RequestStep DEF RequestStages

\* confirmWalletDeploy, which may find the row gone.
LEMMA ConfirmWalletDeployWriteInv ==
  ASSUME IInv, NEW w \in New, ConfirmWalletDeployWrite(w)
  PROVE  IInv'
<1> DEFINE columns == [balance |-> 0, deployed |-> TRUE]
<1>1. /\ TableOK /\ w \in Wallets /\ RowInv(w) /\ CreditInv(w)
      /\ zeroed[w] \in Nat /\ wiped[w] \in Nat /\ paid[w] \in Nat /\ job[w] \in Jobs
      /\ zeroed \in [New -> Nat] /\ wiped \in [New -> Nat]
  BY TableTyped, QueueTyped
<1>2. /\ DOMAIN columns = {"balance", "deployed"}
      /\ \A c \in DOMAIN columns \cap Columns : columns[c] \in Entries(c)
  <2>1. DOMAIN columns = {"balance", "deployed"}
    OBVIOUS
  <2>2. columns["balance"] = 0 /\ columns["deployed"] = TRUE
    OBVIOUS
  <2> HIDE DEF columns
  <2> QED
    BY <2>1, <2>2, EntriesOf
<1>3. /\ Update(w, columns)
      /\ Goto(w, "true") \/ Fails(w)
      /\ job[w].name = "confirmWalletDeploy" /\ run[w] = "write"
  BY DEF ConfirmWalletDeployWrite, At
<1>4. columns["balance"] = 0
  OBVIOUS
<1> HIDE DEF columns
<1>5. /\ TableOK' /\ \A v \in Wallets \ {w} : wallet'[v] = wallet[v]
      /\ wallet'[w] = NoRow <=> wallet[w] = NoRow
      /\ Exists(w)' <=> Exists(w)
      /\ Exists(w) => \A c \in Columns : wallet'[w][c]
           = IF c \in DOMAIN columns THEN columns[c] ELSE wallet[w][c]
  BY <1>1, <1>2, <1>3, UpdateEffect
<1>6. Exists(w) => wallet'[w].inUse = wallet[w].inUse /\ wallet'[w].balance = 0
  BY <1>2, <1>4, <1>5 DEF Columns
<1>7. /\ UNCHANGED <<request, paid, sent, coins, active, credits, early>>
      /\ zeroed' = [zeroed EXCEPT ![w] = @ + 1]
      /\ wiped' = IF Exists(w) /\ wallet[w].balance \notin {Null, 0}
                   THEN [wiped EXCEPT ![w] = @ + 1] ELSE wiped
  BY DEF ConfirmWalletDeployWrite, tonVars
<1>8. /\ zeroed' \in [New -> Nat] /\ wiped' \in [New -> Nat]
      /\ zeroed'[w] = zeroed[w] + 1
      /\ \A v \in New \ {w} : zeroed'[v] = zeroed[v] /\ wiped'[v] = wiped[v]
      /\ wiped'[w] = IF Exists(w) /\ wallet[w].balance \notin {Null, 0}
                      THEN wiped[w] + 1 ELSE wiped[w]
  BY <1>1, <1>7
<1>9. /\ Consistent(job[w], run[w]) /\ Accounted(job[w], run[w], paid[w])
      /\ Written(job[w], run[w], zeroed[w])
  BY DEF IInv, WalletInv
<1>10. run[w] \notin Answered /\ "true" \in Answered /\ job[w].left >= 1
  BY <1>3, <1>9 DEF Answered, Consistent, Settled
<1>11. /\ job' \in [New -> Jobs] /\ run' \in [New -> RunStages]
       /\ \A v \in New \ {w} : job'[v] = job[v] /\ run'[v] = run[v]
       /\ job'[w].name # "none"
       /\ Consistent(job'[w], run'[w]) /\ Accounted(job'[w], run'[w], paid[w])
       /\ Written(job'[w], run'[w], zeroed'[w])
  <2>1. CASE Goto(w, "true")
    <3>1. /\ job' \in [New -> Jobs] /\ run' \in [New -> RunStages]
          /\ job' = job /\ run'[w] = "true"
          /\ \A v \in New \ {w} : job'[v] = job[v] /\ run'[v] = run[v]
      BY <2>1, GotoEffect DEF RunStages
    <3>2. Consistent(job'[w], run'[w])
      BY <1>3, <1>9, <3>1 DEF Consistent, Settled
    <3>3. Accounted(job[w], "true", paid[w]) /\ Written(job[w], "true", zeroed[w] + 1)
      BY <1>1, <1>3, <1>9, <1>10, AnswerCounts
    <3> QED
      BY <1>3, <1>8, <3>1, <3>2, <3>3
  <2>2. CASE Fails(w)
    <3>1. /\ job' \in [New -> Jobs] /\ run' \in [New -> RunStages]
          /\ run'[w] = "idle" /\ job'[w] \in Jobs
          /\ \A v \in New \ {w} : job'[v] = job[v] /\ run'[v] = run[v]
          /\ \/ /\ job[w].left > 1
                /\ job'[w].name = job[w].name /\ job'[w].stalls = job[w].stalls
                /\ job'[w].left = job[w].left - 1
             \/ /\ job'[w].name = "failed" /\ job'[w].left = 0
      BY <2>2, FailsEffect
    <3>2. Consistent(job'[w], run'[w])
      BY <1>1, <1>3, <3>1 DEF Consistent, Settled, Jobs
    <3>3. PICK it \in Jobs, other \in Jobs : it = job[w] /\ other = job'[w]
      BY <1>1, <3>1
    <3>4. PICK asked \in Nat, wrote \in Nat, writes \in Nat :
            asked = paid[w] /\ wrote = zeroed[w] /\ writes = zeroed[w] + 1
      BY <1>1
    <3>5. /\ it.left >= 1 /\ it.name = "confirmWalletDeploy" /\ writes = wrote + 1
          /\ Accounted(it, run[w], asked) /\ Written(it, run[w], wrote)
      BY <1>3, <1>9, <1>10, <3>3, <3>4
    <3>6. \/ /\ it.left > 1
             /\ other.name = it.name /\ other.stalls = it.stalls /\ other.left = it.left - 1
          \/ other.name = "failed"
      BY <3>1, <3>3
    <3>7. Accounted(other, "idle", asked) /\ Written(other, "idle", writes)
      BY <1>10, <3>5, <3>6, FailureCounts
    <3> QED
      BY <1>3, <1>8, <3>1, <3>2, <3>3, <3>4, <3>7
  <2> QED
    BY <1>3, <2>1, <2>2
<1>12. TypeOK'
  BY <1>5, <1>7, <1>8, <1>11 DEF IInv, TypeOK, Jobs
<1>13. OthersStay(w)
  BY <1>1, <1>5, <1>7, <1>8, <1>11, NewAssumption DEF OthersStay
<1>14. RowInv(w)'
  BY <1>1, <1>3, <1>5, <1>6, <1>7, <1>11 DEF RowInv
<1>15. CreditInv(w)'
  <2>1. wiped'[w] <= zeroed'[w]
    BY <1>1, <1>8 DEF CreditInv
  <2>2. ASSUME w \notin early'
        PROVE  wiped'[w] < zeroed'[w]
    <3>1. CASE zeroed[w] = 0
      BY <1>1, <1>7, <1>8, <2>2, <3>1 DEF CreditInv
    <3>2. CASE zeroed[w] # 0
      BY <1>1, <1>7, <1>8, <2>2, <3>2 DEF CreditInv
    <3> QED
      BY <3>1, <3>2
  <2>3. zeroed'[w] # 0
    BY <1>1, <1>8
  <2> QED
    BY <2>1, <2>2, <2>3 DEF CreditInv
<1> QED
  BY <1>7, <1>11, <1>12, <1>13, <1>14, <1>15, OneWallet DEF WalletInv

-----------------------------------------------------------------------------
(* TON, and a crash.                                                         *)

\* What happens on TON touches neither the table nor the jobs.
LEMMA TonStep ==
  ASSUME IInv,
         UNCHANGED <<wallet, job, run, request, paid, credits, zeroed, wiped, early>>,
         sent' \in [New -> [toncoins : Nat, code : Nat]],
         coins' \subseteq New, active' \subseteq New
  PROVE  IInv'
<1>1. TypeOK'
  BY DEF IInv, TypeOK, TableOK
<1> SUFFICES ASSUME NEW v \in New
             PROVE  WalletInv(v)'
  BY <1>1 DEF IInv
<1> QED
  BY DEF IInv, WalletInv, Consistent, Accounted, Written, Counted, RowInv, CreditInv, Exists

\* One message is taken off those that wait.
LEMMA MessageTaken ==
  ASSUME IInv, NEW w \in New,
         \/ sent[w].toncoins > 0 /\ sent' = [sent EXCEPT ![w].toncoins = @ - 1]
         \/ sent[w].code > 0 /\ sent' = [sent EXCEPT ![w].code = @ - 1]
  PROVE  sent' \in [New -> [toncoins : Nat, code : Nat]]
<1>1. sent \in [New -> [toncoins : Nat, code : Nat]]
  BY QueueTyped
<1>2. CASE sent[w].toncoins > 0 /\ sent' = [sent EXCEPT ![w].toncoins = @ - 1]
  BY <1>1, <1>2
<1>3. CASE sent[w].code > 0 /\ sent' = [sent EXCEPT ![w].code = @ - 1]
  BY <1>1, <1>3
<1> QED
  BY <1>2, <1>3

LEMMA ArriveInv ==
  ASSUME IInv, NEW w \in New, Arrive(w)
  PROVE  IInv'
<1>1. sent' \in [New -> [toncoins : Nat, code : Nat]]
  BY MessageTaken, QueueTyped DEF Arrive
<1>2. /\ coins' \subseteq New /\ active' \subseteq New
      /\ UNCHANGED <<wallet, job, run, request, paid, credits, zeroed, wiped, early>>
  BY DEF Arrive, history, IInv, TypeOK
<1> QED
  BY <1>1, <1>2, TonStep

LEMMA ActivateInv ==
  ASSUME IInv, NEW w \in New, Activate(w)
  PROVE  IInv'
<1>1. sent' \in [New -> [toncoins : Nat, code : Nat]]
  BY MessageTaken DEF Activate
<1>2. /\ coins' \subseteq New /\ active' \subseteq New
      /\ UNCHANGED <<wallet, job, run, request, paid, credits, zeroed, wiped, early>>
  BY DEF Activate, bounds, history, IInv, TypeOK
<1> QED
  BY <1>1, <1>2, TonStep

LEMMA LoseMessageInv ==
  ASSUME IInv, NEW w \in New, LoseMessage(w)
  PROVE  IInv'
<1>1. sent' \in [New -> [toncoins : Nat, code : Nat]]
  BY MessageTaken DEF LoseMessage
<1>2. /\ coins' \subseteq New /\ active' \subseteq New
      /\ UNCHANGED <<wallet, job, run, request, paid, credits, zeroed, wiped, early>>
  BY DEF LoseMessage, history, IInv, TypeOK
<1> QED
  BY <1>1, <1>2, TonStep

\* A job that was at work is delivered again, lost, or has stalled too often.
LEMMA AfterCrashJob ==
  ASSUME IInv, NEW w \in New, NEW finished \in SUBSET New
  PROVE  LET it == AfterCrash(w, finished) IN
         /\ it \in Jobs
         /\ \/ it = job[w] /\ run[w] = "idle"
            \/ /\ it.name = job[w].name /\ it.left = job[w].left
               /\ it.stalls = job[w].stalls + 1
               /\ run[w] # "idle"
            \/ it.name \in {"failed", "lost"} /\ it.left = 0 /\ run[w] # "idle"
<1>1. job[w] \in Jobs
  BY QueueTyped
<1>2. \A name \in {"failed", "lost"} : Over(name) \in Jobs /\ Over(name).name = name
                                       /\ Over(name).left = 0
  BY JobsMade DEF JobNames
<1>3. ASSUME NEW it \in Jobs, it.stalls < MaxStalls
      PROVE  /\ Redelivered(it) \in Jobs
             /\ Redelivered(it).name = it.name /\ Redelivered(it).left = it.left
             /\ Redelivered(it).stalls = it.stalls + 1
  BY <1>3, DeployBounds DEF Redelivered, Jobs
<1>4. ASSUME NEW it \in Jobs, ~(it.stalls < MaxStalls)
      PROVE  Redelivered(it) = Over("failed")
  BY <1>4 DEF Redelivered
<1>5. CASE run[w] = "idle"
  BY <1>1, <1>5 DEF AfterCrash
<1>6. CASE run[w] # "idle" /\ w \in finished
  BY <1>2, <1>6 DEF AfterCrash
<1>7. CASE run[w] # "idle" /\ w \notin finished
  <2>1. AfterCrash(w, finished) = Redelivered(job[w])
    BY <1>7 DEF AfterCrash
  <2>2. CASE job[w].stalls < MaxStalls
    BY <1>1, <1>3, <1>7, <2>1, <2>2
  <2>3. CASE ~(job[w].stalls < MaxStalls)
    BY <1>1, <1>2, <1>4, <1>7, <2>1, <2>3
  <2> QED
    BY <2>2, <2>3
<1> QED
  BY <1>5, <1>6, <1>7

LEMMA CrashInv ==
  ASSUME IInv, Crash
  PROVE  IInv'
<1>1. PICK finished \in SUBSET New : job' = [w \in New |-> AfterCrash(w, finished)]
  BY DEF Crash
<1>2. /\ run' = [w \in New |-> "idle"]
      /\ request' = [w \in New |->
           IF request[w] \in {"giver", "add"} THEN "cut" ELSE request[w]]
      /\ UNCHANGED <<wallet, paid, sent, coins, active, credits, zeroed, wiped, early>>
  BY DEF Crash, tonVars, history
<1>3. \A w \in New :
        /\ job'[w] \in Jobs /\ run'[w] = "idle"
        /\ \/ job'[w] = job[w] /\ run[w] = "idle"
           \/ /\ job'[w].name = job[w].name /\ job'[w].left = job[w].left
              /\ job'[w].stalls = job[w].stalls + 1
              /\ run[w] # "idle"
           \/ job'[w].name \in {"failed", "lost"} /\ job'[w].left = 0 /\ run[w] # "idle"
  BY <1>1, <1>2, AfterCrashJob
<1>4. job' \in [New -> Jobs] /\ run' \in [New -> RunStages]
  BY <1>1, <1>2, <1>3 DEF RunStages
<1>5. request' \in [New -> RequestStages]
  BY <1>2, QueueTyped DEF RequestStages
<1>6. TypeOK'
  BY <1>2, <1>4, <1>5 DEF IInv, TypeOK, TableOK, Jobs
<1> SUFFICES ASSUME NEW w \in New
             PROVE  WalletInv(w)'
  BY <1>6 DEF IInv
<1>7. /\ Consistent(job[w], run[w]) /\ Accounted(job[w], run[w], paid[w])
      /\ Written(job[w], run[w], zeroed[w]) /\ RowInv(w) /\ CreditInv(w)
      /\ job[w] \in Jobs /\ paid[w] \in Nat /\ zeroed[w] \in Nat
  BY QueueTyped DEF IInv, WalletInv
<1>8. /\ run'[w] = "idle" /\ job'[w] \in Jobs
      /\ \/ job'[w] = job[w] /\ run[w] = "idle"
         \/ /\ job'[w].name = job[w].name /\ job'[w].left = job[w].left
            /\ job'[w].stalls = job[w].stalls + 1
            /\ run[w] # "idle"
         \/ job'[w].name \in {"failed", "lost"} /\ job'[w].left = 0 /\ run[w] # "idle"
  BY <1>3
<1>9. Consistent(job'[w], run'[w])
  BY <1>7, <1>8 DEF Consistent, Settled
<1>10. Accounted(job'[w], "idle", paid[w]) /\ Written(job'[w], "idle", zeroed[w])
  <2>1. PICK it \in Jobs, other \in Jobs, stage \in {run[w]} :
          it = job[w] /\ other = job'[w]
    BY <1>7, <1>8
  <2>2. PICK asked \in Nat, wrote \in Nat : asked = paid[w] /\ wrote = zeroed[w]
    BY <1>7
  <2>3. Accounted(it, stage, asked) /\ Written(it, stage, wrote)
    BY <1>7, <2>1, <2>2
  <2>4. \/ other = it /\ stage = "idle"
        \/ /\ other.name = it.name /\ other.left = it.left
           /\ other.stalls = it.stalls + 1
        \/ other.name \in {"failed", "lost"}
    BY <1>8, <2>1
  <2>5. Accounted(other, "idle", asked) /\ Written(other, "idle", wrote)
    BY <2>3, <2>4, CrashCounts
  <2> QED
    BY <2>1, <2>2, <2>5
<1>11. job'[w].name = "none" <=> job[w].name = "none"
  BY <1>7, <1>8 DEF Consistent, Settled
<1>12. RowInv(w)'
  <2>1. request'[w] = IF request[w] \in {"giver", "add"} THEN "cut" ELSE request[w]
    BY <1>2
  <2> QED
    BY <1>2, <1>7, <1>11, <2>1 DEF RowInv, Exists
<1>13. CreditInv(w)'
  BY <1>2, <1>7 DEF CreditInv, Exists
<1>14. paid' = paid /\ zeroed' = zeroed
  BY <1>2
<1> QED
  BY <1>8, <1>9, <1>10, <1>12, <1>13, <1>14 DEF WalletInv

-----------------------------------------------------------------------------
(* The invariant holds from the start on.                                    *)

LEMMA InitInv ==
  ASSUME Init
  PROVE  IInv
<1>1. TableOK
  BY DEF Init, TableOK, AttachedRow, Row, Types, Balances
<1>2. /\ Over("none") \in Jobs /\ Over("none").name = "none" /\ Over("none").left = 0
  BY JobsMade DEF JobNames
<1>3. job \in [New -> Jobs] /\ \A w \in New : job[w].name = "none" /\ job[w].left = 0
  BY <1>2 DEF Init
<1>4. TypeOK
  BY <1>1, <1>3, DeployBounds DEF Init, TypeOK, RunStages, RequestStages, Jobs
<1> SUFFICES ASSUME NEW w \in New
             PROVE  WalletInv(w)
  BY <1>4 DEF IInv
<1>5. /\ run[w] = "idle" /\ paid[w] = 0 /\ credits[w] = 0 /\ request[w] = "none"
      /\ zeroed[w] = 0 /\ wiped[w] = 0
      /\ Attempts \in Nat /\ MaxStalls \in Nat
  BY DeployBounds DEF Init
<1>6. wallet[w] = NoRow
  BY NewAssumption DEF Init
<1>7. Consistent(job[w], run[w])
  BY <1>3, <1>5 DEF Consistent, Settled
<1>8. Accounted(job[w], run[w], paid[w]) /\ Written(job[w], run[w], zeroed[w])
  BY <1>3, <1>5 DEF Accounted, Written, Counted
<1>9. RowInv(w) /\ CreditInv(w)
  BY <1>3, <1>5, <1>6 DEF RowInv, CreditInv, Exists
<1> QED
  BY <1>7, <1>8, <1>9 DEF WalletInv

LEMMA HandlerInv ==
  ASSUME IInv, NEW w \in New, Handler(w)
  PROVE  IInv'
<1>1. CASE \/ TransferToncoinsRead(w) \/ TransferToncoinsSend(w)
           \/ OnTransferToncoinsCompleted(w)
  BY <1>1, TransferToncoinsReadInv, TransferToncoinsSendInv, OnTransferToncoinsCompletedInv
<1>2. CASE ConfirmToncoinsTransfer(w) \/ OnConfirmToncoinsTransferCompleted(w)
  BY <1>2, ConfirmToncoinsTransferInv, OnConfirmToncoinsTransferCompletedInv
<1>3. CASE DeployWalletRead(w) \/ DeployWalletSend(w) \/ OnDeployWalletCompleted(w)
  BY <1>3, DeployWalletReadInv, DeployWalletSendInv, OnDeployWalletCompletedInv
<1>4. CASE \/ ConfirmWalletDeployRead(w) \/ ConfirmWalletDeployWrite(w)
           \/ OnConfirmWalletDeployCompleted(w)
  BY <1>4, ConfirmWalletDeployReadInv, ConfirmWalletDeployWriteInv,
     OnConfirmWalletDeployCompletedInv
<1> QED
  BY <1>1, <1>2, <1>3, <1>4 DEF Handler

LEMMA NextInv ==
  ASSUME IInv, [Next]_vars
  PROVE  IInv'
<1>1. ASSUME NEW w \in New, \/ CreateWallet(w) \/ RequestThrows(w)
                           \/ Handler(w) \/ HandlerThrows(w) \/ ListenerThrows(w)
      PROVE  IInv'
  BY <1>1, CreateWalletInv, RequestThrowsInv, HandlerInv, HandlerThrowsInv, ListenerThrowsInv
<1>2. ASSUME NEW w \in New, DeployByHand(w) \/ PickWallet(w) \/ CreditWallet(w)
      PROVE  IInv'
  BY <1>2, DeployByHandInv, PickWalletInv, CreditWalletInv
<1>3. ASSUME NEW w \in New, Arrive(w) \/ Activate(w) \/ LoseMessage(w)
      PROVE  IInv'
  BY <1>3, ArriveInv, ActivateInv, LoseMessageInv
<1>4. ASSUME NEW w \in Wallets, DetachWallet(w)
      PROVE  IInv'
  BY <1>4, DetachWalletInv
<1>5. CASE Crash
  BY <1>5, CrashInv
<1>6. CASE UNCHANGED vars
  <2>1. /\ UNCHANGED <<wallet, job, run, request, paid, credits, zeroed, wiped, early>>
        /\ UNCHANGED <<sent, coins, active>>
    BY <1>6 DEF vars
  <2>2. /\ sent' \in [New -> [toncoins : Nat, code : Nat]]
        /\ coins' \subseteq New /\ active' \subseteq New
    BY <2>1 DEF IInv, TypeOK
  <2> QED
    BY <2>1, <2>2, TonStep
<1> QED
  BY <1>1, <1>2, <1>3, <1>4, <1>5, <1>6 DEF Next

-----------------------------------------------------------------------------
(* The theorems.                                                             *)

\* Each variable keeps its type, whatever the number of wallets, attempts and
\* redeliveries.
THEOREM TypesHold == Spec => []TypeOK
<1>1. IInv => TypeOK
  BY DEF IInv
<1> QED
  BY <1>1, InitInv, NextInv, PTL DEF Spec

\* transferToncoins asks the giver to pay for a wallet once for every attempt and
\* redelivery of its one job: the jobs that follow, whatever is repeated of them,
\* never send the wallet back to it.
THEOREM GiverPaysLittle == Spec => []GiverPaysBounded
<1>1. IInv => GiverPaysBounded
  BY DEF IInv, WalletInv, Accounted, Counted, GiverPaysBounded
<1> QED
  BY <1>1, InitInv, NextInv, PTL DEF Spec

\* confirmWalletDeploy wipes out what swaps have credited at most once for every attempt
\* and redelivery of its one job, one less if no swap had chosen the wallet before the
\* deployment was recorded, however often the wallet is also deployed by hand.
THEOREM WipesAreFew == Spec => []WipesBounded
<1>1. ASSUME IInv, NEW w \in New
      PROVE  wiped[w] <= Attempts + MaxStalls - (IF w \in early THEN 0 ELSE 1)
  <2>1. /\ CreditInv(w) /\ zeroed[w] \in Nat /\ wiped[w] \in Nat
        /\ Attempts \in Nat /\ Attempts >= 1 /\ MaxStalls \in Nat
    BY <1>1, TableTyped, DeployBounds
  <2>2. zeroed[w] <= Attempts + MaxStalls
    BY <1>1 DEF IInv, WalletInv, Written, Counted
  <2>3. CASE w \in early
    BY <2>1, <2>2, <2>3 DEF CreditInv
  <2>4. CASE w \notin early
    BY <2>1, <2>2, <2>4 DEF CreditInv
  <2> QED
    BY <2>3, <2>4
<1>2. IInv => WipesBounded
  BY <1>1 DEF WipesBounded
<1> QED
  BY <1>2, InitInv, NextInv, PTL DEF Spec
===============================================================================
