----------------------------- MODULE WalletDeploy -----------------------------
(* How a wallet of TON comes to be: POST /wallets/create saves its row,      *)
(* looks for a giver and adds the first of four jobs of WalletsProcessor,    *)
(* which have the giver fund it, see the coins arrive, deploy the contract   *)
(* and see the account active.  The row can be chosen for a swap from the    *)
(* moment it is saved: findBestMatchedOne does not look at the column        *)
(* deployed.                                                                 *)
(*                                                                           *)
(* What is handed to TON is carried out once or never: TonMessages has how.  *)
EXTENDS WalletTable

CONSTANTS New,          \* the addresses that POST /wallets/create comes up with
          Giver,        \* the giver wallet
          Amount,       \* what a swap credits
          Attempts,     \* DEPLOY_WALLET_ATTEMPTS
          MaxStalls,    \* maxStalledCount of Bull
          MaxByHand,    \* bound: POST /ton/wallets
          MaxCredits,   \* bound: swaps paid at a wallet
          MaxAsides,    \* bound: rows detached, coins from elsewhere
          MaxFaults     \* bound: crashes, failing calls, lost messages

ASSUME NewAssumption == New \subseteq Wallets \ {Giver}
ASSUME CreditAssumption == Amount \in Nat \ {0}
ASSUME DeployBounds ==
  /\ Attempts \in Nat \ {0}
  /\ {MaxStalls, MaxByHand, MaxCredits, MaxAsides, MaxFaults} \subseteq Nat

VARIABLES
  job,      \* the job of each wallet in the queue
  run,      \* where its handler, or its listener, is
  request,  \* where POST /wallets/create is with each wallet
  sent,     \* messages handed to TON and not carried out: toncoins, code
  paid,     \* how often the giver has been asked to pay for a wallet
  coins,    \* the addresses that have received toncoins
  active,   \* the addresses whose contract is deployed
  credits,  \* how often a swap has credited a wallet
  zeroed,   \* history: how often confirmWalletDeploy has written its columns
  wiped,    \* history: how often that was over what swaps had credited
  early,    \* history: wallets chosen before it had written them
  byHand,   \* bound
  asides,   \* bound
  faults    \* bound

tonVars == <<sent, coins, active>>
history == <<zeroed, wiped, early>>
bounds == <<byHand, asides, faults>>
vars == <<wallet, job, run, request, sent, paid, coins, active, credits, zeroed, wiped,
          early, byHand, asides, faults>>

JobNames == {"none", "transferToncoins", "confirmToncoinsTransfer", "deployWallet",
             "confirmWalletDeploy", "ended", "failed", "lost"}
RunStages == {"idle", "send", "write", "true", "false"}
RequestStages == {"none", "giver", "add", "done", "refused", "cut"}

NewJob(name) == [name |-> name, left |-> Attempts, stalls |-> 0]
Over(name) == [name |-> name, left |-> 0, stalls |-> 0]

Init ==
  /\ wallet = [w \in Wallets |->
       IF w = Giver THEN AttachedRow("ton", "giver", 0) ELSE NoRow]
  /\ job = [w \in New |-> Over("none")]
  /\ run = [w \in New |-> "idle"]
  /\ request = [w \in New |-> "none"]
  /\ sent = [w \in New |-> [toncoins |-> 0, code |-> 0]]
  /\ paid = [w \in New |-> 0]
  /\ coins = {} /\ active = {}
  /\ credits = [w \in New |-> 0]
  /\ zeroed = [w \in New |-> 0] /\ wiped = [w \in New |-> 0]
  /\ early = {}
  /\ byHand = 0 /\ asides = 0 /\ faults = 0

-----------------------------------------------------------------------------
(* Bull.                                                                     *)

Takes(w, name) == job[w].name = name /\ run[w] = "idle"
At(w, name, stage) == job[w].name = name /\ run[w] = stage
Goto(w, stage) == run' = [run EXCEPT ![w] = stage] /\ UNCHANGED job

\* The handler throws: another attempt, or none is left.  No listener is bound to
\* the failure.
Retried(it) == IF it.left > 1 THEN [it EXCEPT !.left = @ - 1] ELSE Over("failed")

Fails(w) ==
  /\ run' = [run EXCEPT ![w] = "idle"]
  /\ job' = [job EXCEPT ![w] = Retried(job[w])]

Faulty == faults < MaxFaults /\ faults' = faults + 1

\* A call to the table or to TON throws, before it has changed anything.
HandlerThrows(w) ==
  /\ job[w].left > 0
  /\ run[w] \in {"idle", "send", "write"}
  /\ Fails(w)
  /\ Faulty
  /\ UNCHANGED <<wallet, request, paid, tonVars, credits, history, byHand, asides>>

\* The completed listener adds the next job, or none after a result of false.
Completed(w, name, next) ==
  /\ job[w].name = name
  /\ run[w] \in {"true", "false"}
  /\ run' = [run EXCEPT ![w] = "idle"]
  /\ job' = [job EXCEPT ![w] = IF run[w] = "true" THEN next ELSE Over("ended")]
  /\ UNCHANGED <<wallet, request, paid, tonVars, credits, history, bounds>>

\* The listener throws: the next job is not added, and nothing calls it again.
ListenerThrows(w) ==
  /\ run[w] = "true" /\ job[w].name # "confirmWalletDeploy"
  /\ run' = [run EXCEPT ![w] = "idle"]
  /\ job' = [job EXCEPT ![w] = Over("lost")]
  /\ Faulty
  /\ UNCHANGED <<wallet, request, paid, tonVars, credits, history, byHand, asides>>

-----------------------------------------------------------------------------
(* POST /wallets/create                                                      *)

\* The row is saved before a giver is looked for.
SaveWallet(w) ==
  /\ wallet[w] = NoRow
  /\ wallet' = [wallet EXCEPT ![w] = CreatedRow("ton", "transferer")]
  /\ request' = [request EXCEPT ![w] = "giver"]
  /\ UNCHANGED <<job, run, paid, tonVars, credits, history, bounds>>

\* Without a giver the request fails and the row stays.
FindGiver(w) ==
  /\ request[w] = "giver"
  /\ request' = [request EXCEPT ![w] =
       IF BestMatched("ton", [type |-> "giver"]) # {} THEN "add" ELSE "refused"]
  /\ UNCHANGED <<wallet, job, run, paid, tonVars, credits, history, bounds>>

AddTransferToncoins(w) ==
  /\ request[w] = "add"
  /\ request' = [request EXCEPT ![w] = "done"]
  /\ job' = [job EXCEPT ![w] = NewJob("transferToncoins")]
  /\ UNCHANGED <<wallet, run, paid, tonVars, credits, history, bounds>>

\* The lookup throws, or queue.add does, whether or not Redis has taken the job.
RequestThrows(w) ==
  /\ request[w] \in {"giver", "add"}
  /\ Faulty
  /\ request' = [request EXCEPT ![w] = "cut"]
  /\ \/ UNCHANGED job
     \/ request[w] = "add" /\ job' = [job EXCEPT ![w] = NewJob("transferToncoins")]
  /\ UNCHANGED <<wallet, run, paid, tonVars, credits, history, byHand, asides>>

CreateWallet(w) == SaveWallet(w) \/ FindGiver(w) \/ AddTransferToncoins(w)

-----------------------------------------------------------------------------
(* TRANSFER_TONCOINS_JOB                                                     *)

TransferToncoinsRead(w) ==
  /\ Takes(w, "transferToncoins")
  /\ Goto(w, IF Exists(w) /\ Exists(Giver) THEN "send" ELSE "false")
  /\ UNCHANGED <<wallet, request, paid, tonVars, credits, history, bounds>>

\* The message is handed over, and the handler returns or throws.
TransferToncoinsSend(w) ==
  /\ At(w, "transferToncoins", "send")
  /\ sent' = [sent EXCEPT ![w].toncoins = @ + 1]
  /\ paid' = [paid EXCEPT ![w] = @ + 1]
  /\ \/ Goto(w, "true") /\ UNCHANGED faults
     \/ Fails(w) /\ Faulty
  /\ UNCHANGED <<wallet, request, coins, active, credits, history, byHand, asides>>

\* Mutant: the listener adds the job it was called for.
OnTransferToncoinsAgain(w) ==
  Completed(w, "transferToncoins", NewJob("transferToncoins"))

OnTransferToncoinsCompleted(w) ==
  Completed(w, "transferToncoins", NewJob("confirmToncoinsTransfer"))

-----------------------------------------------------------------------------
(* CONFIRM_TONCOINS_TRANSFER_JOB: whoever the latest transaction is from.    *)

ConfirmToncoinsTransfer(w) ==
  /\ Takes(w, "confirmToncoinsTransfer")
  /\ IF ~Exists(w) THEN Goto(w, "false")
                   ELSE IF w \in coins THEN Goto(w, "true") ELSE Fails(w)
  /\ UNCHANGED <<wallet, request, paid, tonVars, credits, history, bounds>>

OnConfirmToncoinsTransferCompleted(w) ==
  Completed(w, "confirmToncoinsTransfer", NewJob("deployWallet"))

-----------------------------------------------------------------------------
(* DEPLOY_WALLET_JOB                                                         *)

DeployWalletRead(w) ==
  /\ Takes(w, "deployWallet")
  /\ Goto(w, IF Exists(w) THEN "send" ELSE "false")
  /\ UNCHANGED <<wallet, request, paid, tonVars, credits, history, bounds>>

DeployWalletSend(w) ==
  /\ At(w, "deployWallet", "send")
  /\ sent' = [sent EXCEPT ![w].code = @ + 1]
  /\ \/ Goto(w, "true") /\ UNCHANGED faults
     \/ Fails(w) /\ Faulty
  /\ UNCHANGED <<wallet, request, paid, coins, active, credits, history, byHand, asides>>

\* Mutant: the listener is bound to another job name.
OnDeployWalletNever(w) == Completed(w, "deployWallet", Over("ended"))

OnDeployWalletCompleted(w) ==
  Completed(w, "deployWallet", NewJob("confirmWalletDeploy"))

-----------------------------------------------------------------------------
(* CONFIRM_WALLET_DEPLOY_JOB                                                 *)

IsActive(w) == w \in active

ConfirmWalletDeployRead(w) ==
  /\ Takes(w, "confirmWalletDeploy")
  /\ IF ~Exists(w) THEN Goto(w, "false")
                   ELSE IF IsActive(w) THEN Goto(w, "write") ELSE Fails(w)
  /\ UNCHANGED <<wallet, request, paid, tonVars, credits, history, bounds>>

\* The balance is 0 from now on, whatever a swap has written by then.  The handler
\* returns, or throws because the answer to the write is lost.
ConfirmWalletDeployWrite(w) ==
  /\ At(w, "confirmWalletDeploy", "write")
  /\ Update(w, [balance |-> 0, deployed |-> TRUE])
  /\ zeroed' = [zeroed EXCEPT ![w] = @ + 1]
  /\ wiped' = IF Exists(w) /\ wallet[w].balance \notin {Null, 0}
               THEN [wiped EXCEPT ![w] = @ + 1] ELSE wiped
  /\ \/ Goto(w, "true") /\ UNCHANGED faults
     \/ Fails(w) /\ Faulty
  /\ UNCHANGED <<request, paid, tonVars, credits, early, byHand, asides>>

\* Mutant: the listener adds the job it was called for.
OnConfirmWalletDeployAgain(w) ==
  Completed(w, "confirmWalletDeploy", NewJob("confirmWalletDeploy"))

OnConfirmWalletDeployCompleted(w) ==
  Completed(w, "confirmWalletDeploy", Over("ended"))

-----------------------------------------------------------------------------
(* The rest of the service.                                                  *)

\* POST /ton/wallets: the row is written as soon as the message is handed over.
DeployByHand(w) ==
  /\ byHand < MaxByHand
  /\ byHand' = byHand + 1
  /\ Exists(w)
  /\ sent' = [sent EXCEPT ![w].code = @ + 1]
  /\ Update(w, [balance |-> 0, deployed |-> TRUE])
  /\ UNCHANGED <<job, run, request, paid, coins, active, credits, history, asides, faults>>

\* createSwap chooses the wallet for a swap.
PickWallet(w) ==
  /\ w \in BestMatched("ton", [type |-> "transferer", inUse |-> FALSE])
  /\ credits[w] < MaxCredits
  /\ Update(w, [inUse |-> TRUE])
  /\ early' = IF zeroed[w] = 0 THEN early \cup {w} ELSE early
  /\ UNCHANGED <<job, run, request, paid, tonVars, credits, zeroed, wiped, bounds>>

\* conifrmTonTransfer credits it (WalletBalances has what can come in between).
CreditWallet(w) ==
  /\ Exists(w) /\ wallet[w].inUse
  /\ Update(w, [balance |-> Plus(wallet[w].balance, Amount), inUse |-> FALSE])
  /\ credits' = [credits EXCEPT ![w] = @ + 1]
  /\ UNCHANGED <<job, run, request, paid, tonVars, history, bounds>>

\* DELETE /wallets/{id} of a row no swap refers to.
DetachWallet(w) ==
  /\ asides < MaxAsides
  /\ asides' = asides + 1
  /\ Exists(w)
  /\ w \in New => ~wallet[w].inUse /\ credits[w] = 0
  /\ wallet' = [wallet EXCEPT ![w] = Deleted]
  /\ UNCHANGED <<job, run, request, paid, tonVars, credits, history, byHand, faults>>

-----------------------------------------------------------------------------
(* TON: external.                                                            *)

\* Toncoins arrive from the giver, or from somebody else.
Arrive(w) ==
  /\ \/ /\ sent[w].toncoins > 0
        /\ sent' = [sent EXCEPT ![w].toncoins = @ - 1]
        /\ UNCHANGED asides
     \/ /\ Exists(w) /\ w \notin coins
        /\ asides < MaxAsides
        /\ asides' = asides + 1
        /\ UNCHANGED sent
  /\ coins' = coins \cup {w}
  /\ UNCHANGED <<wallet, job, run, request, paid, active, credits, history, byHand, faults>>

\* The code is carried out at an address that can pay for it.
Activate(w) ==
  /\ sent[w].code > 0
  /\ w \in coins
  /\ sent' = [sent EXCEPT ![w].code = @ - 1]
  /\ active' = active \cup {w}
  /\ UNCHANGED <<wallet, job, run, request, paid, coins, credits, history, bounds>>

LoseMessage(w) ==
  /\ Faulty
  /\ \/ sent[w].toncoins > 0 /\ sent' = [sent EXCEPT ![w].toncoins = @ - 1]
     \/ sent[w].code > 0 /\ sent' = [sent EXCEPT ![w].code = @ - 1]
  /\ UNCHANGED <<wallet, job, run, request, paid, coins, active, credits, history,
                 byHand, asides>>

\* The process dies.  Jobs at work are delivered again, MaxStalls times; of a job
\* whose end Redis had recorded before, what its listener had yet to add is lost.
\* Nothing takes up a request.
Redelivered(it) ==
  IF it.stalls < MaxStalls THEN [it EXCEPT !.stalls = @ + 1] ELSE Over("failed")

AfterCrash(w, finished) ==
  CASE run[w] = "idle"                         -> job[w]
    [] run[w] # "idle" /\ w \in finished       -> Over("lost")
    [] run[w] # "idle" /\ w \notin finished    -> Redelivered(job[w])

Crash ==
  /\ Faulty
  /\ \E finished \in SUBSET {w \in New : run[w] \in {"true", "false"}} :
       job' = [w \in New |-> AfterCrash(w, finished)]
  /\ run' = [w \in New |-> "idle"]
  /\ request' = [w \in New |-> IF request[w] \in {"giver", "add"} THEN "cut" ELSE request[w]]
  /\ UNCHANGED <<wallet, paid, tonVars, credits, history, byHand, asides>>

-----------------------------------------------------------------------------
Handler(w) ==
  \/ TransferToncoinsRead(w) \/ TransferToncoinsSend(w) \/ OnTransferToncoinsCompleted(w)
  \/ ConfirmToncoinsTransfer(w) \/ OnConfirmToncoinsTransferCompleted(w)
  \/ DeployWalletRead(w) \/ DeployWalletSend(w) \/ OnDeployWalletCompleted(w)
  \/ ConfirmWalletDeployRead(w) \/ ConfirmWalletDeployWrite(w)
  \/ OnConfirmWalletDeployCompleted(w)

Next ==
  \/ \E w \in New :
       \/ CreateWallet(w) \/ RequestThrows(w)
       \/ Handler(w) \/ HandlerThrows(w) \/ ListenerThrows(w)
       \/ DeployByHand(w) \/ PickWallet(w) \/ CreditWallet(w)
       \/ Arrive(w) \/ Activate(w) \/ LoseMessage(w)
  \/ \E w \in Wallets : DetachWallet(w)
  \/ Crash

Spec == Init /\ [][Next]_vars

\* A request that has saved a row goes on, and workers take jobs and finish them.
FairSpec ==
  /\ Spec
  /\ \A w \in New : WF_vars(FindGiver(w) \/ AddTransferToncoins(w)) /\ WF_vars(Handler(w))

-----------------------------------------------------------------------------
(* Properties.                                                               *)

TypeOK ==
  /\ TableOK
  /\ job \in [New -> [name : JobNames, left : 0..Attempts, stalls : 0..MaxStalls]]
  /\ run \in [New -> RunStages]
  /\ request \in [New -> RequestStages]
  /\ sent \in [New -> [toncoins : Nat, code : Nat]]
  /\ paid \in [New -> Nat] /\ zeroed \in [New -> Nat] /\ wiped \in [New -> Nat]
  /\ coins \subseteq New /\ active \subseteq New /\ early \subseteq New
  /\ credits \in [New -> 0..MaxCredits]

\* The giver pays for a wallet once for every attempt and redelivery of one job,
\* and never again when a later job of the chain is repeated.
GiverPaysBounded == \A w \in New : paid[w] <= Attempts + MaxStalls

\* What swaps have credited is wiped out only by a repetition of confirmWalletDeploy,
\* at most once for each attempt and redelivery of its one job, and by the first
\* attempt to record the deployment only if a swap had chosen the wallet before it:
\* neither an earlier job that is repeated nor a deployment by hand in between, whose
\* own write is not counted, makes it happen once more.
WipesBounded ==
  \A w \in New : wiped[w] <= Attempts + MaxStalls - (IF w \in early THEN 0 ELSE 1)

\* A wallet whose row is saved is deployed in the end, unless no giver was found, the
\* request was cut off before it had added a job (nothing repairs that row), an attempt
\* too many or a crash cut off the chain of jobs, or a row was deleted.
EveryWalletIsDeployed ==
  \A w \in New :
    Exists(w)
      ~> \/ Exists(w) /\ wallet[w].deployed
         \/ request[w] \in {"refused", "cut"} /\ job[w].name = "none"
         \/ job[w].name \in {"failed", "lost"}
         \/ ~Exists(w) \/ ~Exists(Giver)
=============================================================================
