---------------------------- MODULE WalletBalances ----------------------------
(* How the balance column of a wallet follows the tokens of its address.     *)
(*                                                                           *)
(* Nobody computes the balance in SQL.  The confirm job of a swap reads it,  *)
(* waits for the chain and writes it back with the amount added; the fee     *)
(* jobs (and, on TON, the job that looks for the burn) do the same with      *)
(* amounts taken away; SyncWalletsTokenBalanceTask reads the chain, waits    *)
(* and writes what it read; an administrator attaches, updates and detaches  *)
(* rows.  This module puts all of them on the same rows: what they hold in   *)
(* memory between the read and the write is held[a].                         *)
(*                                                                           *)
(* Of a swap it keeps what the row of its source wallet gets to see; how a   *)
(* transfer is recognised and paid out is EthToTon and TonToEth.             *)
EXTENDS WalletTable

CONSTANTS Swaps, Runs, Admins,  \* who reads and writes balances
          NoWallet,
          Stock,                \* tokens an address may have at the start
          Amount,               \* what is paid to the source wallet of a swap
          EthDebits, TonDebits, \* what its jobs then take away, in order
          Dtos,                 \* bodies of PUT /wallets/{id}
          MaxTries,             \* attempts of a job that takes tokens away
          MaxEvents             \* bound: crashes, failing calls, administration

ASSUME AmountAssumption == Amount \in Nat /\ Stock \subseteq Nat
ASSUME DebitsAssumption == {EthDebits, TonDebits} \subseteq Seq(Nat) \ {<<>>}
ASSUME BoundAssumption == {MaxTries, MaxEvents} \subseteq Nat
ASSUME ActorAssumption ==
  /\ Swaps \cap Runs = {} /\ Swaps \cap Admins = {} /\ Runs \cap Admins = {}
  /\ NoWallet \notin Wallets \cup Swaps \cup Runs \cup Admins
  /\ IsFiniteSet(Swaps)
ASSUME DtoAssumption ==
  \A dto \in Dtos :
    /\ DOMAIN dto \subseteq Columns
    /\ \A c \in DOMAIN dto : dto[c] \in Entries(c)

VARIABLES
  blockchain,  \* the one whose rows these are
  chain,    \* the tokens of each address
  use,      \* what each swap has done with its source wallet
  sync,     \* the rows each run of the sync task has yet to write
  held,     \* what each actor holds between its read and its write
  apart,    \* history: wallets whose balance somebody has overtaken
  events    \* bound

vars == <<blockchain, wallet, chain, use, sync, held, apart, events>>

Actors == Swaps \cup Runs \cup Admins

Event == events < MaxEvents /\ events' = events + 1

Stages == {"none", "picked", "marked", "refused", "waiting", "credit", "credited",
           "closed", "debit", "send", "sent", "write", "debited", "done"}

NotHeld == [wallet |-> NoWallet, balance |-> 0, stale |-> FALSE]
NoUse == [stage |-> "none", wallet |-> NoWallet, paid |-> FALSE,
          debits |-> <<>>, tries |-> 0]

Init ==
  /\ blockchain \in Blockchains
  /\ chain \in [Wallets -> Stock]
  /\ wallet \in {[w \in Wallets |-> IF w \in attached
                                    THEN AttachedRow(blockchain, "transferer", chain[w])
                                    ELSE NoRow] : attached \in SUBSET Wallets}
  /\ use = [s \in Swaps |-> NoUse]
  /\ sync = [r \in Runs |-> {}]
  /\ held = [a \in Actors |-> NotHeld]
  /\ apart = {}
  /\ events = 0

-----------------------------------------------------------------------------
(* What is read, and what a write overtakes.  The field stale and apart are  *)
(* history: no guard of the code reads them.                                 *)

\* a reads a balance of w.
Reads(a, w, balance, stale) ==
  held' = [held EXCEPT ![a] = [wallet |-> w, balance |-> balance, stale |-> stale]]

Drops(a) == held' = [held EXCEPT ![a] = NotHeld]

\* a writes the row of w: what others hold of it is stale from now on.
Writes(a, w, columns) ==
  /\ Update(w, columns)
  /\ held' = [b \in Actors |->
                IF b = a THEN NotHeld
                ELSE [held[b] EXCEPT !.stale = @ \/ held[b].wallet = w]]

\* Tokens of some wallets have moved and no job will record it, that of a having
\* given up: what was read off the chain is stale, and the rows are wrong.
MovesAside(a, moved) ==
  /\ apart' = apart \cup moved
  /\ held' = [b \in Actors |->
                IF b = a THEN NotHeld
                ELSE [held[b] EXCEPT
                        !.stale = @ \/ (b \notin Swaps /\ held[b].wallet \in moved)]]

\* A job that adds or takes away an amount is as right as what it had read.
Carries(a) == apart' = IF held[a].stale THEN apart \cup {held[a].wallet} ELSE apart

\* What was read off the chain sets the row right, unless overtaken.
Settles(a) ==
  apart' = IF held[a].stale THEN apart \cup {held[a].wallet}
                            ELSE apart \ {held[a].wallet}

\* The tokens of a swap have moved on the chain and not in the row: paid and not
\* credited, or taken away and not debited.
Uncredited(s) == use[s].paid /\ use[s].stage \in {"waiting", "credit"}
Undebited(s) == use[s].stage \in {"sent", "write"}
InFlight(w) == \E s \in Swaps : use[s].wallet = w /\ (Uncredited(s) \/ Undebited(s))

\* What the jobs of a swap take from its source wallet: the fee, and on TON the
\* burn.
Debits == IF blockchain = "ethereum" THEN EthDebits ELSE TonDebits

Stage(s, stage) == use' = [use EXCEPT ![s].stage = stage]
At(s, stage) == use[s].stage = stage

-----------------------------------------------------------------------------
(* POST /swaps: the wallet is chosen, marked, and then referenced.           *)

PickWallet(s) ==
  /\ At(s, "none")
  /\ \E w \in BestMatched(blockchain, [type |-> "transferer", inUse |-> FALSE]) :
       use' = [use EXCEPT ![s].stage = "picked", ![s].wallet = w]
  /\ UNCHANGED <<blockchain, wallet, chain, sync, held, apart, events>>

MarkWallet(s) ==
  /\ At(s, "picked")
  /\ Update(use[s].wallet, [inUse |-> TRUE])
  /\ Stage(s, "marked")
  /\ UNCHANGED <<blockchain, chain, sync, held, apart, events>>

\* Mutant: the migration lacks the foreign key.
InsertUnchecked(s) ==
  /\ At(s, "marked")
  /\ Stage(s, "waiting")
  /\ UNCHANGED <<blockchain, wallet, chain, sync, held, apart, events>>

\* The foreign key refuses the row when the wallet was detached meanwhile.
InsertSwap(s) ==
  /\ At(s, "marked")
  /\ Stage(s, IF Exists(use[s].wallet) THEN "waiting" ELSE "refused")
  /\ UNCHANGED <<blockchain, wallet, chain, sync, held, apart, events>>

\* The payer transfers, in time or after the swap was closed.
Pay(s) ==
  /\ use[s].stage \in {"waiting", "credit", "closed"}
  /\ ~use[s].paid
  /\ use' = [use EXCEPT ![s].paid = TRUE]
  /\ chain' = [chain EXCEPT ![use[s].wallet] = @ + Amount]
  /\ IF At(s, "closed") THEN MovesAside(s, {use[s].wallet})
                        ELSE UNCHANGED <<held, apart>>
  /\ UNCHANGED <<blockchain, wallet, sync, events>>

-----------------------------------------------------------------------------
(* CONFIRM_ETH_TRANSFER_JOB and CONFIRM_TON_TRANSFER_JOB.                    *)

\* findById brings the row of the wallet along.
CreditRead(s) ==
  /\ At(s, "waiting")
  /\ Reads(s, use[s].wallet, wallet[use[s].wallet].balance, FALSE)
  /\ Stage(s, "credit")
  /\ UNCHANGED <<blockchain, wallet, chain, sync, apart, events>>

\* No transfer yet: the handler throws, and its listener adds the job again.
CreditMiss(s) ==
  /\ At(s, "credit")
  /\ ~use[s].paid
  /\ Drops(s)
  /\ Stage(s, "waiting")
  /\ UNCHANGED <<blockchain, wallet, chain, sync, apart, events>>

\* Mutant: the amount is added to the balance twice.
CreditedTwice(balance) == Plus(balance, 2 * Amount)

Credited(balance) == Plus(balance, Amount)

CreditWrite(s) ==
  /\ At(s, "credit")
  /\ use[s].paid
  /\ Writes(s, use[s].wallet, [balance |-> Credited(held[s].balance), inUse |-> FALSE])
  /\ Carries(s)
  /\ Stage(s, "credited")
  /\ UNCHANGED <<blockchain, chain, sync, events>>

\* A POST that fails once its job is queued fails the row and releases the wallet:
\* a handler that has read the row goes on to its credit.
Release(s) ==
  /\ use[s].stage \in {"waiting", "credit"}
  /\ Update(use[s].wallet, [inUse |-> FALSE])
  /\ UNCHANGED <<blockchain, chain, use, sync, held, apart, events>>

\* The handler's own end: canceled, failed or expired when it looks, not
\* recalculated, no minter.  The wallet is released, even when the payment has
\* arrived.
Close(s) ==
  /\ use[s].stage \in {"waiting", "credit"}
  /\ Stage(s, "closed")
  /\ Update(use[s].wallet, [inUse |-> FALSE])
  /\ IF use[s].paid THEN MovesAside(s, {use[s].wallet})
                    ELSE Drops(s) /\ UNCHANGED apart
  /\ UNCHANGED <<blockchain, chain, sync, events>>

\* Redis has the job as completed, and its listener has added what comes next.
Return(s) ==
  /\ \/ /\ At(s, "credited")
        /\ use' = [use EXCEPT ![s].stage = "debit", ![s].debits = Debits]
     \/ /\ At(s, "debited")
        /\ use' = [use EXCEPT
             ![s].debits = Tail(@), ![s].tries = 0,
             ![s].stage = IF Len(use[s].debits) = 1 THEN "done" ELSE "debit"]
  /\ UNCHANGED <<blockchain, wallet, chain, sync, held, apart, events>>

-----------------------------------------------------------------------------
(* TRANSFER_ETH_FEE_JOB reads, sends and writes in one handler.  On TON one  *)
(* job sends (TRANSFER_TON_FEE_JOB, BURN_TON_JETTONS_JOB), and the next one  *)
(* reads, finds the transaction and writes.                                  *)

DebitRead(s) ==
  /\ \/ blockchain = "ethereum" /\ At(s, "debit") /\ Stage(s, "send")
     \/ blockchain = "ton" /\ At(s, "sent") /\ Stage(s, "write")
  /\ use[s].tries < MaxTries
  /\ Reads(s, use[s].wallet, wallet[use[s].wallet].balance, FALSE)
  /\ UNCHANGED <<blockchain, wallet, chain, sync, apart, events>>

Due(s) == Head(use[s].debits)

\* A transfer the wallet cannot cover takes nothing away and is not recorded.
DebitSend(s) ==
  /\ \/ blockchain = "ethereum" /\ At(s, "send") /\ Stage(s, "write")
     \/ blockchain = "ton" /\ At(s, "debit") /\ Stage(s, "sent")
  /\ chain[use[s].wallet] >= Due(s)
  /\ chain' = [chain EXCEPT ![use[s].wallet] = @ - Due(s)]
  /\ UNCHANGED <<blockchain, wallet, sync, held, apart, events>>

Debited(s) == Plus(held[s].balance, -Due(s))

DebitWrite(s) ==
  /\ At(s, "write")
  /\ Admitted(Debited(s))
  /\ Writes(s, use[s].wallet, [balance |-> Debited(s)])
  /\ Carries(s)
  /\ Stage(s, "debited")
  /\ UNCHANGED <<blockchain, chain, sync, events>>

\* A handler throws between its read and its write: the node refuses the
\* transfer, or the CHECK of the column refuses the balance.  On Ethereum the
\* next attempt sends again.
DebitThrows(s) ==
  /\ \/ At(s, "send") /\ chain[use[s].wallet] < Due(s)
     \/ At(s, "write") /\ ~Admitted(Debited(s))
  /\ use' = [use EXCEPT ![s].tries = @ + 1,
                        ![s].stage = IF blockchain = "ton" THEN "sent" ELSE "debit"]
  /\ IF blockchain = "ethereum" /\ At(s, "write")
     THEN MovesAside(s, {use[s].wallet})
     ELSE Drops(s) /\ UNCHANGED apart
  /\ UNCHANGED <<blockchain, wallet, chain, sync, events>>

\* The attempts are used up, the transaction is never found, or ultimateExpiresAt
\* has passed: the jobs of the swap end here.
GiveUp(s) ==
  /\ use[s].stage \in {"debit", "sent"}
  /\ Stage(s, "done")
  /\ IF At(s, "sent") THEN MovesAside(s, {use[s].wallet}) ELSE UNCHANGED <<held, apart>>
  /\ UNCHANGED <<blockchain, wallet, chain, sync, events>>

-----------------------------------------------------------------------------
(* SyncWalletsTokenBalanceTask: every hour, and on request, so that runs may *)
(* overlap.                                                                  *)

\* Mutant: the task leaves out disabled wallets and those without tokens.
ListedNonEmpty ==
  {w \in FindAll([disabled |-> FALSE]) :
     wallet[w].balance # 0 /\ (blockchain = "ethereum" => ~wallet[w].inUse)}

\* Only runEthereum passes over wallets in use, only runTon over rows without a
\* jetton wallet.
Listed ==
  IF blockchain = "ethereum"
  THEN FindAll([inUse |-> FALSE, disabled |-> FALSE])
  ELSE {w \in FindAll([disabled |-> FALSE]) : MayServe(blockchain, w)}

SyncStart(r) ==
  /\ sync[r] = {}
  /\ Listed # {}
  /\ sync' = [sync EXCEPT ![r] = Listed]
  /\ UNCHANGED <<blockchain, wallet, chain, use, held, apart, events>>

\* The next row of the list as it was read, perhaps long ago.
SyncRead(r) ==
  /\ held[r] = NotHeld
  /\ \E w \in sync[r] : Reads(r, w, chain[w], InFlight(w))
  /\ UNCHANGED <<blockchain, wallet, chain, use, sync, apart, events>>

\* The chain does not answer: runEthereum ends, runTon takes it for no tokens.
SyncMiss(r) ==
  /\ held[r] = NotHeld
  /\ Event
  /\ \E w \in sync[r] :
       \/ /\ blockchain = "ethereum"
          /\ sync' = [sync EXCEPT ![r] = {}]
          /\ UNCHANGED held
       \/ /\ blockchain = "ton"
          /\ Reads(r, w, 0, TRUE)
          /\ UNCHANGED sync
  /\ UNCHANGED <<blockchain, wallet, chain, use, apart>>

SyncWrite(r) ==
  /\ held[r] # NotHeld
  /\ Writes(r, held[r].wallet, [balance |-> held[r].balance])
  /\ Settles(r)
  /\ sync' = [sync EXCEPT ![r] = @ \ {held[r].wallet}]
  /\ UNCHANGED <<blockchain, chain, use, events>>

-----------------------------------------------------------------------------
(* WalletsController, and what administrators do on the chains.              *)

\* POST /wallets/attach: no row has the address yet.  Requests that overlap are one
\* event.
AttachRead(a) ==
  /\ held[a] = NotHeld
  /\ \E w \in Wallets :
       /\ wallet[w] = NoRow
       /\ \/ Reads(a, w, chain[w], FALSE)
          \/ blockchain = "ton" /\ Reads(a, w, 0, TRUE)
  /\ \/ Event
     \/ (\E b \in Admins : held[b] # NotHeld) /\ UNCHANGED events
  /\ UNCHANGED <<blockchain, wallet, chain, use, sync, apart>>

\* The address is unique: the second of two requests is refused.  (An address
\* is not attached again once its row is deleted: rows are known by their id.)
AttachSave(a) ==
  /\ held[a] # NotHeld
  /\ LET w == held[a].wallet
     IN IF wallet[w] # NoRow
        THEN Drops(a) /\ UNCHANGED <<wallet, apart>>
        ELSE /\ wallet' = [wallet EXCEPT
                            ![w] = AttachedRow(blockchain, "transferer", held[a].balance)]
             /\ Drops(a)
             /\ Settles(a)
  /\ UNCHANGED <<blockchain, chain, use, sync, events>>

\* POST /wallets/create, at an address nobody has used.  A wallet of TON needs to
\* be deployed: WalletDeploy.
CreateWallet(w) ==
  /\ blockchain = "ethereum"
  /\ wallet[w] = NoRow /\ chain[w] = 0 /\ \A a \in Admins : held[a].wallet # w
  /\ wallet' = [wallet EXCEPT ![w] = CreatedRow(blockchain, "transferer")]
  /\ apart' = apart \cup {w}
  /\ Event
  /\ UNCHANGED <<blockchain, chain, use, sync, held>>

\* PUT /wallets/{id} makes a Quantity of the balance, given or not.
PutColumns(dto) ==
  [c \in DOMAIN dto \cup {"balance"} |-> IF c \in DOMAIN dto THEN dto[c] ELSE NaN]

UpdateWallet(w, dto) ==
  /\ Exists(w)
  /\ Writes(NoWallet, w, PutColumns(dto))
  /\ apart' = apart \cup {w}
  /\ Event
  /\ UNCHANGED <<blockchain, chain, use, sync>>

Referenced(w) ==
  \E s \in Swaps : /\ use[s].wallet = w
                   /\ use[s].stage \notin {"none", "picked", "marked", "refused"}

\* DELETE /wallets/{id}, which the foreign key refuses once a swap has the wallet.
DetachWallet(w) ==
  /\ Exists(w) /\ ~Referenced(w)
  /\ wallet' = [wallet EXCEPT ![w] = Deleted]
  /\ Event
  /\ UNCHANGED <<blockchain, chain, use, sync, held, apart>>

\* A token leaves w, or none does, and arrives at v, or at somebody else's.
Moves(w, v) ==
  /\ w \in Wallets => Exists(w) /\ chain[w] > 0
  /\ chain' = [u \in Wallets |->
       chain[u] - (IF u = w THEN 1 ELSE 0) + (IF u = v THEN 1 ELSE 0)]
  /\ MovesAside(NoWallet, {w, v} \cap Wallets)
  /\ Event
  /\ UNCHANGED <<blockchain, wallet, use, sync>>

\* PUT /ethereum/wallets/transfer-tokens, and a swap paid out of its destination
\* wallet: the rows are not written.
TransferTokens(w, v) == blockchain = "ethereum" /\ Moves(w, v)

\* PUT /ton/wallets/transfer-jettons, .../burn-jettons and /ton/minters/mint-jettons.
TransferJettons(w, v) == blockchain = "ton" /\ Moves(w, v)
BurnJettons(w) == blockchain = "ton" /\ Moves(w, NoWallet)
MintJettons(v) == blockchain = "ton" /\ Moves(NoWallet, v)

-----------------------------------------------------------------------------
(* The process dies: handlers, requests and runs are gone.  Bull delivers a  *)
(* job again when Redis had not recorded it as completed, whatever it had    *)
(* done by then.                                                             *)

Restarted(s) ==
  CASE use[s].stage \in {"picked", "marked"}  -> "refused"
    [] use[s].stage \in {"credit", "credited"} -> "waiting"
    [] use[s].stage \in {"send", "write", "debited"}
         -> IF blockchain = "ton" THEN "sent" ELSE "debit"
    [] OTHER -> use[s].stage

\* Credited or debited once more, or sent and forgotten.
Repeats(s) ==
  \/ At(s, "credited")
  \/ At(s, "debited") /\ blockchain = "ton"
  \/ At(s, "write") /\ blockchain = "ethereum"

Crash ==
  /\ Event
  /\ use' = [s \in Swaps |-> [use[s] EXCEPT !.stage = Restarted(s)]]
  /\ sync' = [r \in Runs |-> {}]
  /\ held' = [a \in Actors |-> NotHeld]
  /\ apart' = apart \cup {use[s].wallet : s \in {t \in Swaps : Repeats(t)}}
  /\ UNCHANGED <<blockchain, wallet, chain>>

-----------------------------------------------------------------------------
Handler(s) ==
  \/ CreditRead(s) \/ CreditMiss(s) \/ CreditWrite(s) \/ Return(s)
  \/ DebitRead(s) \/ DebitSend(s) \/ DebitWrite(s) \/ DebitThrows(s)

Swap(s) ==
  \/ PickWallet(s) \/ MarkWallet(s) \/ InsertSwap(s) \/ Pay(s)
  \/ Handler(s) \/ Release(s) \/ Close(s) \/ GiveUp(s)

Sync(r) == SyncStart(r) \/ SyncRead(r) \/ SyncMiss(r) \/ SyncWrite(r)

Administration ==
  \/ \E a \in Admins : AttachRead(a) \/ AttachSave(a)
  \/ \E w \in Wallets :
       CreateWallet(w) \/ DetachWallet(w) \/ BurnJettons(w) \/ MintJettons(w)
  \/ \E w \in Wallets, v \in Wallets \cup {NoWallet} :
       v # w /\ (TransferTokens(w, v) \/ TransferJettons(w, v))
  \/ \E w \in Wallets, dto \in Dtos : UpdateWallet(w, dto)

Next ==
  \/ \E s \in Swaps : Swap(s)
  \/ \E r \in Runs : Sync(r)
  \/ Administration
  \/ Crash

Spec == Init /\ [][Next]_vars

\* A worker goes on with the handler it has begun, and the scheduler starts the
\* task again every hour.
Fairness ==
  /\ \A s \in Swaps : WF_vars(CreditWrite(s)) /\ WF_vars(DebitWrite(s))
  /\ \A r \in Runs : WF_vars(SyncStart(r)) /\ WF_vars(SyncWrite(r)) /\ WF_vars(SyncRead(r))

FairSpec == Spec /\ Fairness

-----------------------------------------------------------------------------
(* Properties.                                                               *)

TypeOK ==
  /\ blockchain \in Blockchains
  /\ TableOK
  /\ chain \in [Wallets -> Nat]
  /\ use \in [Swaps -> [stage : Stages, wallet : Wallets \cup {NoWallet},
                        paid : BOOLEAN, debits : Seq(Nat), tries : Nat]]
  /\ sync \in [Runs -> SUBSET Wallets]
  /\ held \in [Actors -> [wallet : Wallets \cup {NoWallet}, balance : Balances,
                          stale : BOOLEAN]]
  /\ apart \subseteq Wallets
  /\ events \in 0..MaxEvents

Of(w) == {s \in Swaps : use[s].wallet = w}
Total(tokens) == Cardinality(UNION {{s} \X (1..tokens[s]) : s \in DOMAIN tokens})
Credits(w) == Total([s \in {t \in Of(w) : Uncredited(t)} |-> Amount])
Charges(w) == Total([s \in {t \in Of(w) : Undebited(t)} |-> Due(s)])

\* The balance of the table plus what swaps have received and not credited, less
\* what they have taken away and not debited, is what the address has: reads and
\* writes minutes apart (the confirm and fee jobs, the sync task) spoil it only
\* where one overtook another, or where tokens moved that no job records.
ExactUnlessOvertaken ==
  \A w \in Wallets :
    Exists(w) /\ w \notin apart
      => /\ wallet[w].balance \in Nat
         /\ wallet[w].balance + Credits(w) = chain[w] + Charges(w)

\* The wallet a swap waits to be paid at is not detached under it, however the
\* request that chose the wallet and the DELETE interleave.
SwapsKeepTheirWallet == \A w \in Wallets : Referenced(w) => Exists(w)

Watched(w) ==
  /\ Exists(w)
  /\ ~wallet[w].disabled
  /\ blockchain = "ethereum" => ~wallet[w].inUse

\* Whatever was overtaken, lost or spent, the sync task sets the balance right in
\* the end: of every wallet that is not disabled and, on Ethereum, not in use.
TablesHeal ==
  <>[](\A w \in Wallets : Watched(w) => wallet[w].balance = chain[w])
=============================================================================
