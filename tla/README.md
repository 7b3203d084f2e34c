# Verification of the ETH-TON swap service

The service swaps an ERC-20 token on Ethereum for a jetton on TON and back. A
user asks for a swap, is told a wallet to pay to, and is paid on the other chain
once the payment is confirmed. It is one Node.js process (NestJS) with a
PostgreSQL database and Bull queues in Redis, which talks to Ethereum through
Infura and to TON through toncenter. All paths below are relative to `src/src/`.

## 1. The system

### 1.1 Components

| component | state it keeps | operations | talks to |
|---|---|---|---|
| `swaps/controllers/swaps.controller.ts` | rows of `swap`; `inUse` of a `wallet` row | create, cancel, search, get, events | tables, both source queues, both chains |
| `swaps/processors/eth-source-swaps.processor.ts` | row, wallet row, jobs | confirm the ERC-20 transfer, wait for each further confirmation, transfer the fee | TON destination queue, Infura |
| `swaps/processors/ton-destination-swaps.processor.ts` | row, jobs | mint jettons, look for the mint | Ethereum source queue (fee), toncenter |
| `swaps/processors/ton-source-swaps.processor.ts` | row, wallet row, jobs | confirm the jetton transfer, transfer the fee, look for it, burn, look for the burn | Ethereum destination queue, toncenter |
| `swaps/processors/eth-destination-swaps.processor.ts` | row, jobs | transfer ERC-20 tokens and wait for them | TON source queue (fee), Infura |
| `swaps/providers/swaps.helper.ts` | row, wallet row | end a swap (canceled, expired, not recalculated, no minter), recalculate, `isSwapProcessable` | tables |
| `common/providers/quantity.ts` | - | round an amount to the decimals of a token | - |
| `swaps/providers/swaps.repository.ts`, `wallets/providers/wallets.repository.ts` | tables `swap` and `wallet` | insert, update by id, find | PostgreSQL |
| `wallets/processors/wallets.processor.ts` | wallet row, jobs | fund and deploy a TON wallet in four jobs | toncenter |
| `wallets/controllers/wallets.controller.ts` | wallet row | create, attach, update, detach | tables, both chains |
| `wallets/tasks/*.task.ts` | wallet row, giver wallets on chain | hourly, or on request: copy balances from the chains, fund wallets | both chains |
| `tokens/controllers/tokens.controller.ts`, `tokens/tasks/sync-tokens-price.task.ts` | token rows | register, edit; once a day, or on request: price the tokens | tables, coinmarketcap |
| `settings/controllers/settings.controller.ts`, `ton/controllers/*`, `ethereum/controllers/*` | setting row; wallet row, tokens on chain | register the minimum of coins; deploy, transfer, burn, mint by hand | tables, both chains |
| `ethereum/providers/*`, `ton/providers/*` | - | log windows, confirmations, latest transaction of a jetton wallet, messages with a sequence number | the chains |
| `stats`, `auth`, `users`, `config` | their rows | counts, login | - |

A swap lives in five places that are never updated together: its row, the row of
its source wallet, its job in Redis, the handler or listener that holds a copy
of the row in memory, and the chains. Components interact through the tables and
through jobs: a handler returns, Redis records the job as finished, and a
listener *of the same process* adds the next job.

### 1.2 What is hard in it

- **Interleaving.** Every database, Redis or chain call is an await. Between the
  read of a row and the write that depends on it any other handler, request or
  task runs (allocation of a wallet, cancellation, balances).
- **Retries and redelivery.** Handlers send before they record. A throw, or a
  stalled job that Bull delivers again, repeats the side effect.
- **Crashes.** What the queue does not hold is lost: a request between two
  writes, a listener that had yet to add the next job.
- **Time.** Three deadlines (`expiresAt`, `extendedExpiresAt`,
  `ultimateExpiresAt`) are compared at different points, each after a fresh read.
- **Identity of payments.** A transfer is recognised by wallet, window and time,
  not by the swap; wallets are used again.
- **Rounding.** Amounts are decimal strings cut to a token's decimals.

### 1.3 What makes each component correct

- *Amounts*: nothing is created by rounding; what is paid out and charged stays
  within what was received.
- *Request*: a wallet is marked while a swap waits for its transfer, and every
  error path gives it back.
- *Source side*: no transfer in time is passed over, no transfer pays twice, the
  amounts of the row are those of the transfer.
- *Destination side*: nothing is paid without a transfer that is deep enough; a
  swap is charged only after a payment of its own was handed to the other chain;
  repeats are bounded.
- *Whole*: a swap settles, its wallet returns, a settled status stays.
- *Limit of pending swaps*: an address gets past it by no more than the requests
  it has at work, and is served again once its swaps have ended.
- *Balances*: the balance of the table is that of the chain but for what swaps
  have under way, unless one read and write overtook another; the hourly task
  sets it right in the end.
- *Deployment*: the giver pays a bounded number of times, the credits of swaps are
  wiped out a bounded number of times, and the wallet is deployed in the end.
- *Deposits*: a wallet is raised to the minimum, and no further.
- *Messages to TON*: a message is lost only to another one with its number, and none
  is when nobody else signs for the wallet.
- *Tokens*: one row for one token, with the price of its own currency.

`PROJECT.json` lists the hazards line by line, with the properties that watch
each of them.

## 2. Modules

| module | models | checked by | proved in |
|---|---|---|---|
| `SwapAmounts` | `Quantity`, fee and destination amount, limits, `recalculateSwap` | `ethton_one` | `SwapJobs_proofs`, first part |
| `SwapJobs` | what both directions share: POST and DELETE, the two tables, the life of a Bull job and of its handler, `SwapsHelper`, failures and crashes | through the next two | `SwapJobs_proofs` |
| `EthToTon` | a swap from Ethereum to TON: the five jobs of `EthSourceSwapsProcessor` and `TonDestinationSwapsProcessor` with their listeners, and both chains | `ethton_one`, `ethton_two`, `ethton_reuse`, `ethton_foreign` | `EthToTon_proofs` |
| `TonToEth` | a swap from TON to Ethereum: the six jobs of `TonSourceSwapsProcessor` and `EthDestinationSwapsProcessor`, and both chains | `toneth_one`, `toneth_reserve` | `TonToEth_proofs` |
| `SwapPromise` | abstract: what the bridge promises in either direction | implemented by `EthToTon` and `TonToEth` | both, `KeepsThePromise` |
| `SwapRequests` | POST /swaps of one address against the limit of its pending swaps | `swap_requests` | `Controllers_proofs`, first part |
| `WalletTable` | the rows of one blockchain, the queries and writes of `WalletsRepository`; NULL and NaN | through the next three | |
| `WalletBalances` | swaps, `SyncWalletsTokenBalanceTask` and administrators on the balance column | `balances` | `WalletBalances_proofs` |
| `WalletDeploy` | POST /wallets/create on TON, the four jobs of `WalletsProcessor`, POST /ton/wallets | `wallet_deploy` | `WalletDeploy_proofs` |
| `WalletDeposits` | `DepositWalletsBalanceTask` on both chains | `deposits` | `WalletDeposits_proofs` |
| `TonMessages` | `TonContractService.transfer` and the sequence number of a wallet | `ton_messages` | `TonMessages_proofs` |
| `TokenCatalogue` | POST and PUT /tokens, `SyncTokensPriceTask` | `tokens` | `Controllers_proofs`, second part |
| `MC*` | the instances TLC runs | | |

`EthToTon` and `TonToEth` extend `SwapJobs`, which extends `SwapAmounts`; the
modules with proofs extend one another in the same way. No action of `SwapJobs`
mentions a chain, so a direction only adds `UNCHANGED world` to it. The three
wallet modules extend `WalletTable`.

The parts are composed through what one promises the other. A direction takes TON
to carry a message out once or never and Ethereum to execute or revert a payment.
`TonMessages` has, for TON, when a call that returned may have lost its message: only
to another message with its number. `WalletBalances`
reduces a swap to what the row of its source wallet gets to see of it (chosen,
paid, credited, debited, closed, released), and `WalletDeploy` to the credit.

### 2.1 SwapAmounts

An amount is a natural number of *grains*, small enough that the base unit of
both tokens is a whole number of them. BigNumber multiplies exactly, so only
`Quantity.toString` (`toFixed` under `ROUND_DOWN`) loses something: `ToFixed` is
that rounding, over fractions with the denominator of the fee rate. `Stored*` are
the values the columns of the row get.

### 2.2 SwapJobs

| variable | in the code |
|---|---|
| `swap`, `wallet` | the rows, with the columns the handlers read or write |
| `job` | the job of the swap in Redis: name, block or confirmation, transaction, attempts left, stalls |
| `run` | the handler or listener at work: the await it is at and what it holds in memory |
| `request`, `cancel` | the POST and the DELETE of the swap |
| `age` | how many of the three deadlines have passed |
| `faults` | crashes and failing calls so far |

A handler is cut at the awaits whose neighbours someone else can observe, and an
action is the code between two of them. `confirmEthTransfer`, for one, is
`ConfirmRead` (row and wallet are read, cancellation and deadline are checked),
`ConfirmScan` (the block and its logs), `ConfirmWriteRow`, `ConfirmCredit`; its
listeners are `OnConfirmFailed` and `OnConfirmCompleted`. A handler that throws
goes through `Fails`: Bull takes an attempt, and when none is left only the
confirm job has a listener that goes on. `Crash` empties the memory: jobs that
were active are delivered again (`Redelivered`, `maxStalledCount` times), jobs
Redis had recorded as finished are not (`Orphaned`).

Since there is one row per swap and one job per swap at a time (each job is added
by the listener of the one before), `job[s]` is one record and not a bag.

What the abstraction leaves out: addresses and transaction ids other than as
identities, events, gas prices, statusCode, logging. Priorities, delays and
back-off of jobs only say when a worker takes a job and exclude no order, so any
waiting job may be taken. Handlers return early when the row of the swap or the
receipt is missing; rows are never deleted and transactions found in a log are
mined, so those branches are unreachable.

### 2.3 EthToTon

| variable | in the code |
|---|---|
| `chain` | Ethereum: what each block transfers to one of the service's wallets |
| `mints` | the mint messages handed to TON, in order |
| `ton` | what came in at the users' jetton wallets, in order |
| `fees` | how many fee transfers were broadcast for each swap |

An entry of `ton` is the execution of a message of `mints` (`MintExecuted`) or a
transfer of somebody else to the user (`OthersPay`). A message is executed at most once,
at any time after it was handed over, or never. `getTonMintTransaction` does not tell the
two kinds apart: `findTransaction` takes the latest internal transfer at the recipient's
jetton wallet that is not older than the swap, whoever sent it and whatever its amount,
and so does `MintFound`. Incoming transfers can be told apart in the model only by
properties.

### 2.4 TonToEth

`ton` is the sequence of transactions of all jetton wallets (at which wallet,
which operation, how much, by whom), `eth` the payments broadcast, each executed
or reverted, and `reserve` the tokens left in the destination wallet.

Nothing is scanned in this direction. `findTransaction` looks at the latest
transaction of one jetton wallet and takes it if it has the operation asked for
and is not older than the swap: that is `Found`, and positions in `ton` stand for
the times compared. (The chain's time is cut to seconds and the clocks of chain
and database differ; neither is modelled.) `conifrmTonTransfer` looks at the
source wallet and then at the *sender's* wallet, whose latest outgoing transfer
is recorded whoever it went to. A transfer the jetton wallet refuses leaves its
outgoing half only, a burn it refuses is still a transaction of the wallet. A
payment carries a gas limit, so nothing is estimated and a payment the wallet
cannot cover is broadcast and reverts; `waitForTransaction` resolves with either
receipt. `createSwap` compares the quote with the balance the *table* shows of the
destination wallet, which payments do not change: the guard of `Create` reads the
constant `Reserve`. The block number that the first job carries is read by nobody.

### 2.5 SwapPromise

`received[s]` is the set of amounts that arrived at the wallet of `s` since `s` was
given it, `payouts` the payments handed to the other chain and `charged` the swaps
whose fee was taken. The mapping is given in the direction itself (`Promise` in
`EthToTon` and `TonToEth`): transfers on the source chain; `mints`, or the payments
broadcast; and the fees. It says what retries may not do: pay another amount, another
address, or for nothing, or charge a swap no payment was tried for; and no more, since
the code does pay a swap twice after a crash. Above all it does not say that a payment
was *carried out*: the bridge cannot tell a mint from another transfer, nor a reverted
payment from one that was executed. What follows from that is in section 6
(`CompletedIsMinted`, `CompletedIsPaid`).

### 2.6 SwapRequests

`createSwap` counts the pending swaps of the address and inserts the row six awaits
later. A request is cut there: counted in, wallet picked, marked, row saved, job
added, or the two writes of the error path. Of what ends a swap there is the change
of its status and of its job. A client sends one request at a time; several clients
may share an address.

### 2.7 WalletTable and WalletBalances

A balance is a number, NULL (nobody has written it) or NaN: `Quantity` makes the
string `NaN` of a missing value, and a numeric column takes it. `AtLeast` and
`Before` are what PostgreSQL makes of the three in `>=` and in ORDER BY. The queries
take the blockchain as `WalletsRepository` does; a run looks at the rows of one,
which `blockchain` names from the start.

| variable | in the code |
|---|---|
| `chain` | the tokens of each address |
| `use` | how far each swap has come with its source wallet |
| `sync` | the rows each run of the sync task has yet to write |
| `held` | what each actor holds in memory between its read and its write |
| `apart` | history: wallets with an overtaken write, or tokens moved unrecorded |

`stale` in `held` and `apart` are history variables: they note that somebody wrote
the row, or moved tokens, between a read and the write that used it. No guard reads
them. They make the invariant exact: where nothing was overtaken, the balance plus
what swaps have under way *is* the balance on the chain. `Credits` and `Charges` count
that token by token, as the size of a set of pairs of a swap and a number.

### 2.8 WalletDeploy

The row of a new wallet of TON is saved before its four jobs run, and
`findBestMatchedOne` does not look at `deployed`, so a swap may use it meanwhile.
POST /wallets/create is cut at its awaits (`request`): the row is saved, a giver is
looked for, the first job is added. A call that throws after the row was saved, or a
crash there, leaves a row without a job (`RequestThrows`, `cut`), which nothing repairs;
`queue.add` may also throw once Redis has the job. Handlers are cut before their message
and before their write, and a write may be committed and throw. After a crash a job at
work is delivered again (`Redelivered`), and one whose handler had returned either is,
or is lost with what its listener had yet to add: it depends on whether Redis had heard;
`sent`, `coins` and `active` are TON. `DeployByHand` is POST /ton/wallets, which writes
the row as soon as its message is handed over. `zeroed`, `wiped` and `early` are history:
how often `confirmWalletDeploy` has written its columns (a balance of zero among them),
how often that was over a credit, and which wallets a swap had chosen before it had
written them for the first time.

### 2.9 WalletDeposits

A run reads the wallets, the givers and the setting, and then one balance after the
other; each deposit takes a giver off the list. `pending` holds the deposits on
their way, numbered from the next one of their giver: ethers counts pending
transactions, the wallet of TON those carried out, so that two deposits of two runs
may have one number there. On Ethereum a giver that cannot pay ends the run; on TON
its message moves nothing.

### 2.10 TonMessages

One call of `transfer()` per caller: the number is read, then the message is signed
and sent; the call may throw before or after toncenter took it, and Bull calls
again. `Takes` is the check of TON's wallet contract and external: it carries out the
message with the next number. `crossed` is history: the callers whose read and send
overlapped another call of their wallet. A deployment carries the number 0.

### 2.11 TokenCatalogue

A request is cut between its find and its write (`writing`). The columns are the
address, the decimals, the currency, the price (named by the currency it was quoted
for) and one more, the rank, that stands for those findAll orders by. A run of the task
has the rows as findAll returned them. `save()` with the id of a row updates it, and
the unique index (`Taken`) makes it throw where another row has the address.

## 3. Runs

| run | instance | question |
|---|---|---|
| `ethton_one` | one swap, one wallet, 2 faults, 2 transfers (right, other) in 5 blocks, one mint that may come in | every interleaving of one life with crashes, failures, deadlines and a DELETE; the promise; does it settle, does its wallet return; and rounding and conservation for all amounts 0..120 |
| `ethton_two` | two swaps, one wallet, one recipient, a transfer (right or too small) in 4 blocks, one incoming jetton transfer of anybody, no fault and no deadline | allocation, reuse and sharing of a wallet; a charge after a mint of another swap, or after a transfer of somebody else |
| `ethton_reuse` | two swaps, no fault | expected violation, see section 6 |
| `ethton_foreign` | one swap, no fault, one incoming jetton transfer of anybody | expected violation, see section 6 |
| `toneth_one` | one swap, one wallet, 2 faults, 2 transfers (another amount, too small) to the wallet or to anybody | every interleaving of one life in the other direction; the promise; does it settle |
| `toneth_reserve` | one swap, no fault, 60 received and 40 in reserve | expected violation, see section 6 |
| `swap_requests` | two clients of one address, three rows, two wallets, 2 faults, limit 0 | is the limit passed by more than the requests at work; is an address served again |
| `balances` | either chain, two swaps, one row, one run, two administrators, one event (crash, failing call, administration) | which writes may spoil a balance; does the task set it right |
| `wallet_deploy` | one new wallet, one giver, 2 attempts, a stall, 2 faults, 3 credits, a deployment by hand | a request cut off, retries and redelivery of four jobs, against swaps on the wallet |
| `deposits` | either chain, two overlapping runs, two wallets, one giver, 2 deposits on their way, one event | is a wallet paid too much; is every wallet raised |
| `ton_messages` | three callers, two of one wallet, one that deploys its own; 2 attempts, 2 faults | numbers read at once, retries, loss |
| `tokens` | two administrators, two rows, two addresses, three currencies of which two are listed, one run, 3 requests, a failing call | overlapping requests and prices |

### 3.1 Properties

Every module with variables has a type invariant (`TypeOK`, `TokensOK`), and each is a
theorem. `ethton_one` checks one of them; in the other runs it would say no more than
the theorem does.

Of both directions (`InUseIsHeld`, `FinalButForLatecomers` and `EveryWalletReturns`
are about actions of `SwapJobs` and run in one of them, `EthToTon`; the theorems are
about both):

- `NoSwapIsForgotten`: a row that reads pending or confirmed has a request or a job
  that leads to one that settles it, unless a crash or the last attempt cut its chain
  off. The chain hangs on what each handler returns: a listener adds no next job for
  one that returned a settled status, so whoever returns that has to have written it.
- `InUseIsHeld`: a wallet in use belongs to a request or job that will release
  it, or to one a crash cut off.
- `RepeatsAreBounded`: retries and redeliveries pay, charge and burn again, never
  more often than the job has attempts and stalls.
- `FinalButForLatecomers`: who may overwrite a status completed or expired.
- `ImplementsPromise`: every step is a receipt, a payment or a charge of
  `SwapPromise`, or none of them.
- `EverySwapSettles`, `EveryWalletReturns` (liveness).

Ethereum to TON:

- `NoValueCreated`, `QuoteOverpaysBelowUnit`, `RecalculatedIsCharged`: of every amount
  up to the limit that may be asked for next (the POST is yet to come) or transferred
  next (the row is pending), parts of a base unit among them: what rounding, fee and
  destination amount make of it. `TonToEth` computes them with the same definitions.
- `MintBacked`, `MintWithinTransfer`: a mint needs a transfer to the source
  wallet, buried by `TotalConfirmations`, and stays within its amount.
- `NoTransferPassedOver`: the cursor of the scan skips no block that pays.
- `SharedTransferIsRecent`: two swaps share a transfer only through the look-back.
- `TransferIsKept`: a swap that took a transfer keeps it and the amounts computed from
  it, whatever is delivered or added again; its confirmations go up only, and never
  above those the chain has. (There is no such property in the other direction: see
  section 6.)
- `ChargedAfterMint`: a swap that reads completed or was charged has handed a mint of
  its own to TON, and jettons have come in for its recipient since it was created. The
  two are found by jobs apart, each retried and redelivered. It does not say that the
  mint was executed: see section 6.

TON to Ethereum:

- `PayoutBacked`, `PayoutWithinTransfer`: a payment needs jettons received since
  the swap was created, and stays within them.
- `ChargedAfterPayout`: no fee, burn, or record of them before a payment of the swap was
  broadcast. A payment that was reverted counts, as it does for the handler, which does
  not look at the receipt: that the swap was *paid* is `CompletedIsPaid`, which fails
  (section 6).

Requests:

- `PendingAreFew`: at most one pending swap above the limit for each request at
  work (`AdmittedAreFew`, its inductive form, counts those whose row is yet to come).
- `ServedAgain` (liveness): a refused address is served again, unless crashes left
  too many pending swaps without a job.

Wallets:

- `ExactUnlessOvertaken`: the balance of the table, plus payments not credited, less
  debits not written, is the balance on the chain, unless history says why not.
- `SwapsKeepTheirWallet`: no DELETE takes the wallet of a swap away.
- `TablesHeal` (liveness): the task sets every row it lists right in the end.
- `GiverPaysBounded`: the chain of jobs pays once per attempt and redelivery of one job,
  and never when a later one is repeated.
- `WipesBounded`: `confirmWalletDeploy` writes a balance of zero over what swaps have
  credited, and is repeated. It does so at most once per attempt and redelivery, and the
  first attempt wipes out nothing unless a swap had chosen the wallet before. The run
  reaches the bound. A wallet deployed by hand, and then chosen, is in `early` as well.
- `EveryWalletIsDeployed` (liveness): unless the request or the chain of jobs was cut off.
- `RaisedToTheMinimum`: more than the minimum only where a balance was read with a
  deposit under way; `WalletsAreRaised` (liveness): while the giver can pay.

Messages:

- `OnlyDisplaced`: a call that returned loses its message to nothing but another message
  with its number. A number counted up before it is signed, say, would be ahead of the
  wallet, and its message lost to none.
- `AloneIsCarried`: a call that no other of its wallet overlapped keeps its number.
- `AloneIsCarriedOut` (liveness): the same in the end.

Tokens: `AddressesAreUnique`, `PricesArrive` (liveness: a token gets the price of its
own currency unless an unlisted one comes before it).

### 3.2 Bounds

`TotalConfirmations` is 3 (5 in the code): a first, an intermediate and a last
wait job, of which the middle one has no second attempt, as in the code. In
`ethton_two` it is 2. `LookBack` is 1 (5): a window of two blocks is enough to
look back. Attempts are 1 or 2 (300, 900, 3600): a last one, and a first one that
is not the last. `MaxStalls` is 1, as in Bull. Two faults are a failure and a crash.
`MaxAge` 3 is all deadlines. In `ethton_two` none passes and nothing fails: what a
deadline does, settle a swap and release its wallet, a failing lookup of the minter
wallet and a DELETE do as well, and `ethton_one` checks `InUseIsHeld` under crashes and
failing calls.
`MaxIncoming` bounds what comes in at the users' jetton wallets, `MaxOthers` what others
send there: of one transfer it is enough that it may be the mint of either swap, or
none (`ethton_two`). Two swaps from TON on one wallet are left to the theorems:
`PayoutBacked` and `ImplementsPromise` are proved for any number of them, and
`InUseIsHeld` is about actions of `SwapJobs`, which `ethton_two` interleaves.

A transfer of 40 differs from the 43 asked for; 43 is rounded to 40 when it is
stored (unit 4), so 40 also meets it exactly, and 20, 44 and 0 are other amounts and
a refused one. `ethton_one` has 40 and 20, `ethton_two` 40 and 0, `toneth_one` 44 and 0,
for what they do with an amount is in `SwapsHelper`, which both directions share.
Blocks end with `MaxBlock`: transfers come early enough that their confirmations fit.
`Reserve` of 60 covers one payment, so that a repeated one reverts.

`ethton_one` checks the amounts up to `MaxSwapAmount`, 120, with a fee of 1/10 and units
of 4 and 1: what is rounded off repeats every 40, so that every remainder occurs.

In `swap_requests` the limit is 0, which lets one pending swap pass as 5 lets six:
three rows are then enough to exceed the bound, and one more than two overlapping
requests may have. In `balances` one row is enough for every overtaking, since an
actor holds one row at a time; two swaps are a credit and a debit of different
swaps, with the sync task between them. A swap has one debit there, the fee on
Ethereum and the burn on TON. `MaxEvents` bounds crashes, failing calls and
administration together; overlapping attachments count once. In `wallet_deploy` three credits are as many as
`confirmWalletDeploy` can wipe out, with two attempts and a redelivery: `WipesBounded` is
reached. In `deposits`, with a
minimum of 10, wallets start at 8 and the giver at 12: it can pay both wallets, not
two runs and the gas of a swap, so that it also runs dry. Rows have no balance of
tokens there, and come in any order. `TokenCatalogue` has one rank, so that any
token may come before any other.

`CHECK_DEADLOCK FALSE` in the runs of the service: a system whose swaps, jobs and
requests are all done, and whose deadlines have passed, really stops.

`ethton_two` and `ethton_reuse` use symmetry of the swaps, which have the same
recipient and occur in no temporal property of those runs; no other run uses any.

### 3.3 Fairness

`FairSpec` assumes weak fairness only. In the two directions: of the workers and
listeners of the swap (Bull takes a waiting job as soon as a worker is free), of the
steps of the request, of the deadlines and, in `EthToTon`, of `MineBlock`. No fairness
is assumed of failures, of what a mint, a fee or a burn does on TON, or of the user: a
transfer may never come. Failures are bounded by `MaxFaults`, which says only that they
do not go on forever. A message to TON may remain unexecuted at every attempt, the
attempts end, and the job is lost: that, and a chain of jobs cut by a crash, is the
exception both liveness properties name, because the code has nothing that takes such a
swap up again.

Elsewhere: of the steps of a request that was let in and of the jobs that end a swap
(`SwapRequests`); of the writes of handlers that have found what they look for, and
of the sync task, which the scheduler starts every hour (`WalletBalances`: not of
payers, administrators, or of a swap that waits); of a request that has saved
a row, and the handlers of the deployment (`WalletDeploy`: not of the chain, for the jobs throw and are tried again); of the
runs of the deposit task and of the chain, which executes or drops every transaction
(`WalletDeposits`); of the calls and of the wallet contract, which takes the next
message unless it is lost (`TonMessages`); of the answers to requests and of the
daily task (`TokenCatalogue`).

## 4. Proofs

Every theorem is proved for all values of the constants, under the assumptions the
modules name and TLC evaluates in every run. What a run checks of one small instance
and a theorem says of all of them is the same definition.

| module | properties proved |
|---|---|
| `SwapJobs_proofs` | rounding and conservation of amounts: `NoValueCreated`, `QuoteOverpaysBelowUnit`, `RecalculatedIsCharged`; the shared lemmas of both directions |
| `EthToTon_proofs` | `TypeOK`, `MintBacked`, `MintWithinTransfer`, `ChargedAfterMint`, `NoSwapIsForgotten`, `InUseIsHeld`, `NoTransferPassedOver`, `TransferIsKept`, `SharedTransferIsRecent`, `RepeatsAreBounded`, `FinalButForLatecomers`, `ImplementsPromise` |
| `TonToEth_proofs` | `TypeOK`, `PayoutBacked`, `PayoutWithinTransfer`, `ChargedAfterPayout`, `NoSwapIsForgotten`, `InUseIsHeld`, `RepeatsAreBounded`, `FinalButForLatecomers`, `ImplementsPromise` |
| `Controllers_proofs` | of `SwapRequests`: `TypeOK`, `AdmittedAreFew`, `PendingAreFew`; of `TokenCatalogue`: `TokensOK`, `AddressesAreUnique` |
| `TonMessages_proofs` | `TypeOK`, `OnlyDisplaced`, `AloneIsCarried` |
| `WalletBalances_proofs` | `TypeOK`, `ExactUnlessOvertaken`, `SwapsKeepTheirWallet` |
| `WalletDeploy_proofs` | `TypeOK`, `GiverPaysBounded`, `WipesBounded` |
| `WalletDeposits_proofs` | `TypeOK`, `RaisedToTheMinimum` |

### 4.1 Amounts

`SwapJobs_proofs` begins with rounding and conservation, for every fee rate in
[0, 1], every pair of units and every amount, from `SwapFeeAssumption` and
`UnitAssumption`: `ToFixedRoundsDown`, `AmountsAreConserved`, `QuoteOverpaidBelowUnit`
and `RecalculationsAreCharged`. `NoAmountGrows`,
`NoQuoteOverpaysAUnit` and `NoRecalculationIsFree` conclude from them the properties
`ethton_one` checks, in every state and for every `MaxSwapAmount`; the lemmas
themselves have no bound.

### 4.2 Both directions: backing, wallets, promise

The theorems about the directions hold for any number of swaps and wallets and any
bounds. They use the assumptions named in the modules: a transfer is a whole number of
base units (`AmountAssumption`), limits and attempts are natural numbers, there are at
least two confirmations to wait for (`ConfirmationAssumption`), and the collector and
the users are not the service's source wallets (`AccountAssumption`).

No property is inductive by itself: nothing in `mintTonJettons` or `transferEthTokens`
looks at the transfer. They hold because of what the job before has established,
so the invariant has to follow the chain of jobs. `IInv` is `TypeOK`, what is
known of mints (`MintInv`) or payments (`PayoutInv`), and, for every swap,

- `RequestInv`: what exists (row, job, wallet) at each step of the request,
- `ExitInv`: the statuses that `SwapsHelper` may hold,
- `ConfirmInv`: what the handler of the confirm job has found and written,
- `PipelineInv`: what a later job may rely on: the row is backed by a transfer,
  and the transfer is as deep as the job says, or a payment was broadcast.

`TonToEth` adds `TransfersInv` (what arrived at a source wallet came from a user)
and `ChargedAfterPayout` itself.

`SwapJobs_proofs` says once, as `Effect`, what each shared action does to rows,
jobs and handlers, and both directions conclude from it (`SharedStep`).
`OwnStep` reduces a step of one swap to that swap: nothing else of the invariant
changes; `LateStep` does the same for the jobs after the confirmation. There is
one lemma per action of a direction; mints, payments, transactions, blocks and
crashes reach beyond one row and are proved on their own. `NextInv` puts them
together and `Invariance` concludes. A status written by a latecomer (a cancel, a
failing request) does not disturb the invariant, because none of its parts
depends on the status once the row exists: this is why the payment of a canceled
swap is still backed.

`ChargedAfterMint` needs `ConcludedInv` besides. A swap whose mint job has returned what
leads on, or that is further, has handed a mint of its own to TON (`Conveyed`, `Sent`); a
row that is completed or charged, and every job and handler about to make it so (the fee
job, a fee broadcast, a transfer just found), has seen jettons come in for its recipient
since it was created (`Concluded`, `Arrived`). No more follows: the handler that looks
for the mint compares ages, and a mint of another swap to the same recipient, or a
transfer of somebody else, satisfies it.

`InUseIsHeld` needs `HeldInv`: with it, that the row a request has just inserted
names the wallet the request marked (`MarkedInv`), and that a job lost for good has
no handler any more (`LostInv`). A step keeps the property when every wallet it leaves
in use keeps a holder (`KeepsHold`); `SwapJobs_proofs` shows this of each shared
action, and the directions of theirs. The steps that end a holder (a cancel, a
confirmation that settles the swap) are the ones that release its wallet.

*Refinement.* `received`, `payouts` and `charged` are mapped in the directions, and
`KeepsThePromise` shows that every step is a step of `SwapPromise` or a stutter. From
the invariant it takes that a mint or a payment is made by a handler whose row is
backed, so that the payment is one `SwapPromise!Pay` allows; chains only grow, so
that what was received stays received; and the fee is charged for a swap of which a mint
(`ConcludedInv`) or a payment (`ChargedAfterPayout`) was handed over before.

### 4.3 Both directions: scans, repeats, statuses, transfers

Each of these five has an invariant of its own, inductive relative to `IInv`.

*Scans* (`ScanInv`). The cursor of the confirmation job begins at the latest block and
moves by one, and only from a block in which the handler found nothing. The invariant
says that every block from the one the scan began at up to the cursor pays the wallet
nothing, as long as the row has no transaction; that a handler about to move on
(`notFound`) has seen a block that exists, for a block that is not mined yet is an
error and not `notFound`; and that a transaction once taken, in memory or in the row,
is at most `LookBack` before the first block. The look-back at older
blocks is what may take the transfer of another swap, so `SharedTransferIsRecent`
follows: two swaps with one transaction have one wallet, and it is recent for both.
Blocks are only appended, so that what was seen stays so.

*Repeats* (`BudgetInv`). `mintTonJettons`, `transferEthTokens` and the fee and burn jobs
look for nothing they did before. The invariant ties how often one was done to what the
job has spent (`Within`): done at most as often as attempts and stalls were used up, and
once more while the handler is past the sending. When a job begins, nothing was done
before it. An attempt that throws after the sending is an attempt less, a crash a stall
more, and no later job leads back to this one, so that what holds when the job is over
holds for good.

*Final statuses* (`FinalInv`). A status is written by whoever holds the job at that
moment, so it is final as far as no job is left that would write another one. A swap
that reads `completed` is past the search for its mint (its payment), unless that job
was delivered again; one that reads `expired` has a job whose deadline has passed, for
clocks do not go back, so that this job can only expire it again. `FinalStatusesStay` is
then a property of each step: the writes that are left are the three latecomers the
property names.

*No swap is forgotten* (`SettledInv`). A pending or confirmed row is attended as long as
every listener that ends the chain finds the row settled. So the invariant says that a
handler past its write has settled the row whenever no job follows that would: when its
helper released the wallet (`exitWallet`), when it returned a status that is not
processable, or when its job is the last one that settles (`getTonMintTransaction`,
`transferEthTokens`). That a latecomer may write over the row does no harm here: a
cancel settles it, and a request that writes failed settles it too. `SwapJobs_proofs`
shows for each shared action that it keeps this (`SettledKept`, `SettledStep`), and
`NoSwapStaysBehind` of both directions adds their own handlers.

*A transfer is kept* (`TakenInv`, of `EthToTon`). Nothing in `confirmEthTransfer` looks
at the transaction the row already has: a second delivery scans anew and writes what it
finds. It finds the same because the cursor is still where it was: as long as the
confirm job exists, the row's transfer is the first of the window of the job's block to
pay the wallet (`Decides`), the blocks of that window are mined and do not change, and a
handler that has failed with `notFound`, and would move the cursor, failed before the
row was written. The amounts are then a function of the same transfer and the same
quote: recalculating an amount that is already that of the transfer changes nothing
(`ConfirmedRowAgain`). Of the confirmations the invariant says that the row has no more
than the wait job counts, and that the transfer is that deep (`Deep`), so that each job
writes a number that is larger and true.

### 4.4 Wallets

*Balances.* `ExactUnlessOvertaken` is not inductive: a write of the row is right only if
the balance held in memory is. `IInv` adds that what a swap's handler holds is the
balance of the row, unless stale (`HoldInv`); that what the sync task or an administrator
read from the chain is what the row should say, counting what swaps have under way,
unless stale (`SeenInv`); and whose row is whose (`TableInv`), of which
`SwapsKeepTheirWallet` is a part: DELETE refuses a wallet that a swap refers to,
and the insertion of a swap refuses a wallet that is gone. A step changes three numbers at
most, the balance, the chain and what is under way, and the lemmas about `Total` say by
how much: one swap more adds its tokens, one less takes them away. Assumed are finitely
many swaps, debits that are not empty, and columns of the right types in `PUT` bodies.

*Deployment.* What a job does is counted against what it has spent (`Counted`): never as
long as an earlier job is there, once for every attempt that failed, every redelivery
and the attempt at work, and no more once it is over. `Accounted` is that of the giver's
payments and `transferToncoins`, `Written` that of the zeroes and `confirmWalletDeploy`;
a write that is committed and throws costs an attempt. `WipesBounded` adds `CreditInv`:
a write wipes out credits at most once, and as long as there was none, no swap has the
wallet and none has credited it, unless it was chosen early, so that the first write
wipes out nothing.

*Deposits.* `RaisedToTheMinimum` needs that a wallet whose balance nobody read with a
deposit under way has one deposit under way at most, in the chain or in the hands of one
run, and that it fits (`LoneDeposit`). The property sums deposits by a fold; since
there is one at most, the proof needs the fold over no deposit and over one
(`TotalNone`, `TotalOne`), which unfold without induction.

### 4.5 Messages, requests, tokens

The invariant of `TonMessages` holds for any wallets and callers. No number that was
read or signed is ahead of its wallet (`NumbersOK`), and every number behind it was used
up by a message that was carried out (`UsedOK`). What a call that returned has posted is
therefore next, or its number is among those (`PostedOK`): this is `OnlyDisplaced`. For
`AloneIsCarried` the invariant says of a caller that was not crossed that nobody else of
its wallet is between its read and its end, so that the number it read is still the next
one. That a contract carries out one message per number is built into `Takes` and claimed
nowhere.

The theorems about `SwapRequests` hold for any finite sets. `PendingAreFew` is not
inductive, since a request inserts its row long after it counted. `AdmittedAreFew` is,
with `RowsOK`: a request let in found the pending swaps not above the limit, and every
other request let in since is one of the clients.

`AddressesAreUnique` of `TokenCatalogue` needs two facts from elsewhere. A row is never
deleted, so that the id a request or a run has read is still that of a row when it
writes (`RowsStay`): a price or a `PUT` cannot make a row without an address. And no
write but that of `createToken` touches an address, whose index answers for it; the
lemmas about `Patched` say which columns each body leaves alone.

### 4.6 Only model-checked

- Liveness (`EverySwapSettles`, `EveryWalletReturns`, `ServedAgain`, `TablesHeal`,
  `EveryWalletIsDeployed`, `WalletsAreRaised`, `AloneIsCarriedOut`, `PricesArrive`):
  fairness needs ENABLED, which TLAPS does not reason about.

Every other property that a run expects to hold, safety or of a step, is a theorem.

Induction over data is out of reach as well; no definition here is recursive, and the
one fold that is summed is unfolded by hand (4.4).

## 5. Plan

The plan is done: every safety property a run checks is proved. What could be added:

1. The gas fee cached for an hour, and the setting that deposits read, as something
   that changes.
2. `MintsAreCovered` (section 6) as a property to hold, once `confirmEthTransfer`
   compares a transfer with those other swaps have taken.

## 6. Findings

- `ethton_reuse`: without any fault, one transfer can pay for two swaps: the
  wallet is free again as soon as the first is confirmed, and the scan of the
  next swap on it looks back over the same blocks.
- `ethton_foreign`: a swap reads completed, and is charged, although nothing was minted:
  the mint message was lost and somebody else sent the recipient jettons, which
  `getTonMintTransaction` takes for the mint.
- `toneth_reserve`: a swap reads completed although its payment reverted: the
  amount was raised by `recalculateSwap`, and the receipt is not looked at.

Observations, met while modelling. The models behave like this too, and the
properties are stated around it:

- `cancelSwap` answers 204 for a swap that is nevertheless paid out, when its write
  lands after `confirmEthTransfer` has read the row.
- One jetton transfer can pay for two swaps: `createSwap` reads a free wallet and
  marks it after an await, so two requests get the same one, and the transfer is
  recognised by wallet and time alone.
- `sourceTransactionId` of a TON swap names the sender's latest outgoing transfer,
  which may have gone to somebody else.
- `conifrmTonTransfer` delivered again takes the *latest* transfer of the source
  wallet, which may be another one than the row has: it rewrites transaction and amounts.
  Ethereum's confirm job finds the transfer it found (`TransferIsKept`); in this
  direction only the payment stays backed (`PayoutBacked`).
- A swap settled late (`swapExpired` from a destination job) releases a source wallet
  that another swap may hold by then.
- The limit of pending swaps is off by one: the count is compared with `>`
  (`swaps/controllers/swaps.controller.ts:145`).
- Two mints of one minter at a time sign with one number: "jettons minted" is logged
  for the one that is dropped, too.
- `PUT /wallets/:id` without a balance writes NaN
  (`wallets/controllers/wallets.controller.ts:199`), which passes every minimum until
  the sync task writes the row.
- A swap whose payment reverted is not only completed but charged, and its jettons are
  burned (`eth-destination-swaps.processor.ts:75-125`).
- `POST /ton/wallets` records a wallet as deployed when its message has been handed
  over; when the chain of jobs comes to `confirmWalletDeploy` after that, it writes a
  balance of zero over what swaps have credited.
- `POST /wallets/create` that fails after it has saved the row leaves a wallet that has a
  giver, is chosen for swaps and is never deployed.
- `POST /tokens` with the id of a row replaces that row, and `PUT /tokens/:id` without
  decimals writes back those it read.

## 7. Not modelled

Authentication, users, statistics, configuration, events and the bootstrap of the
process keep no state that decides what happens to a swap. BigNumber's rounding mode is
set in `main.ts` after the server listens; the models have it set. Of the settings only
the minimum of coins is in a model (a constant of `WalletDeposits`), and the cached gas
fee is not: it is shown to a user and subtracted nowhere in the pipelines. Of the
administration endpoints of the two chains those that write a wallet row or send from a
wallet of the service are modelled (`DeployByHand`, and the callers of `TonMessages`);
the others read, or call a contract and record nothing. Exchange rates are not
multiplied into amounts by `createSwap`, so that prices stay within `TokenCatalogue`.
The chains, PostgreSQL, Redis, Bull, tonweb and ethers are external: they are modelled by
what the code can observe of them.
