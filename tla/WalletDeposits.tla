---------------------------- MODULE WalletDeposits ----------------------------
(* DepositWalletsBalanceTask: every hour, and on request, it has the giver   *)
(* wallets of one blockchain raise the coins of each transferer to the       *)
(* setting's minWalletBalance, for what its transfers cost in gas.  Nothing  *)
(* keeps two runs apart, and a deposit arrives when the chain gets to it.    *)
(*                                                                           *)
(* In Ethereum a giver that cannot pay makes the call throw, and with it the *)
(* run; in TON the message is carried out and moves nothing (IgnoreErrors),  *)
(* and of two with one sequence number only one is taken (TonMessages).      *)
EXTENDS WalletTable, FiniteSetsExt

CONSTANTS Givers,       \* the addresses of giver wallets
          Runs,         \* runs of the task there may be at a time
          MinBalance,          \* the minWalletBalance of the setting
          Stock,        \* coins a transferer has at the start
          Funds,        \* coins a giver has at the start
          Tokens,       \* token balances of the rows
          Gas,          \* coins a swap's transfer costs
          MaxPending,   \* bound: deposits under way
          MaxEvents     \* bound: calls that fail, crashes, lost messages, rows
                        \* disabled or enabled, gas paid

ASSUME GiversAssumption == Givers \subseteq Wallets
ASSUME CoinsAssumption == MinBalance \in Nat \ {0} /\ Gas \in Nat \ {0} /\ Stock \subseteq 0..MinBalance /\ Funds \subseteq Nat
ASSUME TokensAssumption == Tokens \subseteq Nat
ASSUME DepositBounds == {MaxPending, MaxEvents} \subseteq Nat

VARIABLES
  blockchain,  \* the one whose rows these are
  setting,      \* the row of settings is there
  coins,        \* ethers or toncoins of each address, on the chain
  pending,      \* deposits handed to the chain
  task,         \* what each run holds
  overlapped,   \* history: wallets read while a deposit to them was under way
  events        \* bound

vars == <<blockchain, wallet, setting, coins, pending, task, overlapped, events>>

Transferers == Wallets \ Givers
Stages == {"idle", "givers", "next", "balance", "pay"}

Idle == [stage |-> "idle"]

\* A deposit is numbered from the next one its giver may have carried out: -1 is
\* a number that is used.
Deposits == [giver : Givers, number : {-1} \cup Nat, to : Transferers, amount : Nat]

Event == events < MaxEvents /\ events' = events + 1

Init ==
  /\ blockchain \in Blockchains
  /\ wallet \in [Wallets -> {AttachedRow(blockchain, "giver", 0), CreatedRow(blockchain, "transferer")}
                              \cup {AttachedRow(blockchain, "transferer", b) : b \in Tokens}]
  /\ \A w \in Wallets : wallet[w].type = "giver" <=> w \in Givers
  /\ setting \in BOOLEAN
  /\ coins \in [Wallets -> Stock \cup Funds]
  /\ \A w \in Wallets : coins[w] \in IF w \in Givers THEN Funds ELSE Stock
  /\ pending = {}
  /\ task = [r \in Runs |-> Idle]
  /\ overlapped = {}
  /\ events = 0

-----------------------------------------------------------------------------
\* Mutant: every amount below the minimum is topped up with the minimum.
DueInFull(balance) == MinBalance

\* What a wallet is short of.
Due(balance) == MinBalance - balance

\* Mutant: the tolerance is taken for the threshold.
ShortNearZero(balance) == 10 * balance < MinBalance

\* balance + min / 10 < min.
Short(balance) == 10 * balance + MinBalance < 10 * MinBalance

\* The rest of the wallets sorted by what they hold of the token, the largest
\* first.  A balance that is NULL compares with nothing and leaves any order.
Foremost(rest, balances) ==
  {w \in rest : \/ \E v \in rest : balances[v] = Null
                \/ \A v \in rest : balances[v] <= balances[w]}

Hold(r, held) == task' = [task EXCEPT ![r] = held]

\* The cron job, or POST /tasks/deposit-wallets-balance, which does not wait.
ReadWallets(r) ==
  /\ task[r] = Idle
  /\ LET listed == {w \in FindAll([type |-> "transferer", disabled |-> FALSE]) : MayServe(blockchain, w)}
     IN  /\ listed # {}
         /\ Hold(r, [stage |-> "givers", rest |-> listed,
                     balances |-> [w \in listed |-> wallet[w].balance]])
  /\ UNCHANGED <<blockchain, wallet, setting, coins, pending, overlapped, events>>

\* The givers, then the setting: without either the run ends.
ReadGivers(r) ==
  /\ task[r].stage = "givers"
  /\ LET listed == FindAll([type |-> "giver", disabled |-> FALSE])
     IN  Hold(r, IF listed = {} \/ ~setting THEN Idle
                 ELSE [stage |-> "next", rest |-> task[r].rest,
                       balances |-> task[r].balances, givers |-> listed])
  /\ UNCHANGED <<blockchain, wallet, setting, coins, pending, overlapped, events>>

NextWallet(r) ==
  /\ task[r].stage = "next"
  /\ IF task[r].givers = {} \/ task[r].rest = {}
     THEN Hold(r, Idle)
     ELSE \E w \in Foremost(task[r].rest, task[r].balances) :
            Hold(r, [stage |-> "balance", rest |-> task[r].rest \ {w},
                     balances |-> task[r].balances, givers |-> task[r].givers, of |-> w])
  /\ UNCHANGED <<blockchain, wallet, setting, coins, pending, overlapped, events>>

Go(r, stage) == [stage |-> stage, rest |-> task[r].rest, balances |-> task[r].balances,
                 givers |-> task[r].givers]

\* Another run is about to pay w, or a deposit to it has yet to arrive.
UnderWay(r, w) ==
  \/ \E m \in pending : m.to = w
  \/ \E q \in Runs \ {r} : task[q].stage = "pay" /\ task[q].of = w

\* The balance on the chain.  For a wallet that is short, pop() takes a giver for
\* this wallet alone; the order of the givers is nobody's.
GetBalance(r) ==
  /\ task[r].stage = "balance"
  /\ LET w == task[r].of
     IN  IF Short(coins[w])
         THEN /\ \E g \in task[r].givers :
                   Hold(r, [stage |-> "pay", rest |-> task[r].rest,
                            balances |-> task[r].balances, givers |-> task[r].givers \ {g},
                            of |-> w, giver |-> g, amount |-> Due(coins[w])])
              /\ overlapped' = IF UnderWay(r, w) THEN overlapped \cup {w} ELSE overlapped
         ELSE Hold(r, Go(r, "next")) /\ UNCHANGED overlapped
  /\ UNCHANGED <<blockchain, wallet, setting, coins, pending, events>>

-----------------------------------------------------------------------------
Total(deposits) == MapThenSumSet(LAMBDA m : m.amount, deposits)

OfGiver(g) == {m \in pending : m.giver = g}

\* The wallet of ethers counts the transactions that are pending, that of TON is
\* asked for those that were carried out.
Number(g) == IF blockchain = "ethereum" THEN Cardinality(OfGiver(g)) ELSE 0

\* An Ethereum node refuses what the giver cannot pay.
Refused(g, amount) ==
  blockchain = "ethereum" /\ coins[g] - Total(OfGiver(g)) < amount

\* transferEthers, transfer: the deposit is handed over, or refused, which ends the
\* run.
Deposit(r) ==
  /\ task[r].stage = "pay"
  /\ Cardinality(pending) < MaxPending
  /\ LET g == task[r].giver
         m == [giver |-> g, number |-> Number(g), to |-> task[r].of, amount |-> task[r].amount]
     IN  IF Refused(g, m.amount)
         THEN Hold(r, Idle) /\ UNCHANGED pending
         ELSE Hold(r, Go(r, "next")) /\ pending' = pending \cup {m}
  /\ UNCHANGED <<blockchain, wallet, setting, coins, overlapped, events>>

\* A call fails: the run ends with a line in the log.
RunFails(r) ==
  /\ task[r] # Idle
  /\ Event
  /\ Hold(r, Idle)
  /\ UNCHANGED <<blockchain, wallet, setting, coins, pending, overlapped>>

Crash ==
  /\ Event
  /\ task' = [r \in Runs |-> Idle]
  /\ UNCHANGED <<blockchain, wallet, setting, coins, pending, overlapped>>

-----------------------------------------------------------------------------
(* The rest of the service.                                                  *)

\* POST /settings
CreateSetting ==
  /\ ~setting
  /\ setting' = TRUE
  /\ UNCHANGED <<blockchain, wallet, coins, pending, task, overlapped, events>>

\* PUT /wallets/{id}
UpdateWallet(w) ==
  /\ Event
  /\ Update(w, [disabled |-> ~wallet[w].disabled])
  /\ UNCHANGED <<blockchain, setting, coins, pending, task, overlapped>>

\* A transfer of a swap costs gas.
PayGas(w) ==
  /\ w \in Transferers
  /\ coins[w] >= Gas
  /\ Event
  /\ coins' = [coins EXCEPT ![w] = @ - Gas]
  /\ UNCHANGED <<blockchain, wallet, setting, pending, task, overlapped>>

-----------------------------------------------------------------------------
(* The chains: external.                                                     *)

\* The next transaction of a giver moves what it says, or nothing if the giver does
\* not have it.
Execute(m) ==
  /\ m \in pending
  /\ m.number = 0
  /\ pending' = (pending \ OfGiver(m.giver))
                  \cup {[n EXCEPT !.number = Max({@ - 1, -1})] : n \in OfGiver(m.giver) \ {m}}
  /\ coins' = IF coins[m.giver] < m.amount THEN coins
              ELSE [coins EXCEPT ![m.giver] = @ - m.amount, ![m.to] = @ + m.amount]
  /\ UNCHANGED <<blockchain, wallet, setting, task, overlapped, events>>

\* TON drops a message whose number is used, and may lose any other.
Expire(m) ==
  /\ blockchain = "ton"
  /\ m \in pending
  /\ \/ m.number < 0 /\ UNCHANGED events
     \/ Event
  /\ pending' = pending \ {m}
  /\ UNCHANGED <<blockchain, wallet, setting, coins, task, overlapped>>

-----------------------------------------------------------------------------
RunStep(r) ==
  ReadWallets(r) \/ ReadGivers(r) \/ NextWallet(r) \/ GetBalance(r) \/ Deposit(r)

Next ==
  \/ \E r \in Runs : RunStep(r) \/ RunFails(r)
  \/ \E w \in Wallets : UpdateWallet(w) \/ PayGas(w)
  \/ \E m \in pending : Execute(m) \/ Expire(m)
  \/ CreateSetting
  \/ Crash

Spec == Init /\ [][Next]_vars

\* The cron job comes again, a run goes on, the chain gets to every transaction.
FairSpec ==
  /\ Spec
  /\ \A r \in Runs : WF_vars(RunStep(r))
  /\ WF_vars(\E m \in pending : Execute(m) \/ Expire(m))

-----------------------------------------------------------------------------
(* Properties.                                                               *)

TypeOK ==
  /\ blockchain \in Blockchains
  /\ TableOK
  /\ setting \in BOOLEAN
  /\ coins \in [Wallets -> Nat]
  /\ pending \subseteq Deposits
  /\ \A r \in Runs : task[r].stage \in Stages
  /\ overlapped \subseteq Transferers

\* A wallet ends up with more than the minimum only where its balance was read while
\* a deposit to it was under way, by an overlapping run or by the one before.
RaisedToTheMinimum ==
  \A w \in Transferers \ overlapped :
    coins[w] + Total({m \in pending : m.to = w}) <= MinBalance

\* Less than nine tenths of the minimum.
Needy(w) == 10 * coins[w] < 9 * MinBalance

\* A giver can pay for any wallet.
Pays(g) == coins[g] >= MinBalance

\* A wallet in service is raised to the minimum in the end, unless a giver has run
\* dry: in Ethereum one dry giver that comes up first keeps every run from paying.
WalletsAreRaised ==
  <>[](\A w \in Transferers :
         \/ ~Needy(w)
         \/ wallet[w].disabled \/ ~MayServe(blockchain, w) \/ ~setting
         \/ \E g \in Givers : ~Pays(g) \/ wallet[g].disabled)
=============================================================================
