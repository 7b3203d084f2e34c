------------------------- MODULE WalletDeposits_proofs -------------------------
(* The proofs about WalletDeposits: no transferer ends up with more coins    *)
(* than the minimum, unless its balance was read with a deposit under way.   *)
EXTENDS WalletDeposits, FiniteSetTheorems, TLAPS

-----------------------------------------------------------------------------
(* Sums of no deposit and of one.                                            *)

\* What the sum over S is a fixed point of.
SumStep(S, f) ==
  [s \in SUBSET S |-> IF s = {} THEN 0
                      ELSE LET x == CHOOSE x \in s : TRUE IN x.amount + f[s \ {x}]]

LEMMA TotalFolds ==
  ASSUME NEW S, NEW g, g = SumStep(S, g)
  PROVE  \E f : f = SumStep(S, f) /\ Total(S) = f[S]
<1>1. Total(S) = (CHOOSE f : f = SumStep(S, f))[S]
  BY Zenon DEF Total, MapThenSumSet, MapThenFoldSet, SumStep
<1> QED
  BY <1>1

LEMMA TotalNone == Total({}) = 0
<1>1. [s \in SUBSET {} |-> 0] = SumStep({}, [s \in SUBSET {} |-> 0])
  BY DEF SumStep
<1>2. PICK f : f = SumStep({}, f) /\ Total({}) = f[{}]
  BY <1>1, TotalFolds
<1>3. SumStep({}, f)[{}] = 0
  BY DEF SumStep
<1> QED
  BY <1>2, <1>3

LEMMA TotalOne ==
  ASSUME NEW m, m.amount \in Nat
  PROVE  Total({m}) = m.amount
<1>1. \A s \in SUBSET {m} : s = {} \/ s = {m}
  OBVIOUS
<1>2. (CHOOSE x \in {m} : TRUE) = m
  OBVIOUS
<1>3. ASSUME NEW f
      PROVE  SumStep({m}, f)[{}] = 0 /\ SumStep({m}, f)[{m}] = m.amount + f[{}]
  <2>1. SumStep({m}, f)[{}] = 0
    BY DEF SumStep
  <2>2. SumStep({m}, f)[{m}] = m.amount + f[{m} \ {m}]
    BY <1>2 DEF SumStep
  <2>3. {m} \ {m} = {}
    OBVIOUS
  <2> QED
    BY <2>1, <2>2, <2>3
<1>4. PICK g : g = [s \in SUBSET {m} |-> IF s = {} THEN 0 ELSE m.amount]
  OBVIOUS
<1>5. g = SumStep({m}, g)
  <2>1. g[{}] = 0 /\ g[{m}] = m.amount
    BY <1>4
  <2>2. SumStep({m}, g)[{}] = 0 /\ SumStep({m}, g)[{m}] = m.amount
    BY <1>3, <2>1
  <2>3. \A s \in SUBSET {m} : g[s] = SumStep({m}, g)[s]
    BY <1>1, <2>1, <2>2
  <2>4. SumStep({m}, g) = [s \in SUBSET {m} |-> SumStep({m}, g)[s]]
    BY DEF SumStep
  <2>5. g = [s \in SUBSET {m} |-> g[s]]
    BY <1>4
  <2> QED
    BY <2>3, <2>4, <2>5
<1>6. PICK f : f = SumStep({m}, f) /\ Total({m}) = f[{m}]
  BY <1>5, TotalFolds
<1>7. f[{}] = 0 /\ f[{m}] = m.amount + f[{}]
  BY <1>3, <1>6
<1> QED
  BY <1>6, <1>7

-----------------------------------------------------------------------------
(* The inductive invariant.                                                  *)

\* What a run holds at each stage.
HeldTyped(held) ==
  /\ held.stage \in Stages
  /\ held.stage # "idle" => held.rest \subseteq Transferers
  /\ held.stage \in {"next", "balance", "pay"} => held.givers \subseteq Givers
  /\ held.stage \in {"balance", "pay"} => held.of \in Transferers
  /\ held.stage = "pay" => held.giver \in Givers /\ held.amount \in Nat

TasksTyped ==
  /\ task = [r \in Runs |-> task[r]]
  /\ \A r \in Runs : HeldTyped(task[r])

\* A wallet stays the giver, or the transferer, it was created as.
RowsAreKept ==
  \A w \in Wallets : Exists(w) /\ (wallet[w].type = "giver" <=> w \in Givers)

Paying(r, w) == task[r].stage = "pay" /\ task[r].of = w

\* At most one deposit to a wallet is under way, counting the runs that are about to
\* pay it, and with it the wallet has no more than the minimum.
LoneDeposit(w) ==
  /\ coins[w] <= MinBalance
  /\ \A m \in pending : m.to = w =>
       /\ coins[w] + m.amount <= MinBalance
       /\ \A n \in pending : n.to = w => n = m
       /\ \A r \in Runs : ~Paying(r, w)
  /\ \A r \in Runs : Paying(r, w) =>
       /\ coins[w] + task[r].amount <= MinBalance
       /\ \A q \in Runs : Paying(q, w) => q = r

IInv ==
  /\ TypeOK /\ IsFiniteSet(pending) /\ RowsAreKept /\ TasksTyped
  /\ \A w \in Transferers \ overlapped : LoneDeposit(w)

-----------------------------------------------------------------------------
(* Steps of one run.                                                         *)

LEMMA HoldEffect ==
  ASSUME TasksTyped, NEW r \in Runs, NEW held, Hold(r, held), HeldTyped(held)
  PROVE  /\ TasksTyped' /\ task'[r] = held
         /\ \A q \in Runs \ {r} : task'[q] = task[q]
<1>1. task' = [task EXCEPT ![r] = held] /\ task = [q \in Runs |-> task[q]]
  BY DEF Hold, TasksTyped
<1>2. task' = [q \in Runs |-> IF q = r THEN held ELSE task[q]]
  BY <1>1
<1>3. \A q \in Runs : task'[q] = IF q = r THEN held ELSE task[q]
  BY <1>2
<1>4. task' = [q \in Runs |-> task'[q]]
  BY <1>2
<1>5. \A q \in Runs : HeldTyped(task'[q])
  BY <1>3 DEF TasksTyped
<1> QED
  BY <1>3, <1>4, <1>5 DEF TasksTyped

\* A run that is not about to pay changes nothing for the wallets.
LEMMA TaskStep ==
  ASSUME IInv, NEW r \in Runs, NEW held, Hold(r, held), HeldTyped(held), held.stage # "pay",
         UNCHANGED <<blockchain, wallet, setting, coins, pending, overlapped>>
  PROVE  IInv'
<1>1. /\ TasksTyped' /\ task'[r] = held
      /\ \A q \in Runs \ {r} : task'[q] = task[q]
  BY HoldEffect DEF IInv
<1>2. TypeOK' /\ IsFiniteSet(pending)' /\ RowsAreKept'
  BY <1>1 DEF IInv, TypeOK, TableOK, RowsAreKept, Exists, TasksTyped, HeldTyped
<1>3. ASSUME NEW w \in Transferers \ overlapped
      PROVE  LoneDeposit(w)'
  <2>1. LoneDeposit(w)
    BY DEF IInv
  <2>2. \A q \in Runs : Paying(q, w)' => Paying(q, w) /\ task'[q] = task[q]
    BY <1>1 DEF Paying
  <2> QED
    BY <2>1, <2>2 DEF LoneDeposit
<1> QED
  BY <1>1, <1>2, <1>3 DEF IInv

\* Rows that are listed as transferers belong to transferers, and givers to givers.
LEMMA Listed ==
  ASSUME IInv
  PROVE  /\ FindAll([type |-> "transferer", disabled |-> FALSE]) \subseteq Transferers
         /\ FindAll([type |-> "giver", disabled |-> FALSE]) \subseteq Givers
<1>1. ASSUME NEW type, type \in {"transferer", "giver"},
             NEW w \in FindAll([type |-> type, disabled |-> FALSE])
      PROVE  w \in Wallets /\ wallet[w].type = type
  <2>1. "type" \in DOMAIN [type |-> type, disabled |-> FALSE]
        /\ [type |-> type, disabled |-> FALSE]["type"] = type
    OBVIOUS
  <2> QED
    BY <2>1 DEF FindAll, Satisfies
<1>2. RowsAreKept
  BY DEF IInv
<1>3. FindAll([type |-> "transferer", disabled |-> FALSE]) \subseteq Transferers
  BY <1>1, <1>2 DEF RowsAreKept, Transferers
<1>4. FindAll([type |-> "giver", disabled |-> FALSE]) \subseteq Givers
  BY <1>1, <1>2 DEF RowsAreKept
<1> QED
  BY <1>3, <1>4

LEMMA IdleTyped == HeldTyped(Idle) /\ Idle.stage = "idle"
BY DEF HeldTyped, Idle, Stages

LEMMA ReadWalletsInv ==
  ASSUME IInv, NEW r \in Runs, ReadWallets(r)
  PROVE  IInv'
<1>1. PICK listed, held :
        /\ listed \subseteq FindAll([type |-> "transferer", disabled |-> FALSE])
        /\ held = [stage |-> "givers", rest |-> listed,
                   balances |-> [w \in listed |-> wallet[w].balance]]
        /\ Hold(r, held)
  BY DEF ReadWallets
<1>2. HeldTyped(held) /\ held.stage # "pay"
  BY <1>1, Listed DEF HeldTyped, Stages
<1>3. UNCHANGED <<blockchain, wallet, setting, coins, pending, overlapped>>
  BY DEF ReadWallets
<1> QED
  BY <1>1, <1>2, <1>3, TaskStep

LEMMA ReadGiversInv ==
  ASSUME IInv, NEW r \in Runs, ReadGivers(r)
  PROVE  IInv'
<1>1. PICK listed, held :
        /\ listed = FindAll([type |-> "giver", disabled |-> FALSE])
        /\ held = IF listed = {} \/ ~setting THEN Idle
                  ELSE [stage |-> "next", rest |-> task[r].rest,
                        balances |-> task[r].balances, givers |-> listed]
        /\ Hold(r, held)
  BY DEF ReadGivers
<1>2. task[r].rest \subseteq Transferers
  BY DEF ReadGivers, IInv, TasksTyped, HeldTyped
<1>3. HeldTyped(held) /\ held.stage # "pay"
  BY <1>1, <1>2, Listed, IdleTyped DEF HeldTyped, Stages
<1>4. UNCHANGED <<blockchain, wallet, setting, coins, pending, overlapped>>
  BY DEF ReadGivers
<1> QED
  BY <1>1, <1>3, <1>4, TaskStep

LEMMA NextWalletInv ==
  ASSUME IInv, NEW r \in Runs, NextWallet(r)
  PROVE  IInv'
<1>1. /\ task[r].stage = "next"
      /\ UNCHANGED <<blockchain, wallet, setting, coins, pending, overlapped>>
  BY DEF NextWallet
<1>2. task[r].rest \subseteq Transferers /\ task[r].givers \subseteq Givers
  BY <1>1 DEF IInv, TasksTyped, HeldTyped
<1>3. CASE Hold(r, Idle)
  BY <1>1, <1>3, IdleTyped, TaskStep
<1>4. CASE \E w \in Foremost(task[r].rest, task[r].balances) :
             Hold(r, [stage |-> "balance", rest |-> task[r].rest \ {w},
                      balances |-> task[r].balances, givers |-> task[r].givers, of |-> w])
  <2>1. PICK w \in Foremost(task[r].rest, task[r].balances) :
          Hold(r, [stage |-> "balance", rest |-> task[r].rest \ {w},
                   balances |-> task[r].balances, givers |-> task[r].givers, of |-> w])
    BY <1>4
  <2>2. PICK held :
          held = [stage |-> "balance", rest |-> task[r].rest \ {w},
                   balances |-> task[r].balances, givers |-> task[r].givers, of |-> w]
    OBVIOUS
  <2>3. w \in task[r].rest
    BY DEF Foremost
  <2>4. HeldTyped(held) /\ held.stage # "pay"
    BY <1>2, <2>2, <2>3 DEF HeldTyped, Stages
  <2> QED
    BY <1>1, <2>1, <2>2, <2>4, TaskStep
<1> QED
  BY <1>3, <1>4 DEF NextWallet

\* After a wallet, or without a deposit to it, the run goes on with the others.
LEMMA GoTyped ==
  ASSUME IInv, NEW r \in Runs, task[r].stage \in {"balance", "pay"}
  PROVE  \E held : held = Go(r, "next") /\ HeldTyped(held) /\ held.stage = "next"
<1>1. task[r].rest \subseteq Transferers /\ task[r].givers \subseteq Givers
  BY DEF IInv, TasksTyped, HeldTyped
<1>2. PICK held : held = Go(r, "next")
  OBVIOUS
<1>3. HeldTyped(held) /\ held.stage = "next"
  BY <1>1, <1>2 DEF Go, HeldTyped, Stages
<1> QED
  BY <1>2, <1>3

\* The wallet is short, and nobody else has a deposit to it under way; or somebody
\* has, and it is on record.
LEMMA GetBalanceInv ==
  ASSUME IInv, NEW r \in Runs, GetBalance(r)
  PROVE  IInv'
<1>1. /\ task[r].stage = "balance"
      /\ UNCHANGED <<blockchain, wallet, setting, coins, pending>>
  BY DEF GetBalance
<1>2. PICK w0 : w0 = task[r].of
  OBVIOUS
<1>3. /\ task[r].rest \subseteq Transferers /\ task[r].givers \subseteq Givers
      /\ w0 \in Transferers
  BY <1>1, <1>2 DEF IInv, TasksTyped, HeldTyped
<1>4. /\ coins \in [Wallets -> Nat] /\ coins[w0] \in Nat /\ MinBalance \in Nat
      /\ overlapped \subseteq Transferers
  BY <1>3, CoinsAssumption DEF IInv, TypeOK, Transferers
<1>5. CASE ~Short(coins[w0])
  <2>1. Hold(r, Go(r, "next")) /\ UNCHANGED overlapped
    BY <1>2, <1>5 DEF GetBalance
  <2> QED
    BY <1>1, <2>1, GoTyped, TaskStep
<1>6. CASE Short(coins[w0])
  <2> PICK g \in task[r].givers :
        Hold(r, [stage |-> "pay", rest |-> task[r].rest,
                 balances |-> task[r].balances, givers |-> task[r].givers \ {g},
                 of |-> w0, giver |-> g, amount |-> Due(coins[w0])])
    BY <1>2, <1>6 DEF GetBalance
  <2>1. PICK held :
          /\ held = [stage |-> "pay", rest |-> task[r].rest,
                     balances |-> task[r].balances, givers |-> task[r].givers \ {g},
                     of |-> w0, giver |-> g, amount |-> Due(coins[w0])]
          /\ Hold(r, held)
    OBVIOUS
  <2>2. overlapped' = IF UnderWay(r, w0) THEN overlapped \cup {w0} ELSE overlapped
    BY <1>2, <1>6 DEF GetBalance
  <2>3. coins[w0] < MinBalance
    BY <1>4, <1>6 DEF Short
  <2>4. Due(coins[w0]) \in Nat /\ coins[w0] + Due(coins[w0]) = MinBalance
    BY <1>4, <2>3 DEF Due
  <2>5. HeldTyped(held)
    BY <1>3, <2>1, <2>4 DEF HeldTyped, Stages
  <2>6. held.stage = "pay" /\ held.of = w0 /\ held.amount = Due(coins[w0])
    BY <2>1
  <2>7. /\ TasksTyped' /\ task'[r] = held
        /\ \A q \in Runs \ {r} : task'[q] = task[q]
    BY <2>1, <2>5, HoldEffect DEF IInv
  <2>8. TypeOK' /\ IsFiniteSet(pending)' /\ RowsAreKept'
    BY <1>1, <1>3, <2>2, <2>7
       DEF IInv, TypeOK, TableOK, RowsAreKept, Exists, TasksTyped, HeldTyped
  <2>9. ASSUME NEW w \in Transferers \ overlapped'
        PROVE  LoneDeposit(w)'
    <3>1. LoneDeposit(w)
      BY <2>2, <2>9 DEF IInv
    <3>2. CASE w # w0
      <4>1. \A q \in Runs : Paying(q, w)' => Paying(q, w) /\ task'[q] = task[q]
        BY <2>6, <2>7, <3>2 DEF Paying
      <4> QED
        BY <1>1, <3>1, <4>1 DEF LoneDeposit
    <3>3. CASE w = w0
      <4>1. ~UnderWay(r, w0)
        BY <2>2, <2>9, <3>3
      <4>2. /\ \A m \in pending : m.to # w
            /\ \A q \in Runs \ {r} : ~Paying(q, w)
        BY <3>3, <4>1 DEF UnderWay, Paying
      <4>3. \A q \in Runs : Paying(q, w)' => q = r
        BY <2>7, <4>2 DEF Paying
      <4>4. coins'[w] + task'[r].amount <= MinBalance
        BY <1>1, <1>4, <2>4, <2>6, <2>7, <3>3
      <4>5. coins'[w] <= MinBalance
        BY <1>1, <3>1 DEF LoneDeposit
      <4> QED
        BY <1>1, <4>2, <4>3, <4>4, <4>5 DEF LoneDeposit
    <3> QED
      BY <3>2, <3>3
  <2> QED
    BY <2>7, <2>8, <2>9 DEF IInv
<1> QED
  BY <1>5, <1>6

LEMMA NumberTyped ==
  ASSUME IInv, NEW g
  PROVE  Number(g) \in Nat
<1>1. OfGiver(g) \subseteq pending /\ IsFiniteSet(pending)
  BY DEF OfGiver, IInv
<1>2. IsFiniteSet(OfGiver(g))
  BY <1>1, FS_Subset
<1> QED
  BY <1>2, FS_CardinalityType DEF Number

\* A deposit that is handed over takes the place of the run that was to make it.
LEMMA DepositInv ==
  ASSUME IInv, NEW r \in Runs, Deposit(r)
  PROVE  IInv'
<1>1. /\ task[r].stage = "pay"
      /\ UNCHANGED <<blockchain, wallet, setting, coins, overlapped>>
  BY DEF Deposit
<1> PICK w0, a0, g0 : w0 = task[r].of /\ a0 = task[r].amount /\ g0 = task[r].giver
  OBVIOUS
<1>2. w0 \in Transferers /\ a0 \in Nat /\ g0 \in Givers
  BY <1>1 DEF IInv, TasksTyped, HeldTyped
<1> PICK m : m = [giver |-> g0, number |-> Number(g0), to |-> w0, amount |-> a0]
  OBVIOUS
<1>3. /\ m \in Deposits /\ m.to = w0 /\ m.amount = a0
  BY <1>2, NumberTyped DEF Deposits
<1>4. CASE Hold(r, Idle) /\ UNCHANGED pending
  BY <1>1, <1>4, IdleTyped, TaskStep
<1>5. CASE Hold(r, Go(r, "next")) /\ pending' = pending \cup {m}
  <2>1. PICK held : held = Go(r, "next") /\ HeldTyped(held) /\ held.stage = "next"
    BY <1>1, GoTyped
  <2>2. /\ TasksTyped' /\ task'[r] = held
        /\ \A q \in Runs \ {r} : task'[q] = task[q]
    BY <1>5, <2>1, HoldEffect DEF IInv
  <2>3. IsFiniteSet(pending)'
    BY <1>5, FS_AddElement DEF IInv
  <2>4. TypeOK' /\ RowsAreKept'
    BY <1>1, <1>3, <1>5, <2>2
       DEF IInv, TypeOK, TableOK, RowsAreKept, Exists, TasksTyped, HeldTyped
  <2>5. ASSUME NEW w \in Transferers \ overlapped
        PROVE  LoneDeposit(w)'
    <3>1. LoneDeposit(w)
      BY DEF IInv
    <3>2. \A q \in Runs : Paying(q, w)' => q # r /\ Paying(q, w) /\ task'[q] = task[q]
      BY <2>1, <2>2 DEF Paying
    <3>3. CASE w # w0
      <4>1. \A n \in pending' : n.to = w => n \in pending
        BY <1>3, <1>5, <3>3
      <4> QED
        BY <1>1, <3>1, <3>2, <4>1 DEF LoneDeposit
    <3>4. CASE w = w0
      <4>1. Paying(r, w) /\ task[r].amount = a0
        BY <1>1, <3>4 DEF Paying
      <4>2. /\ \A n \in pending : n.to # w
            /\ \A q \in Runs : Paying(q, w) => q = r
            /\ coins[w] + a0 <= MinBalance /\ coins[w] <= MinBalance
        BY <3>1, <4>1 DEF LoneDeposit
      <4>3. \A q \in Runs : ~Paying(q, w)'
        BY <3>2, <4>2
      <4>4. \A n \in pending' : n.to = w => n = m
        BY <1>5, <4>2
      <4>5. coins'[w] = coins[w]
        BY <1>1
      <4> QED
        BY <1>3, <4>2, <4>3, <4>4, <4>5 DEF LoneDeposit
    <3> QED
      BY <3>3, <3>4
  <2> QED
    BY <1>1, <2>2, <2>3, <2>4, <2>5 DEF IInv
<1> QED
  BY <1>4, <1>5 DEF Deposit

LEMMA RunFailsInv ==
  ASSUME IInv, NEW r \in Runs, RunFails(r)
  PROVE  IInv'
BY IdleTyped, TaskStep DEF RunFails

\* The process dies with all its runs; what the chain has stays.
LEMMA CrashInv ==
  ASSUME IInv, Crash
  PROVE  IInv'
<1>1. /\ task' = [r \in Runs |-> Idle]
      /\ UNCHANGED <<blockchain, wallet, setting, coins, pending, overlapped>>
  BY DEF Crash
<1>2. TasksTyped'
  BY <1>1, IdleTyped DEF TasksTyped
<1>3. TypeOK' /\ IsFiniteSet(pending)' /\ RowsAreKept'
  BY <1>1, <1>2 DEF IInv, TypeOK, TableOK, RowsAreKept, Exists, TasksTyped, HeldTyped
<1>4. \A q \in Runs : task'[q].stage # "pay"
  BY <1>1, IdleTyped
<1>5. ASSUME NEW w \in Transferers \ overlapped
      PROVE  LoneDeposit(w)'
  BY <1>1, <1>4 DEF IInv, LoneDeposit, Paying
<1> QED
  BY <1>1, <1>2, <1>3, <1>5 DEF IInv

-----------------------------------------------------------------------------
(* The tables, the swaps and the chains.                                     *)

\* What is under way, and for which wallets, does not depend on the table.
LEMMA WalletsStay ==
  ASSUME IInv, UNCHANGED <<coins, pending, task, overlapped>>
  PROVE  /\ IsFiniteSet(pending)' /\ TasksTyped'
         /\ \A w \in Transferers \ overlapped' : LoneDeposit(w)'
BY DEF IInv, TasksTyped, LoneDeposit, Paying

LEMMA CreateSettingInv ==
  ASSUME IInv, CreateSetting
  PROVE  IInv'
<1>1. UNCHANGED <<blockchain, wallet, coins, pending, task, overlapped>> /\ setting' = TRUE
  BY DEF CreateSetting
<1>2. TypeOK' /\ RowsAreKept'
  BY <1>1 DEF IInv, TypeOK, TableOK, RowsAreKept, Exists
<1> QED
  BY <1>1, <1>2, WalletsStay DEF IInv

\* A row that is disabled or enabled keeps its type.
LEMMA UpdateWalletInv ==
  ASSUME IInv, NEW w \in Wallets, UpdateWallet(w)
  PROVE  IInv'
<1>1. UNCHANGED <<blockchain, setting, coins, pending, task, overlapped>>
  BY DEF UpdateWallet
<1>2. TableOK /\ RowsAreKept /\ Exists(w)
  BY DEF IInv, TypeOK, RowsAreKept
<1>3. wallet[w] \in Row
  BY <1>2 DEF TableOK, Exists
<1> PICK row, value : value = ~wallet[w].disabled /\ row = Updated(w, [disabled |-> value])
  OBVIOUS
<1>4. value \in BOOLEAN
  BY <1>3 DEF Row
<1>5. row = [c \in DOMAIN wallet[w] |-> IF c = "disabled" THEN value ELSE wallet[w][c]]
  BY <1>2 DEF Updated
<1>6. row \in Row /\ row.type = wallet[w].type
  <2>1. DOMAIN wallet[w] = Columns
    BY <1>3 DEF Row, Columns
  <2>2. row = [c \in Columns |-> IF c = "disabled" THEN value ELSE wallet[w][c]]
    BY <1>5, <2>1
  <2>3. \A c \in Columns : wallet[w][c] \in Entries(c)
    BY <1>3 DEF Row, Columns, Entries
  <2>4. Entries("disabled") = BOOLEAN
    BY DEF Entries
  <2>5. \A c \in Columns : row[c] \in Entries(c)
    BY <1>4, <2>2, <2>3, <2>4
  <2> QED
    BY <2>2, <2>5 DEF Row, Columns, Entries
<1>7. wallet' = [wallet EXCEPT ![w] = row]
  BY DEF UpdateWallet, Update
<1>8. TableOK' /\ wallet'[w] = row /\ \A v \in Wallets \ {w} : wallet'[v] = wallet[v]
  BY <1>2, <1>6, <1>7 DEF TableOK
<1>9. row \notin {NoRow, Deleted}
  BY <1>6 DEF Row, Types, NoRow, Deleted
<1>10. RowsAreKept'
  BY <1>2, <1>6, <1>8, <1>9 DEF RowsAreKept, Exists
<1>11. TypeOK'
  BY <1>1, <1>8 DEF IInv, TypeOK
<1> QED
  BY <1>1, <1>10, <1>11, WalletsStay DEF IInv

\* A swap's transfer takes coins, and adds none.
LEMMA PayGasInv ==
  ASSUME IInv, NEW w \in Wallets, PayGas(w)
  PROVE  IInv'
<1>1. /\ coins' = [coins EXCEPT ![w] = @ - Gas] /\ coins[w] >= Gas
      /\ UNCHANGED <<blockchain, wallet, setting, pending, task, overlapped>>
  BY DEF PayGas
<1>2. coins \in [Wallets -> Nat] /\ Gas \in Nat /\ MinBalance \in Nat
      /\ pending \subseteq Deposits
  BY CoinsAssumption DEF IInv, TypeOK
<1>3. coins' \in [Wallets -> Nat] /\ \A v \in Wallets : coins'[v] <= coins[v]
  BY <1>1, <1>2
<1>4. TypeOK' /\ IsFiniteSet(pending)' /\ RowsAreKept' /\ TasksTyped'
  BY <1>1, <1>3 DEF IInv, TypeOK, TableOK, RowsAreKept, Exists, TasksTyped
<1>5. ASSUME NEW v \in Transferers \ overlapped
      PROVE  LoneDeposit(v)'
  <2>1. LoneDeposit(v) /\ v \in Wallets
    BY DEF IInv, Transferers
  <2>2. coins'[v] <= coins[v] /\ coins[v] \in Nat /\ coins'[v] \in Nat
    BY <1>2, <1>3, <2>1
  <2>3. \A n \in pending : n.amount \in Nat
    BY <1>2 DEF Deposits
  <2>4. \A q \in Runs : Paying(q, v) => task[q].amount \in Nat
    BY DEF IInv, TasksTyped, HeldTyped, Paying
  <2>5. coins'[v] <= MinBalance
    BY <1>2, <2>1, <2>2 DEF LoneDeposit
  <2>6. \A n \in pending : n.to = v => coins'[v] + n.amount <= MinBalance
    BY <1>2, <2>1, <2>2, <2>3 DEF LoneDeposit
  <2>7. \A q \in Runs : Paying(q, v) => coins'[v] + task[q].amount <= MinBalance
    BY <1>2, <2>1, <2>2, <2>4 DEF LoneDeposit
  <2> QED
    BY <1>1, <2>1, <2>5, <2>6, <2>7 DEF LoneDeposit, Paying
<1> QED
  BY <1>1, <1>4, <1>5 DEF IInv

LEMMA NumberAged ==
  ASSUME NEW n \in Deposits
  PROVE  /\ [n EXCEPT !.number = Max({n.number - 1, -1})] \in Deposits
         /\ [n EXCEPT !.number = Max({n.number - 1, -1})].to = n.to
         /\ [n EXCEPT !.number = Max({n.number - 1, -1})].amount = n.amount
<1>1. n.number \in {-1} \cup Nat
  BY DEF Deposits
<1> PICK k : k = Max({n.number - 1, -1})
  OBVIOUS
<1>2. k \in {-1} \cup Nat
  <2>1. \E x \in {n.number - 1, -1} : \A y \in {n.number - 1, -1} : x >= y
    BY <1>1
  <2>2. k \in {n.number - 1, -1} /\ \A y \in {n.number - 1, -1} : k >= y
    BY <2>1 DEF Max
  <2> QED
    BY <1>1, <2>2
<1> QED
  BY <1>2 DEF Deposits

\* What is left of the deposits under way once m was carried out.
LEMMA ExecuteEffect ==
  ASSUME IInv, NEW m \in pending, Execute(m)
  PROVE  /\ pending' \subseteq Deposits /\ IsFiniteSet(pending')
         /\ \E f : /\ f \in [pending \ {m} -> Deposits]
                   /\ pending' = {f[n] : n \in pending \ {m}}
                   /\ \A n \in pending \ {m} : f[n].to = n.to /\ f[n].amount = n.amount
<1>1. pending \subseteq Deposits /\ IsFiniteSet(pending)
  BY DEF IInv, TypeOK
<1> DEFINE aged(n) == [n EXCEPT !.number = Max({n.number - 1, -1})]
           S == pending \ {m}
           f == [n \in S |-> IF n \in OfGiver(m.giver) THEN aged(n) ELSE n]
<1>2. pending' = (pending \ OfGiver(m.giver)) \cup {aged(n) : n \in OfGiver(m.giver) \ {m}}
  BY DEF Execute
<1>3. \A n \in S : aged(n) \in Deposits /\ aged(n).to = n.to /\ aged(n).amount = n.amount
  BY <1>1, NumberAged
<1>4. m \in OfGiver(m.giver) /\ OfGiver(m.giver) \subseteq pending
  BY DEF OfGiver
<1> HIDE DEF aged
<1>5. pending' = {f[n] : n \in S}
  BY <1>2, <1>4
<1>6. f \in [S -> Deposits]
  BY <1>1, <1>3
<1>7. \A n \in S : f[n].to = n.to /\ f[n].amount = n.amount
  BY <1>3
<1>8. f \in Surjection(S, pending')
  BY <1>5 DEF Surjection
<1>9. IsFiniteSet(S)
  BY <1>1, FS_Subset
<1> HIDE DEF f, S
<1>10. IsFiniteSet(pending')
  BY <1>8, <1>9, FS_Surjection
<1>11. pending' \subseteq Deposits
  BY <1>5, <1>6
<1> QED
  BY <1>5, <1>6, <1>7, <1>10, <1>11 DEF S

\* The deposit arrives, or the giver could not pay it.
LEMMA ExecuteInv ==
  ASSUME IInv, NEW m \in pending, Execute(m)
  PROVE  IInv'
<1>1. /\ UNCHANGED <<blockchain, wallet, setting, task, overlapped>>
      /\ pending' \subseteq Deposits /\ IsFiniteSet(pending')
  BY ExecuteEffect DEF Execute
<1>2. /\ coins \in [Wallets -> Nat] /\ MinBalance \in Nat
      /\ m.giver \in Givers /\ m.to \in Transferers /\ m.amount \in Nat
  BY CoinsAssumption DEF IInv, TypeOK, Deposits
<1>3. m.giver \in Wallets /\ m.to \in Wallets /\ m.to # m.giver
  BY <1>2, GiversAssumption DEF Transferers
<1>4. /\ coins' \in [Wallets -> Nat]
      /\ coins'[m.to] \in {coins[m.to], coins[m.to] + m.amount}
      /\ \A v \in Transferers \ {m.to} : coins'[v] = coins[v]
  <2>1. CASE coins[m.giver] < m.amount
    BY <1>2, <2>1 DEF Execute
  <2>2. CASE ~(coins[m.giver] < m.amount)
    <3>1. coins' = [coins EXCEPT ![m.giver] = @ - m.amount, ![m.to] = @ + m.amount]
      BY <2>2 DEF Execute
    <3>2. coins[m.giver] - m.amount \in Nat
      BY <1>2, <1>3, <2>2
    <3>3. \A v \in Wallets : coins'[v] = IF v = m.to THEN coins[v] + m.amount
                                         ELSE IF v = m.giver THEN coins[v] - m.amount
                                         ELSE coins[v]
      BY <1>2, <1>3, <3>1
    <3>4. coins' \in [Wallets -> Nat]
      BY <1>2, <1>3, <3>1, <3>2
    <3> QED
      BY <1>2, <1>3, <3>3, <3>4 DEF Transferers
  <2> QED
    BY <2>1, <2>2
<1>5. TypeOK' /\ RowsAreKept' /\ TasksTyped'
  BY <1>1, <1>4 DEF IInv, TypeOK, TableOK, RowsAreKept, Exists, TasksTyped
<1>6. PICK f : /\ f \in [pending \ {m} -> Deposits]
               /\ pending' = {f[n] : n \in pending \ {m}}
               /\ \A n \in pending \ {m} : f[n].to = n.to /\ f[n].amount = n.amount
  BY ExecuteEffect
<1>7. ASSUME NEW w \in Transferers \ overlapped
      PROVE  LoneDeposit(w)'
  <2>1. LoneDeposit(w)
    BY DEF IInv
  <2>2. \A q \in Runs : Paying(q, w)' <=> Paying(q, w)
    BY <1>1 DEF Paying
  <2>3. CASE w = m.to
    <3>1. /\ coins[w] + m.amount <= MinBalance /\ coins[w] <= MinBalance
          /\ \A n \in pending : n.to = w => n = m
          /\ \A q \in Runs : ~Paying(q, w)
      BY <2>1, <2>3 DEF LoneDeposit
    <3>2. \A x \in pending' : x.to # w
      BY <1>6, <3>1
    <3>3. coins'[w] <= MinBalance
      BY <1>4, <2>3, <3>1
    <3> QED
      BY <2>2, <3>1, <3>2, <3>3 DEF LoneDeposit
  <2>4. CASE w # m.to
    <3>1. coins'[w] = coins[w]
      BY <1>4, <2>4
    <3>2. ASSUME NEW x \in pending', x.to = w
          PROVE  /\ coins[w] + x.amount <= MinBalance
                 /\ \A y \in pending' : y.to = w => y = x
                 /\ \A q \in Runs : ~Paying(q, w)
      <4>1. PICK n \in pending \ {m} : x = f[n] /\ n.to = w /\ n.amount = x.amount
        BY <1>6, <3>2
      <4>2. /\ coins[w] + n.amount <= MinBalance
            /\ \A k \in pending : k.to = w => k = n
            /\ \A q \in Runs : ~Paying(q, w)
        BY <2>1, <4>1 DEF LoneDeposit
      <4>3. ASSUME NEW y \in pending', y.to = w
            PROVE  y = x
        <5>1. PICK k \in pending \ {m} : y = f[k] /\ k.to = w
          BY <1>6, <4>3
        <5> QED
          BY <4>1, <4>2, <5>1
      <4> QED
        BY <4>1, <4>2, <4>3
    <3>3. /\ coins[w] <= MinBalance
          /\ \A q \in Runs : Paying(q, w) =>
               /\ coins[w] + task[q].amount <= MinBalance
               /\ \A p \in Runs : Paying(p, w) => p = q
      BY <2>1 DEF LoneDeposit
    <3>4. task' = task
      BY <1>1
    <3> QED
      BY <2>2, <3>1, <3>2, <3>3, <3>4 DEF LoneDeposit
  <2> QED
    BY <2>3, <2>4
<1> QED
  BY <1>1, <1>5, <1>7 DEF IInv

\* A deposit that is lost leaves the others.
LEMMA ExpireInv ==
  ASSUME IInv, NEW m \in pending, Expire(m)
  PROVE  IInv'
<1>1. /\ UNCHANGED <<blockchain, wallet, setting, coins, task, overlapped>>
      /\ pending' \subseteq pending
  BY DEF Expire
<1>2. IsFiniteSet(pending')
  BY <1>1, FS_Subset DEF IInv
<1>3. TypeOK' /\ RowsAreKept' /\ TasksTyped'
  BY <1>1 DEF IInv, TypeOK, TableOK, RowsAreKept, Exists, TasksTyped
<1>4. ASSUME NEW w \in Transferers \ overlapped
      PROVE  LoneDeposit(w)'
  BY <1>1 DEF IInv, LoneDeposit, Paying
<1> QED
  BY <1>1, <1>2, <1>3, <1>4 DEF IInv

-----------------------------------------------------------------------------
(* The invariant holds from the start on, and with it the property.          *)

LEMMA InitInv ==
  ASSUME Init
  PROVE  IInv
<1>1. \A w \in Wallets :
        \/ wallet[w] = AttachedRow(blockchain, "giver", 0)
        \/ wallet[w] = CreatedRow(blockchain, "transferer")
        \/ \E b \in Tokens : wallet[w] = AttachedRow(blockchain, "transferer", b)
  BY DEF Init
<1>2. \A w \in Wallets : wallet[w] \in Row
  <2>1. AttachedRow(blockchain, "giver", 0) \in Row
    BY DEF AttachedRow, Row, Types, Balances
  <2>2. CreatedRow(blockchain, "transferer") \in Row
    BY DEF CreatedRow, Row, Types, Balances
  <2>3. ASSUME NEW b \in Tokens
        PROVE  AttachedRow(blockchain, "transferer", b) \in Row
    BY TokensAssumption DEF AttachedRow, Row, Types, Balances
  <2> QED
    BY <1>1, <2>1, <2>2, <2>3
<1>3. TableOK
  BY <1>2 DEF Init, TableOK
<1>4. \A row \in Row : row \notin {NoRow, Deleted}
  BY DEF Row, Types, NoRow, Deleted
<1>5. RowsAreKept
  BY <1>2, <1>4 DEF Init, RowsAreKept, Exists
<1>6. /\ pending = {} /\ overlapped = {} /\ blockchain \in Blockchains /\ setting \in BOOLEAN
      /\ task = [r \in Runs |-> Idle]
      /\ coins \in [Wallets -> Stock \cup Funds]
  BY DEF Init
<1>7. TasksTyped /\ \A r \in Runs : task[r].stage = "idle"
  BY <1>6, IdleTyped DEF TasksTyped
<1>8. coins \in [Wallets -> Nat]
  <2>1. Stock \subseteq Nat /\ Funds \subseteq Nat
    BY CoinsAssumption
  <2> QED
    BY <1>6, <2>1
<1>9. TypeOK
  BY <1>3, <1>6, <1>7, <1>8 DEF TypeOK, Stages
<1>10. IsFiniteSet(pending)
  BY <1>6, FS_EmptySet
<1>11. ASSUME NEW w \in Transferers
       PROVE  LoneDeposit(w)
  <2>1. coins[w] <= MinBalance
    BY CoinsAssumption DEF Init, Transferers
  <2> QED
    BY <1>6, <1>7, <2>1 DEF LoneDeposit, Paying
<1> QED
  BY <1>5, <1>7, <1>9, <1>10, <1>11 DEF IInv

LEMMA NextInv ==
  ASSUME IInv, [Next]_vars
  PROVE  IInv'
<1>1. ASSUME NEW r \in Runs, RunStep(r) \/ RunFails(r)
      PROVE  IInv'
  BY <1>1, ReadWalletsInv, ReadGiversInv, NextWalletInv, GetBalanceInv, DepositInv,
     RunFailsInv DEF RunStep
<1>2. ASSUME NEW w \in Wallets, UpdateWallet(w) \/ PayGas(w)
      PROVE  IInv'
  BY <1>2, UpdateWalletInv, PayGasInv
<1>3. ASSUME NEW m \in pending, Execute(m) \/ Expire(m)
      PROVE  IInv'
  BY <1>3, ExecuteInv, ExpireInv
<1>4. CASE CreateSetting \/ Crash
  BY <1>4, CreateSettingInv, CrashInv
<1>5. CASE UNCHANGED vars
  <2>1. /\ UNCHANGED <<coins, pending, task, overlapped>>
        /\ UNCHANGED <<blockchain, wallet, setting>>
    BY <1>5 DEF vars
  <2>2. TypeOK' /\ RowsAreKept'
    BY <2>1 DEF IInv, TypeOK, TableOK, RowsAreKept, Exists
  <2> QED
    BY <2>1, <2>2, WalletsStay DEF IInv
<1> QED
  BY <1>1, <1>2, <1>3, <1>4, <1>5 DEF Next

\* Each variable keeps its type, and a pending deposit goes from a giver to a
\* transferer, however many of them there are.
THEOREM TypesHold == Spec => []TypeOK
<1>1. IInv => TypeOK
  BY DEF IInv
<1> QED
  BY <1>1, InitInv, NextInv, PTL DEF Spec

\* Whatever runs overlap, fail or die and in whatever order the chain carries out
\* their deposits, a transferer has, with what is on its way to it, no more than
\* minWalletBalance, unless its balance was read while a deposit to it was under way.
THEOREM NoWalletIsOverpaid == Spec => []RaisedToTheMinimum
<1>1. ASSUME IInv, NEW w \in Transferers \ overlapped
      PROVE  coins[w] + Total({m \in pending : m.to = w}) <= MinBalance
  <2>1. LoneDeposit(w) /\ pending \subseteq Deposits /\ coins[w] \in Nat
    BY <1>1 DEF IInv, TypeOK, Transferers
  <2>2. CASE \A m \in pending : m.to # w
    <3>1. {m \in pending : m.to = w} = {}
      BY <2>2
    <3>2. Total({m \in pending : m.to = w}) = 0
      BY <3>1, TotalNone
    <3> QED
      BY <2>1, <3>2 DEF LoneDeposit
  <2>3. CASE \E m \in pending : m.to = w
    <3>1. PICK m \in pending : m.to = w
      BY <2>3
    <3>2. /\ {n \in pending : n.to = w} = {m} /\ m.amount \in Nat
          /\ coins[w] + m.amount <= MinBalance
      BY <2>1, <3>1 DEF LoneDeposit, Deposits
    <3>3. Total({n \in pending : n.to = w}) = m.amount
      BY <3>2, TotalOne
    <3> QED
      BY <3>2, <3>3
  <2> QED
    BY <2>2, <2>3
<1>2. IInv => RaisedToTheMinimum
  BY <1>1 DEF RaisedToTheMinimum
<1> QED
  BY <1>2, InitInv, NextInv, PTL DEF Spec
===============================================================================
