------------------------ MODULE WalletBalances_proofs ------------------------
(* The proofs about WalletBalances: a swap keeps its wallet, and a balance   *)
(* of the table is right unless somebody overtook its reads and writes.      *)
EXTENDS WalletBalances, FunctionTheorems, FiniteSetTheorems, TLAPS

-----------------------------------------------------------------------------
(* Sums over swaps, counted token by token.                                  *)

\* The tokens that are counted, one pair for each.
Tokens(tokens) == UNION {{s} \X (1..tokens[s]) : s \in DOMAIN tokens}

\* A swap with k tokens has k of them.
LEMMA PileIsCounted ==
  ASSUME NEW x, NEW k \in Nat
  PROVE  IsFiniteSet({x} \X (1..k)) /\ Cardinality({x} \X (1..k)) = k
<1> DEFINE A == {x}
           B == 1..k
<1>1. IsFiniteSet(A) /\ Cardinality(A) = 1
  BY FS_Singleton
<1>2. IsFiniteSet(B) /\ Cardinality(B) = k
  BY FS_Interval
<1>3. A \X B = {x} \X (1..k)
  OBVIOUS
<1> HIDE DEF A, B
<1>4. IsFiniteSet(A \X B) /\ Cardinality(A \X B) = Cardinality(A) * Cardinality(B)
  BY <1>1, <1>2, FS_Product
<1>5. Cardinality(A) * Cardinality(B) = k
  BY <1>1, <1>2
<1> QED
  BY <1>3, <1>4, <1>5

\* Finitely many swaps have finitely many tokens.
LEMMA TotalIsNat ==
  ASSUME NEW S, IsFiniteSet(S), NEW n \in [S -> Nat]
  PROVE  IsFiniteSet(Tokens(n)) /\ Total(n) = Cardinality(Tokens(n)) /\ Total(n) \in Nat
<1> DEFINE piles == {{s} \X (1..n[s]) : s \in S}
           pile == [s \in S |-> {s} \X (1..n[s])]
<1>1. pile \in Surjection(S, piles)
  BY DEF Surjection
<1>2. IsFiniteSet(piles)
  <2> HIDE DEF pile, piles
  <2> QED
    BY <1>1, FS_Surjection
<1>3. ASSUME NEW T \in piles
      PROVE  IsFiniteSet(T)
  <2>1. PICK s \in S : T = {s} \X (1..n[s])
    OBVIOUS
  <2>2. IsFiniteSet({s} \X (1..n[s]))
    BY PileIsCounted
  <2> QED
    BY <2>1, <2>2
<1>4. Tokens(n) = UNION piles
  BY DEF Tokens
<1> HIDE DEF piles
<1>5. IsFiniteSet(Tokens(n))
  BY <1>2, <1>3, <1>4, FS_UNION
<1>6. Total(n) = Cardinality(Tokens(n))
  BY DEF Total, Tokens
<1> QED
  BY <1>5, <1>6, FS_CardinalityType

\* One swap more adds its tokens.
LEMMA TotalMore ==
  ASSUME NEW S, IsFiniteSet(S), NEW n \in [S -> Nat], NEW x, x \notin S, NEW k \in Nat,
         NEW m \in [S \cup {x} -> Nat], m[x] = k, \A s \in S : m[s] = n[s]
  PROVE  Total(m) = Total(n) + k
<1> DEFINE added == {x} \X (1..k)
<1>1. Tokens(m) = Tokens(n) \cup added
  <2>1. DOMAIN m = S \cup {x} /\ DOMAIN n = S
    OBVIOUS
  <2>2. Tokens(n) \cup added \subseteq Tokens(m)
    BY <2>1 DEF Tokens
  <2>3. Tokens(m) \subseteq Tokens(n) \cup added
    BY <2>1 DEF Tokens
  <2> QED
    BY <2>2, <2>3
<1>2. Tokens(n) \cap added = {}
  BY DEF Tokens
<1>3. IsFiniteSet(added) /\ Cardinality(added) = k
  BY PileIsCounted
<1>4. IsFiniteSet(S \cup {x})
  BY FS_AddElement
<1>5. /\ IsFiniteSet(Tokens(n)) /\ Total(n) = Cardinality(Tokens(n)) /\ Total(n) \in Nat
      /\ Total(m) = Cardinality(Tokens(m))
  BY <1>4, TotalIsNat
<1> HIDE DEF added
<1> DEFINE rest == Tokens(n)
<1>7. rest = Tokens(n)
  OBVIOUS
<1> HIDE DEF rest
<1>6. Cardinality(rest \cup added)
        = Cardinality(rest) + Cardinality(added) - Cardinality(rest \cap added)
  BY <1>3, <1>5, <1>7, FS_Union
<1>8. Cardinality(rest \cap added) = 0
  BY <1>2, <1>7, FS_EmptySet
<1> QED
  BY <1>1, <1>3, <1>5, <1>6, <1>7, <1>8

-----------------------------------------------------------------------------
(* Rows of the table.                                                        *)

\* A row is told from an address without one, and an update keeps it a row.
LEMMA RowsExist ==
  ASSUME TableOK, NEW w \in Wallets
  PROVE  /\ Exists(w) => wallet[w] \in Row
         /\ Exists(w) => wallet[w] # NoRow
         /\ wallet[w] # NoRow => Exists(w) \/ wallet[w] = Deleted
  BY DEF TableOK, Exists, Row, Types, NoRow, Deleted

\* What update() does to a row whose columns it is given.
LEMMA UpdatedRow ==
  ASSUME TableOK, NEW w \in Wallets, NEW columns, Exists(w),
         \A c \in DOMAIN columns \cap Columns : columns[c] \in Entries(c)
  PROVE  /\ Updated(w, columns) \in Row
         /\ "balance" \in DOMAIN columns => Updated(w, columns).balance = columns["balance"]
         /\ "balance" \notin DOMAIN columns => Updated(w, columns).balance = wallet[w].balance
         /\ Updated(w, columns) \notin {NoRow, Deleted}
<1>1. wallet[w] \in Row
  BY RowsExist
<1>2. DOMAIN wallet[w] = Columns
  BY <1>1 DEF Row, Columns
<1>3. Updated(w, columns)
        = [c \in Columns |-> IF c \in DOMAIN columns THEN columns[c] ELSE wallet[w][c]]
  BY <1>2 DEF Updated
<1>4. \A c \in Columns : wallet[w][c] \in Entries(c)
  BY <1>1 DEF Row, Columns, Entries
<1>5. \A c \in Columns : Updated(w, columns)[c] \in Entries(c)
  BY <1>3, <1>4
<1>6. Updated(w, columns) \in Row
  BY <1>3, <1>5 DEF Row, Columns, Entries
<1> QED
  BY <1>3, <1>6 DEF Columns, Row, Types, NoRow, Deleted

\* update() of one row touches no other, and neither makes nor removes one.
LEMMA UpdateEffect ==
  ASSUME TableOK, NEW w \in Wallets, NEW columns, Update(w, columns),
         \A c \in DOMAIN columns \cap Columns : columns[c] \in Entries(c)
  PROVE  /\ TableOK'
         /\ \A v \in Wallets :
              /\ v # w => wallet'[v] = wallet[v]
              /\ Exists(v)' <=> Exists(v)
              /\ wallet'[v] = NoRow <=> wallet[v] = NoRow
         /\ Exists(w) =>
              /\ "balance" \in DOMAIN columns => wallet'[w].balance = columns["balance"]
              /\ "balance" \notin DOMAIN columns => wallet'[w].balance = wallet[w].balance
<1>1. /\ wallet'[w] = Updated(w, columns)
      /\ wallet' \in [Wallets -> {Updated(w, columns)} \cup Row \cup {NoRow, Deleted}]
      /\ \A v \in Wallets \ {w} : wallet'[v] = wallet[v]
  BY DEF Update, TableOK
<1>2. CASE Exists(w)
  <2>1. /\ Updated(w, columns) \in Row
        /\ Updated(w, columns) \notin {NoRow, Deleted}
        /\ "balance" \in DOMAIN columns => wallet'[w].balance = columns["balance"]
        /\ "balance" \notin DOMAIN columns => wallet'[w].balance = wallet[w].balance
    BY <1>1, <1>2, UpdatedRow
  <2>2. TableOK'
    BY <1>1, <2>1 DEF TableOK
  <2>3. \A v \in Wallets :
          /\ v # w => wallet'[v] = wallet[v]
          /\ Exists(v)' <=> Exists(v)
          /\ wallet'[v] = NoRow <=> wallet[v] = NoRow
    BY <1>1, <1>2, <2>1 DEF Exists
  <2> QED
    BY <1>2, <2>1, <2>2, <2>3
<1>3. CASE ~Exists(w)
  <2>1. Updated(w, columns) = [c \in DOMAIN wallet[w] |-> wallet[w][c]]
    BY <1>3 DEF Updated
  <2>2. wallet[w] \in {NoRow, Deleted}
    BY <1>3 DEF Exists
  <2>3. Updated(w, columns) = wallet[w]
    BY <2>1, <2>2 DEF NoRow, Deleted
  <2>4. TableOK'
    BY <1>1, <2>2, <2>3 DEF TableOK
  <2>5. \A v \in Wallets : wallet'[v] = wallet[v]
    BY <1>1, <2>3
  <2> QED
    BY <1>3, <2>4, <2>5 DEF Exists
<1> QED
  BY <1>2, <1>3

-----------------------------------------------------------------------------
(* What makes the two properties inductive.                                  *)

\* What a request has read and not yet made the wallet of a swap.
Requested == {"none", "picked", "marked", "refused"}

\* The stages in which a handler holds what it has read.
Holding == {"credit", "send", "write"}

\* The wallet of s has a row, which stays as long as the swap refers to it; nobody pays
\* a swap that is not there; and the jobs that take tokens away have some to take.
RowInv(s) ==
  LET w == use[s].wallet
  IN  /\ ~At(s, "none") => w \in Wallets /\ wallet[w] # NoRow
      /\ use[s].stage \notin Requested => Exists(w)
      /\ use[s].stage \in Requested => ~use[s].paid
      /\ use[s].stage \in {"debit", "send", "sent", "write", "debited"} =>
           use[s].debits # <<>>
      /\ At(s, "send") => blockchain = "ethereum"

\* A handler holds the row of the wallet of its swap.
HolderInv(s) == use[s].stage \in Holding => held[s].wallet = use[s].wallet

Observers == Runs \cup Admins

\* What was read off the chain is a number of tokens of some address.
ReaderInv(a) ==
  \/ held[a] = NotHeld
  \/ held[a].wallet \in Wallets /\ held[a].balance \in Nat

\* A run of the sync task has rows before it.
RunInv(r) ==
  /\ \A w \in sync[r] : wallet[w] # NoRow
  /\ held[r] = NotHeld \/ wallet[held[r].wallet] # NoRow

\* Whose row is whose.
TableInv ==
  /\ TypeOK
  /\ \A s \in Swaps : RowInv(s) /\ HolderInv(s)
  /\ \A a \in Observers : ReaderInv(a)
  /\ \A r \in Runs : RunInv(r)

\* The balance a handler holds is the one of the row, unless overtaken.
HoldInv(s) ==
  use[s].stage \in Holding =>
    held[s].stale \/ held[s].balance = wallet[use[s].wallet].balance

\* What was read off the chain is what the row should say, unless overtaken.
SeenInv(a) ==
  LET w == held[a].wallet
  IN  \/ held[a] = NotHeld \/ held[a].stale
      \/ held[a].balance + Credits(w) = chain[w] + Charges(w)

\* The row of w says what it should, or somebody was overtaken.
Exact(w) ==
  Exists(w) /\ w \notin apart =>
    /\ wallet[w].balance \in Nat
    /\ wallet[w].balance + Credits(w) = chain[w] + Charges(w)

BalanceInv ==
  /\ \A s \in Swaps : HoldInv(s)
  /\ \A a \in Observers : SeenInv(a)
  /\ \A w \in Wallets : Exact(w)

IInv == TableInv /\ BalanceInv

-----------------------------------------------------------------------------
(* What is under way between the chain and the table.                        *)

UncreditedOf(w) == {s \in Of(w) : Uncredited(s)}
UndebitedOf(w) == {s \in Of(w) : Undebited(s)}

\* What is due of a swap is a number of tokens.
LEMMA DueTyped ==
  ASSUME TypeOK, NEW s \in Swaps, RowInv(s),
         use[s].stage \in {"debit", "send", "sent", "write", "debited"}
  PROVE  Due(s) \in Nat
<1>1. use[s].debits \in Seq(Nat) /\ use[s].debits # <<>>
  BY DEF TypeOK, RowInv
<1> QED
  BY <1>1 DEF Due

\* Credits and charges that are under way are counted.
LEMMA FlowTyped ==
  ASSUME TypeOK, \A s \in Swaps : RowInv(s), NEW w
  PROVE  /\ IsFiniteSet(UncreditedOf(w)) /\ IsFiniteSet(UndebitedOf(w))
         /\ [s \in UncreditedOf(w) |-> Amount] \in [UncreditedOf(w) -> Nat]
         /\ [s \in UndebitedOf(w) |-> Due(s)] \in [UndebitedOf(w) -> Nat]
         /\ Credits(w) = Total([s \in UncreditedOf(w) |-> Amount])
         /\ Charges(w) = Total([s \in UndebitedOf(w) |-> Due(s)])
         /\ Credits(w) \in Nat /\ Charges(w) \in Nat
<1>1. UncreditedOf(w) \subseteq Swaps /\ UndebitedOf(w) \subseteq Swaps
  BY DEF UncreditedOf, UndebitedOf, Of
<1>2. IsFiniteSet(UncreditedOf(w)) /\ IsFiniteSet(UndebitedOf(w))
  BY <1>1, ActorAssumption, FS_Subset
<1>3. \A s \in UndebitedOf(w) : Due(s) \in Nat
  BY DueTyped DEF UndebitedOf, Of, Undebited
<1>4. /\ [s \in UncreditedOf(w) |-> Amount] \in [UncreditedOf(w) -> Nat]
      /\ [s \in UndebitedOf(w) |-> Due(s)] \in [UndebitedOf(w) -> Nat]
  BY <1>3, AmountAssumption
<1>5. /\ Credits(w) = Total([s \in UncreditedOf(w) |-> Amount])
      /\ Charges(w) = Total([s \in UndebitedOf(w) |-> Due(s)])
  BY DEF Credits, Charges, UncreditedOf, UndebitedOf
<1> QED
  BY <1>2, <1>4, <1>5, TotalIsNat

\* Nothing is under way where no swap is in flight.
LEMMA NothingFlows ==
  ASSUME TypeOK, \A s \in Swaps : RowInv(s), NEW w, ~InFlight(w)
  PROVE  Credits(w) = 0 /\ Charges(w) = 0
<1>1. UncreditedOf(w) = {} /\ UndebitedOf(w) = {}
  BY DEF InFlight, UncreditedOf, UndebitedOf, Of
<1>2. Tokens([s \in UncreditedOf(w) |-> Amount]) = {}
  BY <1>1 DEF Tokens
<1>3. Tokens([s \in UndebitedOf(w) |-> Due(s)]) = {}
  BY <1>1 DEF Tokens
<1>4. /\ Credits(w) = Cardinality(Tokens([s \in UncreditedOf(w) |-> Amount]))
      /\ Charges(w) = Cardinality(Tokens([s \in UndebitedOf(w) |-> Due(s)]))
  BY FlowTyped, TotalIsNat
<1> QED
  BY <1>2, <1>3, <1>4, FS_EmptySet

\* The same swaps with the same amounts make the same sums.
LEMMA FlowSame ==
  ASSUME NEW w, UncreditedOf(w)' = UncreditedOf(w), UndebitedOf(w)' = UndebitedOf(w),
         \A s \in UndebitedOf(w) : use'[s].debits = use[s].debits
  PROVE  Credits(w)' = Credits(w) /\ Charges(w)' = Charges(w)
<1>1. /\ Credits(w) = Total([s \in UncreditedOf(w) |-> Amount])
      /\ Charges(w) = Total([s \in UndebitedOf(w) |-> Due(s)])
  BY DEF Credits, Charges, UncreditedOf, UndebitedOf
<1>2. /\ Credits(w)' = Total([s \in UncreditedOf(w)' |-> Amount])
      /\ Charges(w)' = Total([s \in UndebitedOf(w)' |-> Due(s)'])
  BY DEF Credits, Charges, UncreditedOf, UndebitedOf
<1>3. \A s \in UndebitedOf(w) : Due(s)' = Due(s)
  BY DEF Due
<1>4. [s \in UndebitedOf(w)' |-> Due(s)'] = [s \in UndebitedOf(w) |-> Due(s)]
  BY <1>3
<1> QED
  BY <1>1, <1>2, <1>4

\* A swap that comes to be uncredited adds its amount.
LEMMA CreditsGrow ==
  ASSUME TypeOK, \A s \in Swaps : RowInv(s), NEW w, NEW s,
         s \notin UncreditedOf(w), UncreditedOf(w)' = UncreditedOf(w) \cup {s}
  PROVE  Credits(w)' = Credits(w) + Amount
<1> DEFINE S == UncreditedOf(w)
           n == [t \in S |-> Amount]
           m == [t \in S \cup {s} |-> Amount]
<1>1. IsFiniteSet(S) /\ n \in [S -> Nat] /\ Credits(w) = Total(n)
  BY FlowTyped
<1>2. Credits(w)' = Total(m)
  BY DEF Credits, UncreditedOf
<1>3. m \in [S \cup {s} -> Nat] /\ m[s] = Amount /\ \A t \in S : m[t] = n[t]
  BY AmountAssumption
<1>4. s \notin S
  OBVIOUS
<1> HIDE DEF S, n, m
<1> QED
  BY <1>1, <1>2, <1>3, <1>4, TotalMore, AmountAssumption

\* A swap that is credited takes it away.
LEMMA CreditsShrink ==
  ASSUME TypeOK, \A s \in Swaps : RowInv(s), NEW w, NEW s,
         s \notin UncreditedOf(w)', UncreditedOf(w) = UncreditedOf(w)' \cup {s}
  PROVE  Credits(w) = Credits(w)' + Amount
<1> DEFINE S == UncreditedOf(w)'
           n == [t \in S |-> Amount]
           m == [t \in S \cup {s} |-> Amount]
<1>1. IsFiniteSet(UncreditedOf(w)) /\ Credits(w) = Total(m)
  BY FlowTyped
<1>2. Credits(w)' = Total(n)
  BY DEF Credits, UncreditedOf
<1>3. IsFiniteSet(S)
  BY <1>1, FS_Subset
<1>4. /\ n \in [S -> Nat]
      /\ m \in [S \cup {s} -> Nat] /\ m[s] = Amount /\ \A t \in S : m[t] = n[t]
  BY AmountAssumption
<1>5. s \notin S
  OBVIOUS
<1> HIDE DEF S, n, m
<1> QED
  BY <1>1, <1>2, <1>3, <1>4, <1>5, TotalMore, AmountAssumption

\* A swap that comes to be undebited adds what is due of it.
LEMMA ChargesGrow ==
  ASSUME TypeOK, \A s \in Swaps : RowInv(s), NEW w, NEW s \in Swaps, Due(s) \in Nat,
         s \notin UndebitedOf(w), UndebitedOf(w)' = UndebitedOf(w) \cup {s},
         \A t \in UndebitedOf(w)' : use'[t].debits = use[t].debits
  PROVE  Charges(w)' = Charges(w) + Due(s)
<1> DEFINE S == UndebitedOf(w)
           n == [t \in S |-> Due(t)]
           m == [t \in S \cup {s} |-> Due(t)]
<1>1. IsFiniteSet(S) /\ n \in [S -> Nat] /\ Charges(w) = Total(n)
  BY FlowTyped
<1>2. Charges(w)' = Total([t \in UndebitedOf(w)' |-> Due(t)'])
  BY DEF Charges, UndebitedOf
<1>3. \A t \in UndebitedOf(w)' : Due(t)' = Due(t)
  BY DEF Due
<1>4. Charges(w)' = Total(m)
  BY <1>2, <1>3
<1>5. \A t \in S : m[t] = n[t]
  OBVIOUS
<1>6. m \in [S \cup {s} -> Nat] /\ m[s] = Due(s)
  <2>1. \A t \in S : Due(t) \in Nat
    BY <1>1
  <2> QED
    BY <2>1
<1>7. s \notin S
  OBVIOUS
<1> HIDE DEF S, n, m
<1> QED
  BY <1>1, <1>4, <1>5, <1>6, <1>7, TotalMore

\* A swap that is debited takes it away.
LEMMA ChargesShrink ==
  ASSUME TypeOK, \A s \in Swaps : RowInv(s), NEW w, NEW s \in Swaps, Due(s) \in Nat,
         s \notin UndebitedOf(w)', UndebitedOf(w) = UndebitedOf(w)' \cup {s},
         \A t \in UndebitedOf(w)' : use'[t].debits = use[t].debits
  PROVE  Charges(w) = Charges(w)' + Due(s)
<1> DEFINE S == UndebitedOf(w)'
           n == [t \in S |-> Due(t)]
           m == [t \in S \cup {s} |-> Due(t)]
<1>1. /\ IsFiniteSet(UndebitedOf(w)) /\ Charges(w) = Total(m)
      /\ m \in [S \cup {s} -> Nat]
  BY FlowTyped
<1>2. Charges(w)' = Total([t \in UndebitedOf(w)' |-> Due(t)'])
  BY DEF Charges, UndebitedOf
<1>3. \A t \in UndebitedOf(w)' : Due(t)' = Due(t)
  BY DEF Due
<1>4. Charges(w)' = Total(n)
  BY <1>2, <1>3
<1>5. IsFiniteSet(S)
  BY <1>1, FS_Subset
<1>6. /\ \A t \in S : m[t] = n[t]
      /\ m[s] = Due(s)
  OBVIOUS
<1>7. n \in [S -> Nat]
  <2>1. \A t \in S : m[t] \in Nat
    BY <1>1
  <2> QED
    BY <2>1, <1>6
<1>8. s \notin S
  OBVIOUS
<1> HIDE DEF S, n, m
<1> QED
  BY <1>1, <1>4, <1>5, <1>6, <1>7, <1>8, TotalMore

\* What a step of s alone does to the credits and charges of w.
LEMMA SwapFlow ==
  ASSUME TypeOK, \A t \in Swaps : RowInv(t), NEW s \in Swaps, NEW w,
         \A t \in Swaps \ {s} : use'[t] = use[t]
  PROVE  /\ (s \in UncreditedOf(w)' <=> s \in UncreditedOf(w)) => Credits(w)' = Credits(w)
         /\ s \in UncreditedOf(w)' /\ s \notin UncreditedOf(w)
              => Credits(w)' = Credits(w) + Amount
         /\ s \notin UncreditedOf(w)' /\ s \in UncreditedOf(w)
              => Credits(w) = Credits(w)' + Amount
         /\ s \notin UndebitedOf(w)' /\ s \notin UndebitedOf(w) => Charges(w)' = Charges(w)
         /\ use'[s].debits = use[s].debits =>
              /\ (s \in UndebitedOf(w)' <=> s \in UndebitedOf(w)) => Charges(w)' = Charges(w)
              /\ s \in UndebitedOf(w)' /\ s \notin UndebitedOf(w) /\ Due(s) \in Nat
                   => Charges(w)' = Charges(w) + Due(s)
              /\ s \notin UndebitedOf(w)' /\ s \in UndebitedOf(w) /\ Due(s) \in Nat
                   => Charges(w) = Charges(w)' + Due(s)
<1>1. \A t \in Swaps \ {s} :
        /\ t \in UncreditedOf(w)' <=> t \in UncreditedOf(w)
        /\ t \in UndebitedOf(w)' <=> t \in UndebitedOf(w)
        /\ use'[t].debits = use[t].debits
  BY DEF UncreditedOf, UndebitedOf, Of, Uncredited, Undebited
<1>2. /\ UncreditedOf(w) \subseteq Swaps /\ UncreditedOf(w)' \subseteq Swaps
      /\ UndebitedOf(w) \subseteq Swaps /\ UndebitedOf(w)' \subseteq Swaps
  BY DEF UncreditedOf, UndebitedOf, Of
<1>3. ASSUME s \in UncreditedOf(w)' <=> s \in UncreditedOf(w)
      PROVE  Credits(w)' = Credits(w)
  <2>1. UncreditedOf(w)' = UncreditedOf(w)
    BY <1>1, <1>2, <1>3
  <2> QED
    BY <2>1 DEF Credits, UncreditedOf
<1>4. ASSUME s \in UncreditedOf(w)', s \notin UncreditedOf(w)
      PROVE  Credits(w)' = Credits(w) + Amount
  <2>1. UncreditedOf(w)' = UncreditedOf(w) \cup {s}
    BY <1>1, <1>2, <1>4
  <2> QED
    BY <1>4, <2>1, CreditsGrow
<1>5. ASSUME s \notin UncreditedOf(w)', s \in UncreditedOf(w)
      PROVE  Credits(w) = Credits(w)' + Amount
  <2>1. UncreditedOf(w) = UncreditedOf(w)' \cup {s}
    BY <1>1, <1>2, <1>5
  <2> QED
    BY <1>5, <2>1, CreditsShrink
<1>6. ASSUME UndebitedOf(w)' = UndebitedOf(w), \A t \in UndebitedOf(w) : use'[t].debits = use[t].debits
      PROVE  Charges(w)' = Charges(w)
  <2>1. /\ Charges(w) = Total([t \in UndebitedOf(w) |-> Due(t)])
        /\ Charges(w)' = Total([t \in UndebitedOf(w)' |-> Due(t)'])
    BY DEF Charges, UndebitedOf
  <2>2. [t \in UndebitedOf(w)' |-> Due(t)'] = [t \in UndebitedOf(w) |-> Due(t)]
    BY <1>6 DEF Due
  <2> QED
    BY <2>1, <2>2
<1>7. s \notin UndebitedOf(w)' /\ s \notin UndebitedOf(w) => Charges(w)' = Charges(w)
  BY <1>1, <1>2, <1>6
<1>8. ASSUME use'[s].debits = use[s].debits
      PROVE  /\ (s \in UndebitedOf(w)' <=> s \in UndebitedOf(w)) => Charges(w)' = Charges(w)
             /\ s \in UndebitedOf(w)' /\ s \notin UndebitedOf(w) /\ Due(s) \in Nat
                  => Charges(w)' = Charges(w) + Due(s)
             /\ s \notin UndebitedOf(w)' /\ s \in UndebitedOf(w) /\ Due(s) \in Nat
                  => Charges(w) = Charges(w)' + Due(s)
  <2>1. \A t \in Swaps : use'[t].debits = use[t].debits
    BY <1>1, <1>8
  <2>2. ASSUME s \in UndebitedOf(w)' <=> s \in UndebitedOf(w)
        PROVE  Charges(w)' = Charges(w)
    <3>1. UndebitedOf(w)' = UndebitedOf(w)
      BY <1>1, <1>2, <2>2
    <3> QED
      BY <1>2, <1>6, <2>1, <3>1
  <2>3. ASSUME s \in UndebitedOf(w)', s \notin UndebitedOf(w), Due(s) \in Nat
        PROVE  Charges(w)' = Charges(w) + Due(s)
    <3>1. UndebitedOf(w)' = UndebitedOf(w) \cup {s}
      BY <1>1, <1>2, <2>3
    <3>2. \A t \in UndebitedOf(w)' : use'[t].debits = use[t].debits
      BY <1>2, <2>1
    <3> QED
      BY <2>3, <3>1, <3>2, ChargesGrow
  <2>4. ASSUME s \notin UndebitedOf(w)', s \in UndebitedOf(w), Due(s) \in Nat
        PROVE  Charges(w) = Charges(w)' + Due(s)
    <3>1. UndebitedOf(w) = UndebitedOf(w)' \cup {s}
      BY <1>1, <1>2, <2>4
    <3>2. \A t \in UndebitedOf(w)' : use'[t].debits = use[t].debits
      BY <1>2, <2>1
    <3> QED
      BY <2>4, <3>1, <3>2, ChargesShrink
  <2> QED
    BY <2>2, <2>3, <2>4
<1> QED
  BY <1>3, <1>4, <1>5, <1>7, <1>8

-----------------------------------------------------------------------------
(* What a step does to what others hold.                                     *)

Holdings == [wallet : Wallets \cup {NoWallet}, balance : Balances, stale : BOOLEAN]

\* b holds what it held, and may have been overtaken.
Ages(b) ==
  /\ held'[b].wallet = held[b].wallet
  /\ held'[b].balance = held[b].balance
  /\ held[b].stale => held'[b].stale
  /\ held[b] = NotHeld => held'[b] = NotHeld

\* Nobody holds less than NotHeld.
LEMMA NotHeldTyped == NotHeld \in Holdings
  BY DEF NotHeld, Holdings, Balances

\* A holding grows stale, unless it is none.
LEMMA StaleHolding ==
  ASSUME NEW h \in Holdings, NEW cause \in BOOLEAN, h = NotHeld => ~cause
  PROVE  LET aged == [h EXCEPT !.stale = @ \/ cause]
         IN  /\ aged \in Holdings
             /\ aged.wallet = h.wallet /\ aged.balance = h.balance
             /\ h.stale => aged.stale
             /\ cause => aged.stale
             /\ h = NotHeld => aged = NotHeld
<1> DEFINE aged == [h EXCEPT !.stale = @ \/ cause]
<1>1. h \in [wallet : Wallets \cup {NoWallet}, balance : Balances, stale : BOOLEAN]
  BY DEF Holdings
<1>2. aged = [wallet |-> h.wallet, balance |-> h.balance, stale |-> h.stale \/ cause]
  BY <1>1
<1>3. h = [wallet |-> h.wallet, balance |-> h.balance, stale |-> h.stale]
  BY <1>1
<1>4. ASSUME h = NotHeld
      PROVE  aged = NotHeld
  <2>1. h.wallet = NoWallet /\ h.balance = 0 /\ h.stale = FALSE
    BY <1>4 DEF NotHeld
  <2>2. (h.stale \/ cause) = FALSE
    BY <1>4, <2>1
  <2> QED
    BY <1>2, <2>1, <2>2 DEF NotHeld
<1>5. aged \in Holdings
  BY <1>1, <1>2 DEF Holdings
<1> QED
  BY <1>2, <1>4, <1>5

\* a reads, and nobody else notices.
LEMMA ReadsEffect ==
  ASSUME TypeOK, NEW a \in Actors, NEW w \in Wallets, NEW balance \in Balances,
         NEW stale \in BOOLEAN, Reads(a, w, balance, stale)
  PROVE  /\ held' \in [Actors -> Holdings]
         /\ held'[a] = [wallet |-> w, balance |-> balance, stale |-> stale]
         /\ \A b \in Actors \ {a} : held'[b] = held[b] /\ Ages(b)
<1>1. held \in [Actors -> Holdings]
  BY DEF TypeOK, Holdings
<1> DEFINE h == [wallet |-> w, balance |-> balance, stale |-> stale]
<1>2. h \in Holdings
  BY DEF Holdings
<1>3. held' = [held EXCEPT ![a] = h]
  BY DEF Reads
<1>4. h = [wallet |-> w, balance |-> balance, stale |-> stale]
  OBVIOUS
<1> HIDE DEF h
<1>5. /\ held' \in [Actors -> Holdings]
      /\ held'[a] = h
      /\ \A b \in Actors \ {a} : held'[b] = held[b]
  BY <1>1, <1>2, <1>3
<1> QED
  BY <1>4, <1>5 DEF Ages

\* a drops what it held, and nobody else notices.
LEMMA DropsEffect ==
  ASSUME TypeOK, NEW a \in Actors, Drops(a)
  PROVE  /\ held' \in [Actors -> Holdings]
         /\ held'[a] = NotHeld
         /\ \A b \in Actors \ {a} : held'[b] = held[b] /\ Ages(b)
<1>1. held \in [Actors -> Holdings]
  BY DEF TypeOK, Holdings
<1> QED
  BY <1>1, NotHeldTyped DEF Drops, Ages

\* A write overtakes whoever holds the row.
LEMMA WritesEffect ==
  ASSUME TypeOK, NEW a, NEW w \in Wallets, NEW columns, Writes(a, w, columns)
  PROVE  /\ held' \in [Actors -> Holdings]
         /\ a \in Actors => held'[a] = NotHeld
         /\ \A b \in Actors \ {a} :
              Ages(b) /\ (held[b].wallet = w => held'[b].stale)
<1>1. held \in [Actors -> Holdings]
  BY DEF TypeOK, Holdings
<1>2. ASSUME NEW b \in Actors, b # a
      PROVE  /\ held'[b] \in Holdings
             /\ Ages(b) /\ (held[b].wallet = w => held'[b].stale)
  <2> DEFINE cause == held[b].wallet = w
  <2>1. held'[b] = [held[b] EXCEPT !.stale = @ \/ cause]
    BY <1>2 DEF Writes
  <2>2. cause \in BOOLEAN /\ (held[b] = NotHeld => ~cause)
    BY ActorAssumption DEF NotHeld
  <2>3. held[b] \in Holdings
    BY <1>1
  <2>4. cause <=> held[b].wallet = w
    OBVIOUS
  <2> HIDE DEF cause
  <2> QED
    BY <2>1, <2>2, <2>3, <2>4, StaleHolding DEF Ages
<1>3. /\ DOMAIN held' = Actors /\ held' = [b \in Actors |-> held'[b]]
      /\ a \in Actors => held'[a] = NotHeld
  BY DEF Writes
<1>4. held' \in [Actors -> Holdings]
  BY <1>2, <1>3, NotHeldTyped
<1> QED
  BY <1>2, <1>3, <1>4

\* Tokens that move aside overtake whoever has read them off the chain.
LEMMA MovesAsideEffect ==
  ASSUME TypeOK, NEW a, NEW moved, moved \subseteq Wallets, MovesAside(a, moved)
  PROVE  /\ held' \in [Actors -> Holdings]
         /\ a \in Actors => held'[a] = NotHeld
         /\ \A b \in Actors \ {a} :
              /\ Ages(b)
              /\ b \notin Swaps /\ held[b].wallet \in moved => held'[b].stale
         /\ apart' = apart \cup moved
<1>1. held \in [Actors -> Holdings]
  BY DEF TypeOK, Holdings
<1>2. ASSUME NEW b \in Actors, b # a
      PROVE  /\ held'[b] \in Holdings
             /\ Ages(b) /\ (b \notin Swaps /\ held[b].wallet \in moved => held'[b].stale)
  <2> DEFINE cause == b \notin Swaps /\ held[b].wallet \in moved
  <2>1. held'[b] = [held[b] EXCEPT !.stale = @ \/ cause]
    BY <1>2 DEF MovesAside
  <2>2. cause \in BOOLEAN /\ (held[b] = NotHeld => ~cause)
    BY ActorAssumption DEF NotHeld
  <2>3. held[b] \in Holdings
    BY <1>1
  <2>4. cause <=> b \notin Swaps /\ held[b].wallet \in moved
    OBVIOUS
  <2> HIDE DEF cause
  <2> QED
    BY <2>1, <2>2, <2>3, <2>4, StaleHolding DEF Ages
<1>3. /\ DOMAIN held' = Actors /\ held' = [b \in Actors |-> held'[b]]
      /\ a \in Actors => held'[a] = NotHeld
  BY DEF MovesAside
<1>4. held' \in [Actors -> Holdings]
  BY <1>2, <1>3, NotHeldTyped
<1> QED
  BY <1>2, <1>3, <1>4 DEF MovesAside

-----------------------------------------------------------------------------
(* Whose row is whose: what a step leaves alone.                             *)

Uses == [stage : Stages, wallet : Wallets \cup {NoWallet}, paid : BOOLEAN,
         debits : Seq(Nat), tries : Nat]

\* No row is removed.
RowsStay ==
  /\ TableOK'
  /\ \A v \in Wallets : /\ wallet[v] # NoRow => wallet'[v] # NoRow
                        /\ Exists(v) => Exists(v)'

LEMMA UnchangedRowsStay ==
  ASSUME TypeOK, UNCHANGED wallet
  PROVE  RowsStay
  BY DEF TypeOK, RowsStay, TableOK, Exists

\* The row of a swap that does nothing.
LEMMA RowInvStays ==
  ASSUME NEW t \in Swaps, RowInv(t), use'[t] = use[t], blockchain' = blockchain, RowsStay
  PROVE  RowInv(t)'
<1>1. CASE At(t, "none")
  BY <1>1 DEF RowInv, At, Requested
<1>2. CASE ~At(t, "none")
  <2>1. use[t].wallet \in Wallets
    BY <1>2 DEF RowInv
  <2> QED
    BY <2>1 DEF RowInv, RowsStay, At
<1> QED
  BY <1>1, <1>2

\* What an observer holds, when it does nothing.
LEMMA ReaderInvStays ==
  ASSUME NEW a, ReaderInv(a), Ages(a) \/ held'[a] = NotHeld
  PROVE  ReaderInv(a)'
  BY DEF ReaderInv, Ages

LEMMA RunInvStays ==
  ASSUME TypeOK, NEW r \in Runs, ReaderInv(r), RunInv(r), Ages(r) \/ held'[r] = NotHeld,
         sync'[r] \subseteq sync[r], RowsStay
  PROVE  RunInv(r)'
<1>1. sync[r] \subseteq Wallets
  BY DEF TypeOK
<1>2. \A w \in sync'[r] : wallet'[w] # NoRow
  BY <1>1 DEF RunInv, RowsStay
<1>3. held'[r] = NotHeld \/ wallet'[held'[r].wallet] # NoRow
  BY DEF Ages, RunInv, ReaderInv, RowsStay
<1> QED
  BY <1>2, <1>3 DEF RunInv

\* A step of one swap.
LEMMA SwapStepTable ==
  ASSUME TableInv, NEW s \in Swaps, RowsStay,
         blockchain' = blockchain, sync' = sync, chain' \in [Wallets -> Nat],
         apart' \subseteq Wallets, events' = events, held' \in [Actors -> Holdings],
         use' \in [Swaps -> Uses], \A t \in Swaps \ {s} : use'[t] = use[t],
         \A b \in Actors \ {s} : Ages(b),
         RowInv(s)', HolderInv(s)'
  PROVE  TableInv'
<1>1. TypeOK'
  BY DEF TableInv, TypeOK, RowsStay, Holdings, Uses
<1>2. ASSUME NEW t \in Swaps
      PROVE  RowInv(t)' /\ HolderInv(t)'
  <2>1. CASE t = s
    BY <2>1
  <2>2. CASE t # s
    <3>1. use'[t] = use[t] /\ Ages(t) /\ RowInv(t) /\ HolderInv(t)
      BY <2>2 DEF TableInv, Actors
    <3> QED
      BY <3>1, RowInvStays DEF HolderInv, Ages
  <2> QED
    BY <2>1, <2>2
<1>3. ASSUME NEW a \in Observers
      PROVE  ReaderInv(a)'
  <2>1. Ages(a)
    BY ActorAssumption DEF Observers, Actors
  <2> QED
    BY <2>1, ReaderInvStays DEF TableInv
<1>4. ASSUME NEW r \in Runs
      PROVE  RunInv(r)'
  <2>1. Ages(r) /\ ReaderInv(r) /\ RunInv(r)
    BY ActorAssumption DEF Observers, Actors, TableInv
  <2> QED
    BY <2>1, RunInvStays DEF TableInv
<1> QED
  BY <1>1, <1>2, <1>3, <1>4 DEF TableInv

\* A step of anybody else.
LEMMA ObserverStepTable ==
  ASSUME TableInv, RowsStay,
         UNCHANGED <<blockchain, use>>, chain' \in [Wallets -> Nat],
         sync' \in [Runs -> SUBSET Wallets], apart' \subseteq Wallets,
         events' \in 0..MaxEvents, held' \in [Actors -> Holdings],
         \A s \in Swaps : Ages(s),
         \A a \in Observers : ReaderInv(a)', \A r \in Runs : RunInv(r)'
  PROVE  TableInv'
<1>1. TypeOK'
  BY DEF TableInv, TypeOK, RowsStay, Holdings
<1>2. ASSUME NEW t \in Swaps
      PROVE  RowInv(t)' /\ HolderInv(t)'
  <2>1. use'[t] = use[t] /\ Ages(t) /\ RowInv(t) /\ HolderInv(t)
    BY DEF TableInv
  <2> QED
    BY <2>1, RowInvStays DEF HolderInv, Ages
<1> QED
  BY <1>1, <1>2 DEF TableInv

-----------------------------------------------------------------------------
(* What balances should be: what a step leaves alone.                        *)

\* What the row of w should say stays.
Kept(w) ==
  chain'[w] + Charges(w)' + Credits(w) = chain[w] + Charges(w) + Credits(w)'

\* What it says stays.
BalanceStays(w) == Exists(w)' => Exists(w) /\ wallet'[w].balance = wallet[w].balance

\* The sums are numbers before and after a step.
LEMMA SumsTyped ==
  ASSUME TableInv, TableInv', NEW w \in Wallets
  PROVE  /\ chain[w] \in Nat /\ Credits(w) \in Nat /\ Charges(w) \in Nat
         /\ chain'[w] \in Nat /\ Credits(w)' \in Nat /\ Charges(w)' \in Nat
<1>1. chain[w] \in Nat /\ Credits(w) \in Nat /\ Charges(w) \in Nat
  BY FlowTyped DEF TableInv, TypeOK
<1>2. /\ TypeOK' /\ \A s \in Swaps : RowInv(s)'
      /\ chain'[w] \in Nat
  BY DEF TableInv, TypeOK
<1>3. TypeOK /\ (\A s \in Swaps : RowInv(s)) => Credits(w) \in Nat /\ Charges(w) \in Nat
  BY FlowTyped
<1>4. ASSUME TypeOK', \A s \in Swaps : RowInv(s)'
      PROVE  Credits(w)' \in Nat /\ Charges(w)' \in Nat
  <2>1. UncreditedOf(w)' \subseteq Swaps /\ UndebitedOf(w)' \subseteq Swaps
    BY DEF UncreditedOf, UndebitedOf, Of
  <2>2. IsFiniteSet(UncreditedOf(w)') /\ IsFiniteSet(UndebitedOf(w)')
    BY <2>1, ActorAssumption, FS_Subset
  <2>3. \A s \in UndebitedOf(w)' : Due(s)' \in Nat
    <3>1. \A s \in UndebitedOf(w)' : use'[s].debits \in Seq(Nat) /\ use'[s].debits # <<>>
      BY <1>4 DEF TypeOK, RowInv, UndebitedOf, Of, Undebited
    <3> QED
      BY <3>1 DEF Due
  <2>4. /\ [s \in UncreditedOf(w)' |-> Amount] \in [UncreditedOf(w)' -> Nat]
        /\ [s \in UndebitedOf(w)' |-> Due(s)'] \in [UndebitedOf(w)' -> Nat]
    BY <2>3, AmountAssumption
  <2>5. /\ Credits(w)' = Total([s \in UncreditedOf(w)' |-> Amount])
        /\ Charges(w)' = Total([s \in UndebitedOf(w)' |-> Due(s)'])
    BY DEF Credits, Charges, UncreditedOf, UndebitedOf
  <2> QED
    BY <2>2, <2>4, <2>5, TotalIsNat
<1> QED
  BY <1>1, <1>2, <1>4

\* A step that touches the wallets of W and no others.
LEMMA BalanceStep ==
  ASSUME TableInv, BalanceInv, TableInv', NEW W,
         \A w \in Wallets \ W : BalanceStays(w) /\ Kept(w) /\ (w \in apart => w \in apart'),
         \A w \in W \cap Wallets : Exact(w)',
         \A t \in Swaps :
           \/ HoldInv(t)'
           \/ /\ use'[t] = use[t] /\ Ages(t)
              /\ \A w \in Wallets : use[t].wallet = w => BalanceStays(w) \/ held'[t].stale,
         \A a \in Observers :
           \/ SeenInv(a)'
           \/ /\ Ages(a)
              /\ \A w \in Wallets : held[a].wallet = w => Kept(w) \/ held'[a].stale
  PROVE  BalanceInv'
<1>1. ASSUME NEW w \in Wallets
      PROVE  Exact(w)'
  <2>1. CASE w \in W
    BY <2>1
  <2>2. CASE w \notin W
    <3> SUFFICES ASSUME Exists(w)', w \notin apart'
                 PROVE  /\ wallet'[w].balance \in Nat
                        /\ wallet'[w].balance + Credits(w)' = chain'[w] + Charges(w)'
      BY DEF Exact
    <3>1. Exists(w) /\ wallet'[w].balance = wallet[w].balance /\ w \notin apart /\ Kept(w)
      BY <2>2 DEF BalanceStays
    <3>2. /\ wallet[w].balance \in Nat
          /\ wallet[w].balance + Credits(w) = chain[w] + Charges(w)
      BY <3>1 DEF BalanceInv, Exact
    <3> QED
      BY <3>1, <3>2, SumsTyped DEF Kept
  <2> QED
    BY <2>1, <2>2
<1>2. ASSUME NEW t \in Swaps
      PROVE  HoldInv(t)'
  <2>1. CASE /\ use'[t] = use[t] /\ Ages(t)
             /\ \A w \in Wallets : use[t].wallet = w => BalanceStays(w) \/ held'[t].stale
    <3> SUFFICES ASSUME use[t].stage \in Holding, ~held'[t].stale
                 PROVE  held'[t].balance = wallet'[use[t].wallet].balance
      BY <2>1 DEF HoldInv
    <3>1. PICK w \in Wallets : use[t].wallet = w
      BY DEF TableInv, RowInv, At, Holding
    <3>2. held[t].balance = wallet[w].balance
      BY <2>1, <3>1 DEF BalanceInv, HoldInv, Ages
    <3>3. Exists(w)'
      BY <2>1, <3>1 DEF TableInv, RowInv, Holding, Requested
    <3> QED
      BY <2>1, <3>1, <3>2, <3>3 DEF BalanceStays, Ages
  <2> QED
    BY <2>1
<1>3. ASSUME NEW a \in Observers
      PROVE  SeenInv(a)'
  <2>1. CASE /\ Ages(a)
             /\ \A w \in Wallets : held[a].wallet = w => Kept(w) \/ held'[a].stale
    <3>1. CASE held'[a] = NotHeld \/ held'[a].stale
      BY <3>1 DEF SeenInv
    <3>2. CASE held'[a] # NotHeld /\ ~held'[a].stale
      <4>1. held[a] # NotHeld /\ ~held[a].stale
        BY <2>1, <3>2 DEF Ages
      <4>2. PICK w \in Wallets : held[a].wallet = w
        BY <4>1 DEF TableInv, ReaderInv
      <4>3. /\ held[a].balance \in Nat
            /\ held[a].balance + Credits(w) = chain[w] + Charges(w)
            /\ Kept(w)
        BY <2>1, <3>2, <4>1, <4>2 DEF TableInv, ReaderInv, BalanceInv, SeenInv
      <4>4. /\ chain[w] \in Nat /\ Credits(w) \in Nat /\ Charges(w) \in Nat
            /\ chain'[w] \in Nat /\ Credits(w)' \in Nat /\ Charges(w)' \in Nat
        BY SumsTyped
      <4>5. held[a].balance + Credits(w)' = chain'[w] + Charges(w)'
        BY <4>3, <4>4 DEF Kept
      <4>6. held'[a].wallet = w /\ held'[a].balance = held[a].balance
        BY <2>1, <4>2 DEF Ages
      <4> QED
        BY <4>5, <4>6 DEF SeenInv
    <3> QED
      BY <3>1, <3>2
  <2> QED
    BY <2>1
<1> QED
  BY <1>1, <1>2, <1>3 DEF BalanceInv

\* A swap that has nothing under way at w leaves what its row should say.
LEMMA NoFlowKept ==
  ASSUME TableInv, TableInv', NEW s \in Swaps, NEW w \in Wallets,
         \A t \in Swaps \ {s} : use'[t] = use[t],
         s \notin UncreditedOf(w) /\ s \notin UncreditedOf(w)',
         s \notin UndebitedOf(w) /\ s \notin UndebitedOf(w)',
         chain'[w] = chain[w]
  PROVE  Kept(w)
<1>1. Credits(w)' = Credits(w) /\ Charges(w)' = Charges(w)
  BY SwapFlow DEF TableInv
<1> QED
  BY <1>1, SumsTyped DEF Kept

\* A step of s, which touches its own wallet at most.
LEMMA SwapStepBalance ==
  ASSUME TableInv, BalanceInv, TableInv', NEW s \in Swaps, NEW w0,
         use'[s].wallet = use[s].wallet, w0 = use[s].wallet,
         \A t \in Swaps \ {s} : use'[t] = use[t],
         \A b \in Actors \ {s} : Ages(b),
         \A w \in Wallets \ {w0} :
           BalanceStays(w) /\ chain'[w] = chain[w] /\ (w \in apart => w \in apart'),
         HoldInv(s)',
         w0 \in Wallets => Exact(w0)',
         BalanceStays(w0) \/ \A t \in Swaps \ {s} : held[t].wallet = w0 => held'[t].stale,
         Kept(w0) \/ \A a \in Observers : held[a].wallet = w0 => held'[a].stale
  PROVE  BalanceInv'
<1>1. ASSUME NEW w \in Wallets \ {w0}
      PROVE  BalanceStays(w) /\ Kept(w) /\ (w \in apart => w \in apart')
  <2>1. /\ s \notin UncreditedOf(w) /\ s \notin UncreditedOf(w)'
        /\ s \notin UndebitedOf(w) /\ s \notin UndebitedOf(w)'
    BY DEF UncreditedOf, UndebitedOf, Of
  <2> QED
    BY <2>1, NoFlowKept
<1>2. ASSUME NEW t \in Swaps
      PROVE  \/ HoldInv(t)'
             \/ /\ use'[t] = use[t] /\ Ages(t)
                /\ \A w \in Wallets : use[t].wallet = w => BalanceStays(w) \/ held'[t].stale
  <2>1. CASE t = s
    BY <2>1
  <2>2. CASE t # s
    <3>1. use'[t] = use[t] /\ Ages(t)
      BY <2>2 DEF Actors
    <3>2. CASE use[t].stage \notin Holding
      BY <3>1, <3>2 DEF HoldInv
    <3>3. CASE use[t].stage \in Holding
      <4>1. held[t].wallet = use[t].wallet /\ use[t].wallet \in Wallets
        BY <3>3 DEF TableInv, HolderInv, RowInv, At, Holding
      <4> QED
        BY <2>2, <3>1, <4>1
    <3> QED
      BY <3>2, <3>3
  <2> QED
    BY <2>1, <2>2
<1>3. ASSUME NEW a \in Observers
      PROVE  \/ SeenInv(a)'
             \/ /\ Ages(a)
                /\ \A w \in Wallets : held[a].wallet = w => Kept(w) \/ held'[a].stale
  <2>1. Ages(a)
    BY ActorAssumption DEF Observers, Actors
  <2>2. CASE held[a] = NotHeld
    BY <2>1, <2>2 DEF Ages, SeenInv
  <2>3. CASE held[a] # NotHeld
    <3>1. held[a].wallet \in Wallets
      BY <2>3 DEF TableInv, ReaderInv
    <3> QED
      BY <1>1, <2>1, <3>1
  <2> QED
    BY <2>2, <2>3
<1> DEFINE W == {w0}
<1>4. \A w \in Wallets \ W : BalanceStays(w) /\ Kept(w) /\ (w \in apart => w \in apart')
  BY <1>1
<1>5. \A w \in W \cap Wallets : Exact(w)'
  OBVIOUS
<1> HIDE DEF W
<1> QED
  BY <1>2, <1>3, <1>4, <1>5, BalanceStep

-----------------------------------------------------------------------------
(* The steps of a swap.                                                      *)

\* A step that only changes the stage of s.
LEMMA StageStep ==
  ASSUME TypeOK, NEW s \in Swaps, NEW stage \in Stages, Stage(s, stage)
  PROVE  /\ use' \in [Swaps -> Uses]
         /\ \A t \in Swaps \ {s} : use'[t] = use[t]
         /\ use'[s].stage = stage
         /\ use'[s].wallet = use[s].wallet
         /\ use'[s].paid = use[s].paid
         /\ use'[s].debits = use[s].debits
         /\ use'[s].tries = use[s].tries
<1>1. use \in [Swaps -> Uses]
  BY DEF TypeOK, Uses
<1> QED
  BY <1>1 DEF Stage, Uses

\* A step that leaves the table, the chain and the wallets that were overtaken alone.
LEMMA QuietStep ==
  ASSUME IInv, NEW s \in Swaps, RowsStay, \A w \in Wallets : BalanceStays(w),
         UNCHANGED <<blockchain, chain, sync, apart, events>>,
         held' \in [Actors -> Holdings], \A b \in Actors \ {s} : Ages(b),
         use' \in [Swaps -> Uses], \A t \in Swaps \ {s} : use'[t] = use[t],
         \A w \in Wallets :
           /\ s \in UncreditedOf(w)' <=> s \in UncreditedOf(w)
           /\ s \in UndebitedOf(w)' <=> s \in UndebitedOf(w),
         Undebited(s) => use'[s].debits = use[s].debits,
         RowInv(s)', HolderInv(s)', HoldInv(s)'
  PROVE  IInv'
<1>1. TableInv'
  <2>1. chain' \in [Wallets -> Nat] /\ apart' \subseteq Wallets
    BY DEF IInv, TableInv, TypeOK
  <2> QED
    BY <2>1, SwapStepTable DEF IInv
<1>2. ASSUME NEW w \in Wallets
      PROVE  Kept(w)
  <2>1. Credits(w)' = Credits(w)
    BY SwapFlow DEF IInv, TableInv
  <2>2. Charges(w)' = Charges(w)
    <3>1. CASE Undebited(s)
      BY <3>1, SwapFlow DEF IInv, TableInv
    <3>2. CASE ~Undebited(s)
      <4>1. s \notin UndebitedOf(w)
        BY <3>2 DEF UndebitedOf
      <4> QED
        BY <4>1, SwapFlow DEF IInv, TableInv
    <3> QED
      BY <3>1, <3>2
  <2> QED
    BY <1>1, <2>1, <2>2, SumsTyped DEF Kept, IInv
<1>3. ASSUME NEW t \in Swaps
      PROVE  HoldInv(t)' \/ (use'[t] = use[t] /\ Ages(t))
  BY DEF Actors
<1>4. ASSUME NEW a \in Observers
      PROVE  Ages(a)
  BY ActorAssumption DEF Observers, Actors
<1>5. BalanceInv'
  <2> DEFINE W == {}
  <2>1. /\ \A w \in Wallets \ W :
             BalanceStays(w) /\ Kept(w) /\ (w \in apart => w \in apart')
        /\ \A w \in W \cap Wallets : Exact(w)'
    BY <1>2
  <2> HIDE DEF W
  <2> QED
    BY <1>1, <1>2, <1>3, <1>4, <2>1, BalanceStep DEF IInv
<1> QED
  BY <1>1, <1>5 DEF IInv

LEMMA UnchangedTable ==
  ASSUME TypeOK, UNCHANGED wallet
  PROVE  RowsStay /\ \A w \in Wallets : BalanceStays(w)
  BY UnchangedRowsStay DEF BalanceStays, Exists

LEMMA UnchangedHoldings ==
  ASSUME TypeOK, UNCHANGED held
  PROVE  held' \in [Actors -> Holdings] /\ \A b \in Actors : Ages(b)
  BY DEF TypeOK, Holdings, Ages

\* The wallet of a swap that has one has a row, with a balance.
LEMMA WalletOfSwap ==
  ASSUME IInv, NEW s \in Swaps, use[s].stage \notin Requested
  PROVE  /\ use[s].wallet \in Wallets /\ Exists(use[s].wallet)
         /\ wallet[use[s].wallet] \in Row
         /\ wallet[use[s].wallet].balance \in Balances
<1>1. use[s].wallet \in Wallets /\ Exists(use[s].wallet)
  BY DEF IInv, TableInv, RowInv, At, Requested
<1>2. wallet[use[s].wallet] \in Row
  BY <1>1, RowsExist DEF IInv, TableInv, TypeOK
<1> QED
  BY <1>1, <1>2 DEF Row

LEMMA PickWalletInv ==
  ASSUME IInv, NEW s \in Swaps, PickWallet(s)
  PROVE  IInv'
<1>1. TypeOK /\ RowInv(s) /\ use \in [Swaps -> Uses]
  BY DEF IInv, TableInv, TypeOK, Uses
<1>2. PICK w0 \in BestMatched(blockchain, [type |-> "transferer", inUse |-> FALSE]) :
        use' = [use EXCEPT ![s].stage = "picked", ![s].wallet = w0]
  BY DEF PickWallet
<1>3. w0 \in Wallets /\ Exists(w0)
  BY DEF BestMatched, FindAll
<1>4. /\ use' \in [Swaps -> Uses] /\ \A t \in Swaps \ {s} : use'[t] = use[t]
      /\ use'[s].stage = "picked" /\ use'[s].wallet = w0 /\ use'[s].paid = use[s].paid
      /\ use'[s].debits = use[s].debits
  BY <1>1, <1>2, <1>3 DEF Uses, Stages
<1>5. use[s].stage = "none"
  BY DEF PickWallet, At
<1>6. UNCHANGED <<blockchain, wallet, chain, sync, held, apart, events>>
  BY DEF PickWallet
<1>7. /\ RowsStay /\ \A w \in Wallets : BalanceStays(w)
      /\ held' \in [Actors -> Holdings] /\ \A b \in Actors : Ages(b)
  BY <1>1, <1>6, UnchangedTable, UnchangedHoldings
<1>8. wallet[w0] # NoRow
  BY <1>1, <1>3, RowsExist DEF TypeOK
<1>9. RowInv(s)' /\ HolderInv(s)' /\ HoldInv(s)'
  BY <1>1, <1>3, <1>4, <1>5, <1>6, <1>8
     DEF RowInv, HolderInv, HoldInv, Holding, Requested, At, Exists
<1>10. ~Undebited(s) /\ ~Uncredited(s) /\ ~Undebited(s)' /\ ~Uncredited(s)'
  BY <1>4, <1>5 DEF Undebited, Uncredited
<1>11. \A w \in Wallets :
         /\ s \in UncreditedOf(w)' <=> s \in UncreditedOf(w)
         /\ s \in UndebitedOf(w)' <=> s \in UndebitedOf(w)
  BY <1>10 DEF UncreditedOf, UndebitedOf
<1> QED
  BY <1>4, <1>6, <1>7, <1>9, <1>10, <1>11, QuietStep

\* A wallet is marked, or released, and the balance of its row is left alone.
LEMMA MarkEffect ==
  ASSUME TypeOK, NEW w, NEW value \in BOOLEAN, Update(w, [inUse |-> value])
  PROVE  RowsStay /\ \A v \in Wallets : BalanceStays(v)
<1>1. CASE w \in Wallets
  <2> DEFINE columns == [inUse |-> value]
  <2>1. \A c \in DOMAIN columns \cap Columns : columns[c] \in Entries(c)
    BY DEF Entries, Columns
  <2>2. "balance" \notin DOMAIN columns /\ Update(w, columns)
    OBVIOUS
  <2> HIDE DEF columns
  <2>3. /\ TableOK'
        /\ \A v \in Wallets :
             /\ v # w => wallet'[v] = wallet[v]
             /\ Exists(v)' <=> Exists(v)
             /\ wallet'[v] = NoRow <=> wallet[v] = NoRow
        /\ Exists(w) => wallet'[w].balance = wallet[w].balance
    BY <1>1, <2>1, <2>2, UpdateEffect DEF TypeOK
  <2> QED
    BY <2>3 DEF RowsStay, BalanceStays
<1>2. CASE w \notin Wallets
  <2>1. wallet' = wallet
    BY <1>2 DEF Update, TypeOK, TableOK
  <2> QED
    BY <2>1, UnchangedTable
<1> QED
  BY <1>1, <1>2

LEMMA MarkWalletInv ==
  ASSUME IInv, NEW s \in Swaps, MarkWallet(s)
  PROVE  IInv'
<1>1. TypeOK /\ RowInv(s)
  BY DEF IInv, TableInv
<1>2. UNCHANGED <<blockchain, chain, sync, held, apart, events>>
  BY DEF MarkWallet
<1>3. use[s].stage = "picked"
  BY DEF MarkWallet, At
<1>4. /\ use' \in [Swaps -> Uses] /\ \A t \in Swaps \ {s} : use'[t] = use[t]
      /\ use'[s].stage = "marked" /\ use'[s].wallet = use[s].wallet
      /\ use'[s].paid = use[s].paid /\ use'[s].debits = use[s].debits
  BY <1>1, StageStep DEF MarkWallet, Stages
<1>5. RowsStay /\ \A w \in Wallets : BalanceStays(w)
  BY <1>1, MarkEffect DEF MarkWallet
<1>6. held' \in [Actors -> Holdings] /\ \A b \in Actors : Ages(b)
  BY <1>1, <1>2, UnchangedHoldings
<1>7. RowInv(s)' /\ HolderInv(s)' /\ HoldInv(s)'
  BY <1>1, <1>2, <1>3, <1>4, <1>5
     DEF RowInv, HolderInv, HoldInv, Holding, Requested, At, RowsStay
<1>8. ~Undebited(s) /\ ~Uncredited(s) /\ ~Undebited(s)' /\ ~Uncredited(s)'
  BY <1>3, <1>4 DEF Undebited, Uncredited
<1>9. \A w \in Wallets :
        /\ s \in UncreditedOf(w)' <=> s \in UncreditedOf(w)
        /\ s \in UndebitedOf(w)' <=> s \in UndebitedOf(w)
  BY <1>8 DEF UncreditedOf, UndebitedOf
<1> QED
  BY <1>2, <1>4, <1>5, <1>6, <1>7, <1>8, <1>9, QuietStep

LEMMA InsertSwapInv ==
  ASSUME IInv, NEW s \in Swaps, InsertSwap(s)
  PROVE  IInv'
<1>1. TypeOK /\ RowInv(s)
  BY DEF IInv, TableInv
<1>2. UNCHANGED <<blockchain, wallet, chain, sync, held, apart, events>>
  BY DEF InsertSwap
<1>3. use[s].stage = "marked" /\ ~use[s].paid
  BY <1>1 DEF InsertSwap, At, RowInv, Requested
<1> DEFINE stage == IF Exists(use[s].wallet) THEN "waiting" ELSE "refused"
<1>4. /\ use' \in [Swaps -> Uses] /\ \A t \in Swaps \ {s} : use'[t] = use[t]
      /\ use'[s].stage = stage /\ use'[s].wallet = use[s].wallet
      /\ use'[s].paid = use[s].paid /\ use'[s].debits = use[s].debits
  <2>1. stage \in Stages /\ Stage(s, stage)
    BY DEF InsertSwap, Stages
  <2> HIDE DEF stage
  <2> QED
    BY <1>1, <2>1, StageStep
<1>5. RowsStay /\ \A w \in Wallets : BalanceStays(w)
  BY <1>1, <1>2, UnchangedTable
<1>6. held' \in [Actors -> Holdings] /\ \A b \in Actors : Ages(b)
  BY <1>1, <1>2, UnchangedHoldings
<1>7. RowInv(s)' /\ HolderInv(s)' /\ HoldInv(s)'
  BY <1>1, <1>2, <1>3, <1>4
     DEF RowInv, HolderInv, HoldInv, Holding, Requested, At, Exists
<1>8. ~Undebited(s) /\ ~Uncredited(s) /\ ~Undebited(s)' /\ ~Uncredited(s)'
  BY <1>3, <1>4 DEF Undebited, Uncredited
<1>9. \A w \in Wallets :
        /\ s \in UncreditedOf(w)' <=> s \in UncreditedOf(w)
        /\ s \in UndebitedOf(w)' <=> s \in UndebitedOf(w)
  BY <1>8 DEF UncreditedOf, UndebitedOf
<1> QED
  BY <1>2, <1>4, <1>5, <1>6, <1>7, <1>8, <1>9, QuietStep

\* A swap that stays credited or not, and debited or not, is counted as before.
LEMMA FlowStays ==
  ASSUME NEW s \in Swaps, use'[s].wallet = use[s].wallet,
         Uncredited(s)' <=> Uncredited(s), Undebited(s)' <=> Undebited(s)
  PROVE  \A w \in Wallets :
           /\ s \in UncreditedOf(w)' <=> s \in UncreditedOf(w)
           /\ s \in UndebitedOf(w)' <=> s \in UndebitedOf(w)
  BY DEF UncreditedOf, UndebitedOf, Of

LEMMA CreditReadInv ==
  ASSUME IInv, NEW s \in Swaps, CreditRead(s)
  PROVE  IInv'
<1>1. TypeOK /\ RowInv(s)
  BY DEF IInv, TableInv
<1>2. UNCHANGED <<blockchain, wallet, chain, sync, apart, events>>
  BY DEF CreditRead
<1>3. use[s].stage = "waiting"
  BY DEF CreditRead, At
<1>4. /\ use' \in [Swaps -> Uses] /\ \A t \in Swaps \ {s} : use'[t] = use[t]
      /\ use'[s].stage = "credit" /\ use'[s].wallet = use[s].wallet
      /\ use'[s].paid = use[s].paid /\ use'[s].debits = use[s].debits
  BY <1>1, StageStep DEF CreditRead, Stages
<1>5. RowsStay /\ \A w \in Wallets : BalanceStays(w)
  BY <1>1, <1>2, UnchangedTable
<1>6. use[s].wallet \in Wallets /\ wallet[use[s].wallet].balance \in Balances
  BY <1>3, WalletOfSwap DEF Requested
<1>7. /\ held' \in [Actors -> Holdings] /\ \A b \in Actors \ {s} : Ages(b)
      /\ held'[s] = [wallet |-> use[s].wallet, balance |-> wallet[use[s].wallet].balance,
                     stale |-> FALSE]
  BY <1>1, <1>6, ReadsEffect DEF CreditRead, Actors
<1>8. RowInv(s)' /\ HolderInv(s)' /\ HoldInv(s)'
  BY <1>1, <1>2, <1>3, <1>4, <1>6, <1>7
     DEF RowInv, HolderInv, HoldInv, Holding, Requested, At, Exists
<1>9. (Uncredited(s)' <=> Uncredited(s)) /\ (Undebited(s)' <=> Undebited(s))
  BY <1>3, <1>4 DEF Undebited, Uncredited
<1> QED
  BY <1>2, <1>4, <1>5, <1>7, <1>8, <1>9, FlowStays, QuietStep

LEMMA CreditMissInv ==
  ASSUME IInv, NEW s \in Swaps, CreditMiss(s)
  PROVE  IInv'
<1>1. TypeOK /\ RowInv(s)
  BY DEF IInv, TableInv
<1>2. UNCHANGED <<blockchain, wallet, chain, sync, apart, events>>
  BY DEF CreditMiss
<1>3. use[s].stage = "credit"
  BY DEF CreditMiss, At
<1>4. /\ use' \in [Swaps -> Uses] /\ \A t \in Swaps \ {s} : use'[t] = use[t]
      /\ use'[s].stage = "waiting" /\ use'[s].wallet = use[s].wallet
      /\ use'[s].paid = use[s].paid /\ use'[s].debits = use[s].debits
  BY <1>1, StageStep DEF CreditMiss, Stages
<1>5. RowsStay /\ \A w \in Wallets : BalanceStays(w)
  BY <1>1, <1>2, UnchangedTable
<1>6. held' \in [Actors -> Holdings] /\ \A b \in Actors \ {s} : Ages(b)
  BY <1>1, DropsEffect DEF CreditMiss, Actors
<1>7. RowInv(s)' /\ HolderInv(s)' /\ HoldInv(s)'
  BY <1>1, <1>2, <1>3, <1>4
     DEF RowInv, HolderInv, HoldInv, Holding, Requested, At, Exists
<1>8. (Uncredited(s)' <=> Uncredited(s)) /\ (Undebited(s)' <=> Undebited(s))
  BY <1>3, <1>4 DEF Undebited, Uncredited
<1> QED
  BY <1>2, <1>4, <1>5, <1>6, <1>7, <1>8, FlowStays, QuietStep

\* What a swap has yet to take away, when it begins and when it goes on.
LEMMA DebitsLeft ==
  ASSUME NEW debits \in Seq(Nat)
  PROVE  /\ Debits \in Seq(Nat) \ {<<>>}
         /\ debits # <<>> =>
              /\ Tail(debits) \in Seq(Nat)
              /\ Len(debits) # 1 => Tail(debits) # <<>>
<1>1. Debits \in Seq(Nat) \ {<<>>}
  BY DebitsAssumption DEF Debits
<1>2. ASSUME debits # <<>>
      PROVE  Tail(debits) \in Seq(Nat) /\ (Len(debits) # 1 => Tail(debits) # <<>>)
  <2>1. Tail(debits) \in Seq(Nat) /\ Len(Tail(debits)) = Len(debits) - 1
    BY <1>2
  <2> DEFINE rest == Tail(debits)
  <2>2. rest \in Seq(Nat) /\ Len(rest) = Len(debits) - 1
    BY <2>1
  <2> HIDE DEF rest
  <2>3. Len(debits) # 1 => Len(rest) # 0
    BY <2>2
  <2>4. Len(debits) # 1 => rest # <<>>
    BY <2>3
  <2> QED
    BY <2>2, <2>4 DEF rest
<1> QED
  BY <1>1, <1>2

LEMMA ReturnInv ==
  ASSUME IInv, NEW s \in Swaps, Return(s)
  PROVE  IInv'
<1>1. TypeOK /\ RowInv(s) /\ use \in [Swaps -> Uses]
  BY DEF IInv, TableInv, TypeOK, Uses
<1>2. UNCHANGED <<blockchain, wallet, chain, sync, held, apart, events>>
  BY DEF Return
<1>3. /\ use' \in [Swaps -> Uses] /\ \A t \in Swaps \ {s} : use'[t] = use[t]
      /\ use'[s].wallet = use[s].wallet /\ use'[s].paid = use[s].paid
      /\ use'[s].stage \in {"debit", "done"}
      /\ use'[s].stage = "debit" => use'[s].debits # <<>>
      /\ use[s].stage \in {"credited", "debited"}
  <2>1. CASE At(s, "credited") /\ use' = [use EXCEPT ![s].stage = "debit", ![s].debits = Debits]
    <3>1. Debits \in Seq(Nat) /\ Debits # <<>>
      BY <1>1, DebitsLeft DEF Uses
    <3> QED
      BY <1>1, <2>1, <3>1 DEF Uses, Stages, At
  <2>2. CASE /\ At(s, "debited")
             /\ use' = [use EXCEPT
                  ![s].debits = Tail(@), ![s].tries = 0,
                  ![s].stage = IF Len(use[s].debits) = 1 THEN "done" ELSE "debit"]
    <3>1. /\ use[s].debits # <<>> /\ use[s].debits \in Seq(Nat)
      BY <1>1, <2>2 DEF RowInv, At, Uses
    <3>2. /\ Tail(use[s].debits) \in Seq(Nat)
          /\ Len(use[s].debits) # 1 => Tail(use[s].debits) # <<>>
      BY <3>1, DebitsLeft
    <3> DEFINE stage == IF Len(use[s].debits) = 1 THEN "done" ELSE "debit"
               rest == Tail(use[s].debits)
    <3>3. use' = [use EXCEPT ![s].debits = rest, ![s].tries = 0, ![s].stage = stage]
      BY <1>1, <2>2
    <3>4. stage \in {"debit", "done"} /\ (stage = "debit" => rest # <<>>) /\ rest \in Seq(Nat)
      BY <3>2
    <3> HIDE DEF stage, rest
    <3> QED
      BY <1>1, <2>2, <3>3, <3>4 DEF Uses, Stages, At
  <2> QED
    BY <2>1, <2>2 DEF Return
<1>4. RowsStay /\ \A w \in Wallets : BalanceStays(w)
  BY <1>1, <1>2, UnchangedTable
<1>5. held' \in [Actors -> Holdings] /\ \A b \in Actors : Ages(b)
  BY <1>1, <1>2, UnchangedHoldings
<1>6. RowInv(s)' /\ HolderInv(s)' /\ HoldInv(s)'
  BY <1>1, <1>2, <1>3
     DEF RowInv, HolderInv, HoldInv, Holding, Requested, At, Exists
<1>7. ~Undebited(s) /\ (Uncredited(s)' <=> Uncredited(s)) /\ (Undebited(s)' <=> Undebited(s))
  BY <1>3 DEF Undebited, Uncredited
<1> QED
  BY <1>2, <1>3, <1>4, <1>5, <1>6, <1>7, FlowStays, QuietStep

LEMMA DebitReadInv ==
  ASSUME IInv, NEW s \in Swaps, DebitRead(s)
  PROVE  IInv'
<1>1. TypeOK /\ RowInv(s)
  BY DEF IInv, TableInv
<1>2. UNCHANGED <<blockchain, wallet, chain, sync, apart, events>>
  BY DEF DebitRead
<1>3. /\ use' \in [Swaps -> Uses] /\ \A t \in Swaps \ {s} : use'[t] = use[t]
      /\ use'[s].wallet = use[s].wallet
      /\ use'[s].paid = use[s].paid /\ use'[s].debits = use[s].debits
      /\ \/ /\ use[s].stage = "debit" /\ use'[s].stage = "send"
            /\ blockchain = "ethereum"
         \/ use[s].stage = "sent" /\ use'[s].stage = "write"
  BY <1>1, StageStep DEF DebitRead, Stages, At
<1>4. RowsStay /\ \A w \in Wallets : BalanceStays(w)
  BY <1>1, <1>2, UnchangedTable
<1>5. use[s].wallet \in Wallets /\ wallet[use[s].wallet].balance \in Balances
  BY <1>3, WalletOfSwap DEF Requested
<1>6. /\ held' \in [Actors -> Holdings] /\ \A b \in Actors \ {s} : Ages(b)
      /\ held'[s] = [wallet |-> use[s].wallet, balance |-> wallet[use[s].wallet].balance,
                     stale |-> FALSE]
  BY <1>1, <1>5, ReadsEffect DEF DebitRead, Actors
<1>7. RowInv(s)' /\ HolderInv(s)' /\ HoldInv(s)'
  BY <1>1, <1>2, <1>3, <1>5, <1>6
     DEF RowInv, HolderInv, HoldInv, Holding, Requested, At, Exists
<1>8. (Uncredited(s)' <=> Uncredited(s)) /\ (Undebited(s)' <=> Undebited(s))
  BY <1>3 DEF Undebited, Uncredited
<1> QED
  BY <1>2, <1>3, <1>4, <1>6, <1>7, <1>8, FlowStays, QuietStep

\* A step of s that moves tokens at its wallet with no job to record it.
LEMMA AsideStep ==
  ASSUME IInv, NEW s \in Swaps, NEW w0 \in Wallets, use[s].wallet = w0,
         RowsStay, \A w \in Wallets : BalanceStays(w),
         UNCHANGED <<blockchain, sync, events>>, MovesAside(s, {w0}),
         chain' \in [Wallets -> Nat], \A w \in Wallets \ {w0} : chain'[w] = chain[w],
         use' \in [Swaps -> Uses], \A t \in Swaps \ {s} : use'[t] = use[t],
         use'[s].wallet = w0, use'[s].stage \notin Holding, RowInv(s)'
  PROVE  IInv'
<1>1. TypeOK /\ apart \subseteq Wallets
  BY DEF IInv, TableInv, TypeOK
<1>2. /\ held' \in [Actors -> Holdings]
      /\ \A b \in Actors \ {s} :
           Ages(b) /\ (b \notin Swaps /\ held[b].wallet = w0 => held'[b].stale)
      /\ apart' = apart \cup {w0}
  BY <1>1, MovesAsideEffect
<1>3. HolderInv(s)' /\ HoldInv(s)'
  BY DEF HolderInv, HoldInv
<1>4. TableInv'
  <2>1. apart' \subseteq Wallets /\ events' = events /\ sync' = sync
    BY <1>1, <1>2
  <2> QED
    BY <1>2, <1>3, <2>1, SwapStepTable DEF IInv
<1>5. Exact(w0)'
  BY <1>2 DEF Exact
<1>6. \A a \in Observers : held[a].wallet = w0 => held'[a].stale
  BY <1>2, ActorAssumption DEF Observers, Actors
<1>7. \A w \in Wallets \ {w0} :
        BalanceStays(w) /\ chain'[w] = chain[w] /\ (w \in apart => w \in apart')
  BY <1>2
<1>8. BalanceInv'
  BY <1>2, <1>3, <1>4, <1>5, <1>6, <1>7, SwapStepBalance DEF IInv
<1> QED
  BY <1>4, <1>8 DEF IInv

\* A step of s that moves tokens at its wallet, which a job will record.
LEMMA MovingStep ==
  ASSUME IInv, NEW s \in Swaps, NEW w0 \in Wallets, use[s].wallet = w0,
         UNCHANGED <<blockchain, wallet, sync, held, apart, events>>,
         chain' \in [Wallets -> Nat], \A w \in Wallets \ {w0} : chain'[w] = chain[w],
         use' \in [Swaps -> Uses], \A t \in Swaps \ {s} : use'[t] = use[t],
         use'[s].wallet = w0, RowInv(s)', HolderInv(s)',
         HoldInv(s)', TableInv' => Kept(w0)
  PROVE  IInv'
<1>1. TypeOK /\ apart \subseteq Wallets
  BY DEF IInv, TableInv, TypeOK
<1>2. RowsStay /\ \A w \in Wallets : BalanceStays(w)
  BY <1>1, UnchangedTable
<1>3. held' \in [Actors -> Holdings] /\ \A b \in Actors : Ages(b)
  BY <1>1, UnchangedHoldings
<1>4. TableInv'
  BY <1>1, <1>2, <1>3, SwapStepTable DEF IInv
<1>5. Exact(w0)'
  <2> SUFFICES ASSUME Exists(w0)', w0 \notin apart'
               PROVE  /\ wallet'[w0].balance \in Nat
                      /\ wallet'[w0].balance + Credits(w0)' = chain'[w0] + Charges(w0)'
    BY DEF Exact
  <2>1. /\ wallet[w0].balance \in Nat
        /\ wallet[w0].balance + Credits(w0) = chain[w0] + Charges(w0)
    BY <1>2 DEF IInv, BalanceInv, Exact, BalanceStays
  <2> QED
    BY <1>4, <2>1, SumsTyped DEF Kept, IInv
<1>6. BalanceInv'
  BY <1>2, <1>3, <1>4, <1>5, SwapStepBalance DEF IInv
<1> QED
  BY <1>4, <1>6 DEF IInv

LEMMA PayInv ==
  ASSUME IInv, NEW s \in Swaps, Pay(s)
  PROVE  IInv'
<1>1. TypeOK /\ RowInv(s) /\ HolderInv(s) /\ HoldInv(s)
      /\ use \in [Swaps -> Uses] /\ chain \in [Wallets -> Nat]
  BY DEF IInv, TableInv, BalanceInv, TypeOK, Uses
<1>2. UNCHANGED <<blockchain, wallet, sync, events>>
  BY DEF Pay
<1>3. use[s].stage \in {"waiting", "credit", "closed"} /\ ~use[s].paid
  BY DEF Pay
<1>4. PICK w0 \in Wallets : use[s].wallet = w0
  BY <1>3, WalletOfSwap DEF Requested
<1>5. /\ use' \in [Swaps -> Uses] /\ \A t \in Swaps \ {s} : use'[t] = use[t]
      /\ use'[s].wallet = w0 /\ use'[s].paid /\ use'[s].stage = use[s].stage
      /\ use'[s].debits = use[s].debits
  BY <1>1, <1>4 DEF Pay, Uses
<1>6. /\ chain' \in [Wallets -> Nat] /\ chain'[w0] = chain[w0] + Amount
      /\ \A w \in Wallets \ {w0} : chain'[w] = chain[w]
  BY <1>1, <1>4, AmountAssumption DEF Pay
<1>7. RowInv(s)'
  BY <1>1, <1>2, <1>3, <1>4, <1>5 DEF RowInv, Requested, At, Exists
<1>8. CASE At(s, "closed")
  <2>1. MovesAside(s, {w0})
    BY <1>4, <1>8 DEF Pay
  <2>2. use'[s].stage \notin Holding
    BY <1>5, <1>8 DEF At, Holding
  <2>3. RowsStay /\ \A w \in Wallets : BalanceStays(w)
    BY <1>1, <1>2, UnchangedTable
  <2> QED
    BY <1>2, <1>4, <1>5, <1>6, <1>7, <2>1, <2>2, <2>3, AsideStep
<1>9. CASE ~At(s, "closed")
  <2>1. UNCHANGED <<held, apart>>
    BY <1>9 DEF Pay
  <2>2. HolderInv(s)' /\ HoldInv(s)'
    BY <1>1, <1>2, <1>4, <1>5, <2>1 DEF HolderInv, HoldInv
  <2>3. ASSUME TableInv'
        PROVE  Kept(w0)
    <3>1. /\ s \in UncreditedOf(w0)' /\ s \notin UncreditedOf(w0)
          /\ s \notin UndebitedOf(w0)' /\ s \notin UndebitedOf(w0)
      BY <1>3, <1>4, <1>5, <1>9
         DEF UncreditedOf, UndebitedOf, Of, Uncredited, Undebited, At
    <3>2. Credits(w0)' = Credits(w0) + Amount /\ Charges(w0)' = Charges(w0)
      BY <1>5, <3>1, SwapFlow DEF IInv, TableInv
    <3> QED
      BY <1>6, <2>3, <3>2, SumsTyped, AmountAssumption DEF Kept, IInv
  <2> QED
    BY <1>2, <1>4, <1>5, <1>6, <1>7, <2>1, <2>2, <2>3, MovingStep
<1> QED
  BY <1>8, <1>9

LEMMA DebitSendInv ==
  ASSUME IInv, NEW s \in Swaps, DebitSend(s)
  PROVE  IInv'
<1>1. TypeOK /\ RowInv(s) /\ HolderInv(s) /\ HoldInv(s) /\ chain \in [Wallets -> Nat]
  BY DEF IInv, TableInv, BalanceInv, TypeOK
<1>2. UNCHANGED <<blockchain, wallet, sync, held, apart, events>>
  BY DEF DebitSend
<1>3. /\ use' \in [Swaps -> Uses] /\ \A t \in Swaps \ {s} : use'[t] = use[t]
      /\ use'[s].wallet = use[s].wallet /\ use'[s].paid = use[s].paid
      /\ use'[s].debits = use[s].debits
      /\ \/ use[s].stage = "send" /\ use'[s].stage = "write"
         \/ use[s].stage = "debit" /\ use'[s].stage = "sent"
  BY <1>1, StageStep DEF DebitSend, Stages, At
<1>4. PICK w0 \in Wallets : use[s].wallet = w0
  BY <1>3, WalletOfSwap DEF Requested
<1>5. Due(s) \in Nat
  BY <1>1, <1>3, DueTyped
<1>6. /\ chain' \in [Wallets -> Nat] /\ chain'[w0] = chain[w0] - Due(s)
      /\ \A w \in Wallets \ {w0} : chain'[w] = chain[w]
  <2>1. chain[w0] - Due(s) \in Nat /\ chain' = [chain EXCEPT ![w0] = chain[w0] - Due(s)]
    BY <1>1, <1>4, <1>5 DEF DebitSend
  <2> QED
    BY <1>1, <2>1
<1>7. RowInv(s)' /\ HolderInv(s)' /\ HoldInv(s)'
  BY <1>1, <1>2, <1>3, <1>4
     DEF RowInv, HolderInv, HoldInv, Holding, Requested, At, Exists
<1>8. ASSUME TableInv'
      PROVE  Kept(w0)
  <2>1. /\ s \notin UncreditedOf(w0)' /\ s \notin UncreditedOf(w0)
        /\ s \in UndebitedOf(w0)' /\ s \notin UndebitedOf(w0)
    BY <1>3, <1>4 DEF UncreditedOf, UndebitedOf, Of, Uncredited, Undebited
  <2>2. Credits(w0)' = Credits(w0) /\ Charges(w0)' = Charges(w0) + Due(s)
    BY <1>3, <1>5, <2>1, SwapFlow DEF IInv, TableInv
  <2> QED
    BY <1>5, <1>6, <1>8, <2>2, SumsTyped DEF Kept, IInv
<1> QED
  BY <1>2, <1>3, <1>4, <1>6, <1>7, <1>8, MovingStep

LEMMA ReleaseInv ==
  ASSUME IInv, NEW s \in Swaps, Release(s)
  PROVE  IInv'
<1>1. TypeOK /\ RowInv(s) /\ HolderInv(s) /\ HoldInv(s)
  BY DEF IInv, TableInv, BalanceInv
<1>2. UNCHANGED <<blockchain, chain, use, sync, held, apart, events>>
  BY DEF Release
<1>3. use[s].stage \in {"waiting", "credit"}
  BY DEF Release
<1>4. use' \in [Swaps -> Uses] /\ \A t \in Swaps \ {s} : use'[t] = use[t]
  BY <1>1, <1>2 DEF TypeOK, Uses
<1>5. RowsStay /\ \A w \in Wallets : BalanceStays(w)
  BY <1>1, MarkEffect DEF Release
<1>6. held' \in [Actors -> Holdings] /\ \A b \in Actors : Ages(b)
  BY <1>1, <1>2, UnchangedHoldings
<1>7. use[s].wallet \in Wallets /\ Exists(use[s].wallet)
  BY <1>1, <1>3 DEF RowInv, Requested, At
<1>8. wallet'[use[s].wallet].balance = wallet[use[s].wallet].balance
  BY <1>5, <1>7 DEF BalanceStays, RowsStay
<1>9. RowInv(s)' /\ HolderInv(s)' /\ HoldInv(s)'
  BY <1>1, <1>2, <1>3, <1>5, <1>7, <1>8
     DEF RowInv, HolderInv, HoldInv, Requested, At, RowsStay
<1>10. (Uncredited(s)' <=> Uncredited(s)) /\ (Undebited(s)' <=> Undebited(s))
  BY <1>2 DEF Undebited, Uncredited
<1>11. use'[s].wallet = use[s].wallet
  BY <1>2
<1>12. use'[s].debits = use[s].debits
  BY <1>2
<1> QED
  BY <1>2, <1>4, <1>5, <1>6, <1>9, <1>10, <1>11, <1>12, FlowStays, QuietStep

LEMMA CloseInv ==
  ASSUME IInv, NEW s \in Swaps, Close(s)
  PROVE  IInv'
<1>1. TypeOK /\ RowInv(s) /\ chain \in [Wallets -> Nat]
  BY DEF IInv, TableInv, TypeOK
<1>2. UNCHANGED <<blockchain, chain, sync, events>>
  BY DEF Close
<1>3. use[s].stage \in {"waiting", "credit"}
  BY DEF Close
<1>4. PICK w0 \in Wallets : use[s].wallet = w0
  BY <1>3, WalletOfSwap DEF Requested
<1>5. /\ use' \in [Swaps -> Uses] /\ \A t \in Swaps \ {s} : use'[t] = use[t]
      /\ use'[s].stage = "closed" /\ use'[s].wallet = w0
      /\ use'[s].paid = use[s].paid /\ use'[s].debits = use[s].debits
  BY <1>1, <1>4, StageStep DEF Close, Stages
<1>6. RowsStay /\ \A w \in Wallets : BalanceStays(w)
  BY <1>1, MarkEffect DEF Close
<1>7. RowInv(s)' /\ HolderInv(s)' /\ HoldInv(s)' /\ use'[s].stage \notin Holding
  BY <1>1, <1>2, <1>3, <1>4, <1>5, <1>6
     DEF RowInv, HolderInv, HoldInv, Holding, Requested, At, RowsStay
<1>8. CASE use[s].paid
  <2>1. MovesAside(s, {w0})
    BY <1>4, <1>8 DEF Close
  <2>2. /\ chain' \in [Wallets -> Nat] /\ \A w \in Wallets \ {w0} : chain'[w] = chain[w]
    BY <1>1, <1>2
  <2> QED
    BY <1>2, <1>4, <1>5, <1>6, <1>7, <2>1, <2>2, AsideStep
<1>9. CASE ~use[s].paid
  <2>1. Drops(s) /\ UNCHANGED apart
    BY <1>9 DEF Close
  <2>2. held' \in [Actors -> Holdings] /\ \A b \in Actors \ {s} : Ages(b)
    BY <1>1, <2>1, DropsEffect DEF Actors
  <2>3. (Uncredited(s)' <=> Uncredited(s)) /\ (Undebited(s)' <=> Undebited(s))
    BY <1>3, <1>5, <1>9 DEF Undebited, Uncredited
  <2>4. use'[s].wallet = use[s].wallet
    BY <1>4, <1>5
  <2> QED
    BY <1>2, <1>5, <1>6, <1>7, <2>1, <2>2, <2>3, <2>4, FlowStays, QuietStep
<1> QED
  BY <1>8, <1>9

LEMMA GiveUpInv ==
  ASSUME IInv, NEW s \in Swaps, GiveUp(s)
  PROVE  IInv'
<1>1. TypeOK /\ RowInv(s) /\ chain \in [Wallets -> Nat]
  BY DEF IInv, TableInv, TypeOK
<1>2. UNCHANGED <<blockchain, wallet, chain, sync, events>>
  BY DEF GiveUp
<1>3. use[s].stage \in {"debit", "sent"}
  BY DEF GiveUp
<1>4. PICK w0 \in Wallets : use[s].wallet = w0
  BY <1>3, WalletOfSwap DEF Requested
<1>5. /\ use' \in [Swaps -> Uses] /\ \A t \in Swaps \ {s} : use'[t] = use[t]
      /\ use'[s].stage = "done" /\ use'[s].wallet = w0
      /\ use'[s].paid = use[s].paid /\ use'[s].debits = use[s].debits
  BY <1>1, <1>4, StageStep DEF GiveUp, Stages
<1>6. RowsStay /\ \A w \in Wallets : BalanceStays(w)
  BY <1>1, <1>2, UnchangedTable
<1>7. RowInv(s)' /\ HolderInv(s)' /\ HoldInv(s)' /\ use'[s].stage \notin Holding
  BY <1>1, <1>2, <1>3, <1>4, <1>5, <1>6
     DEF RowInv, HolderInv, HoldInv, Holding, Requested, At, RowsStay
<1>8. CASE At(s, "sent")
  <2>1. MovesAside(s, {w0})
    BY <1>4, <1>8 DEF GiveUp
  <2>2. /\ chain' \in [Wallets -> Nat] /\ \A w \in Wallets \ {w0} : chain'[w] = chain[w]
    BY <1>1, <1>2
  <2> QED
    BY <1>2, <1>4, <1>5, <1>6, <1>7, <2>1, <2>2, AsideStep
<1>9. CASE ~At(s, "sent")
  <2>1. UNCHANGED <<held, apart>>
    BY <1>9 DEF GiveUp
  <2>2. held' \in [Actors -> Holdings] /\ \A b \in Actors : Ages(b)
    BY <1>1, <2>1, UnchangedHoldings
  <2>3. (Uncredited(s)' <=> Uncredited(s)) /\ (Undebited(s)' <=> Undebited(s))
    BY <1>3, <1>5, <1>9 DEF Undebited, Uncredited, At
  <2>4. use'[s].wallet = use[s].wallet
    BY <1>4, <1>5
  <2> QED
    BY <1>2, <1>5, <1>6, <1>7, <2>1, <2>2, <2>3, <2>4, FlowStays, QuietStep
<1> QED
  BY <1>8, <1>9

LEMMA DebitThrowsInv ==
  ASSUME IInv, NEW s \in Swaps, DebitThrows(s)
  PROVE  IInv'
<1>1. TypeOK /\ RowInv(s) /\ chain \in [Wallets -> Nat] /\ use \in [Swaps -> Uses]
  BY DEF IInv, TableInv, TypeOK, Uses
<1>2. UNCHANGED <<blockchain, wallet, chain, sync, events>>
  BY DEF DebitThrows
<1>3. use[s].stage \in {"send", "write"}
  BY DEF DebitThrows, At
<1>4. PICK w0 \in Wallets : use[s].wallet = w0
  BY <1>3, WalletOfSwap DEF Requested
<1>5. /\ use' \in [Swaps -> Uses] /\ \A t \in Swaps \ {s} : use'[t] = use[t]
      /\ use'[s].wallet = w0 /\ use'[s].paid = use[s].paid
      /\ use'[s].debits = use[s].debits
      /\ use'[s].stage = IF blockchain = "ton" THEN "sent" ELSE "debit"
  <2> DEFINE stage == IF blockchain = "ton" THEN "sent" ELSE "debit"
             tries == use[s].tries + 1
  <2>1. stage \in Stages /\ tries \in Nat
    BY <1>1 DEF Stages, Uses
  <2>2. use' = [use EXCEPT ![s].tries = tries, ![s].stage = stage]
    BY <1>1 DEF DebitThrows
  <2> HIDE DEF stage, tries
  <2>3. /\ use' \in [Swaps -> Uses] /\ \A t \in Swaps \ {s} : use'[t] = use[t]
        /\ use'[s].wallet = w0 /\ use'[s].paid = use[s].paid
        /\ use'[s].debits = use[s].debits
        /\ use'[s].stage = stage
    BY <1>1, <1>4, <2>1, <2>2 DEF Uses
  <2> QED
    BY <2>3 DEF stage
<1>6. RowsStay /\ \A w \in Wallets : BalanceStays(w)
  BY <1>1, <1>2, UnchangedTable
<1>7. RowInv(s)' /\ HolderInv(s)' /\ HoldInv(s)' /\ use'[s].stage \notin Holding
  BY <1>1, <1>2, <1>3, <1>4, <1>5, <1>6
     DEF RowInv, HolderInv, HoldInv, Holding, Requested, At, RowsStay
<1>8. CASE blockchain = "ethereum" /\ At(s, "write")
  <2>1. MovesAside(s, {w0})
    BY <1>4, <1>8 DEF DebitThrows
  <2>2. /\ chain' \in [Wallets -> Nat] /\ \A w \in Wallets \ {w0} : chain'[w] = chain[w]
    BY <1>1, <1>2
  <2> QED
    BY <1>2, <1>4, <1>5, <1>6, <1>7, <2>1, <2>2, AsideStep
<1>9. CASE ~(blockchain = "ethereum" /\ At(s, "write"))
  <2>1. Drops(s) /\ UNCHANGED apart
    BY <1>9 DEF DebitThrows
  <2>2. held' \in [Actors -> Holdings] /\ \A b \in Actors \ {s} : Ages(b)
    BY <1>1, <2>1, DropsEffect DEF Actors
  <2>3. blockchain \in {"ethereum", "ton"}
    BY <1>1 DEF TypeOK, Blockchains
  <2>4. CASE blockchain = "ethereum"
    <3>1. use[s].stage = "send" /\ use'[s].stage = "debit"
      BY <1>3, <1>5, <1>9, <2>4 DEF At
    <3> QED
      BY <1>2, <1>4, <1>5, <1>6, <1>7, <2>1, <2>2, <3>1, FlowStays, QuietStep
         DEF Undebited, Uncredited
  <2>5. CASE blockchain = "ton"
    <3>1. use[s].stage = "write" /\ use'[s].stage = "sent"
      BY <1>1, <1>3, <1>5, <2>5 DEF RowInv, At
    <3> QED
      BY <1>2, <1>4, <1>5, <1>6, <1>7, <2>1, <2>2, <3>1, FlowStays, QuietStep
         DEF Undebited, Uncredited
  <2> QED
    BY <2>3, <2>4, <2>5
<1> QED
  BY <1>8, <1>9

\* A step of s that writes the balance it has read back with an amount added to it or
\* taken away.
LEMMA RecordStep ==
  ASSUME IInv, NEW s \in Swaps, NEW w0 \in Wallets, use[s].wallet = w0,
         use[s].stage \in Holding, NEW columns,
         \A c \in DOMAIN columns \cap Columns : columns[c] \in Entries(c),
         "balance" \in DOMAIN columns, Writes(s, w0, columns), Carries(s),
         UNCHANGED <<blockchain, chain, sync, events>>,
         use' \in [Swaps -> Uses], \A t \in Swaps \ {s} : use'[t] = use[t],
         use'[s].wallet = w0, use'[s].stage \notin Holding,
         RowsStay => RowInv(s)',
         (/\ TableInv' /\ held[s].balance \in Nat
          /\ held[s].balance + Credits(w0) = chain[w0] + Charges(w0))
           => /\ columns["balance"] \in Nat
              /\ columns["balance"] + Credits(w0)' = chain[w0] + Charges(w0)'
  PROVE  IInv'
<1>1. TypeOK /\ apart \subseteq Wallets /\ chain \in [Wallets -> Nat] /\ TableOK
  BY DEF IInv, TableInv, TypeOK
<1>2. /\ TableOK'
      /\ \A v \in Wallets :
           /\ v # w0 => wallet'[v] = wallet[v]
           /\ Exists(v)' <=> Exists(v)
           /\ wallet'[v] = NoRow <=> wallet[v] = NoRow
      /\ Exists(w0) => wallet'[w0].balance = columns["balance"]
  <2>1. Update(w0, columns)
    BY DEF Writes
  <2> QED
    BY <1>1, <2>1, UpdateEffect
<1>3. RowsStay /\ \A w \in Wallets \ {w0} : BalanceStays(w)
  BY <1>2 DEF RowsStay, BalanceStays
<1>4. /\ held' \in [Actors -> Holdings]
      /\ \A b \in Actors \ {s} : Ages(b) /\ (held[b].wallet = w0 => held'[b].stale)
  BY <1>1, WritesEffect
<1>5. held[s].wallet = w0
  BY DEF IInv, TableInv, HolderInv
<1>6. apart' \subseteq Wallets /\ apart \subseteq apart' /\ (held[s].stale => w0 \in apart')
  BY <1>1, <1>5 DEF Carries
<1>7. HolderInv(s)' /\ HoldInv(s)'
  BY DEF HolderInv, HoldInv
<1>8. TableInv'
  BY <1>1, <1>3, <1>4, <1>6, <1>7, SwapStepTable DEF IInv
<1>9. Exact(w0)'
  <2> SUFFICES ASSUME Exists(w0)', w0 \notin apart'
               PROVE  /\ wallet'[w0].balance \in Nat
                      /\ wallet'[w0].balance + Credits(w0)' = chain'[w0] + Charges(w0)'
    BY DEF Exact
  <2>1. Exists(w0) /\ w0 \notin apart /\ ~held[s].stale
    BY <1>2, <1>6
  <2>2. held[s].balance = wallet[w0].balance
    BY <2>1 DEF IInv, BalanceInv, HoldInv
  <2>3. /\ held[s].balance \in Nat
        /\ held[s].balance + Credits(w0) = chain[w0] + Charges(w0)
    BY <2>1, <2>2 DEF IInv, BalanceInv, Exact
  <2>4. /\ columns["balance"] \in Nat
        /\ columns["balance"] + Credits(w0)' = chain[w0] + Charges(w0)'
    BY <1>8, <2>3
  <2> QED
    BY <1>2, <2>1, <2>4
<1>10. /\ \A t \in Swaps \ {s} : held[t].wallet = w0 => held'[t].stale
       /\ \A a \in Observers : held[a].wallet = w0 => held'[a].stale
  BY <1>4, ActorAssumption DEF Observers, Actors
<1>11. \A w \in Wallets \ {w0} :
         BalanceStays(w) /\ chain'[w] = chain[w] /\ (w \in apart => w \in apart')
  BY <1>3, <1>6
<1>12. BalanceInv'
  BY <1>4, <1>7, <1>8, <1>9, <1>10, <1>11, SwapStepBalance DEF IInv
<1> QED
  BY <1>8, <1>12 DEF IInv

LEMMA CreditWriteInv ==
  ASSUME IInv, NEW s \in Swaps, CreditWrite(s)
  PROVE  IInv'
<1>1. TypeOK /\ RowInv(s) /\ held[s].balance \in Balances
  BY DEF IInv, TableInv, TypeOK, Actors
<1>2. UNCHANGED <<blockchain, chain, sync, events>> /\ Carries(s)
  BY DEF CreditWrite
<1>3. use[s].stage = "credit" /\ use[s].paid
  BY DEF CreditWrite, At
<1>4. PICK w0 \in Wallets : use[s].wallet = w0
  BY <1>3, WalletOfSwap DEF Requested
<1>5. /\ use' \in [Swaps -> Uses] /\ \A t \in Swaps \ {s} : use'[t] = use[t]
      /\ use'[s].stage = "credited" /\ use'[s].wallet = w0
      /\ use'[s].paid = use[s].paid /\ use'[s].debits = use[s].debits
  BY <1>1, <1>4, StageStep DEF CreditWrite, Stages
<1> DEFINE columns == [balance |-> Credited(held[s].balance), inUse |-> FALSE]
<1>6. Writes(s, w0, columns)
  BY <1>4 DEF CreditWrite
<1>7. Credited(held[s].balance) \in Balances
  BY <1>1, AmountAssumption DEF Credited, Plus, Balances
<1>8. /\ \A c \in DOMAIN columns \cap Columns : columns[c] \in Entries(c)
      /\ "balance" \in DOMAIN columns
      /\ columns["balance"] = Credited(held[s].balance)
  <2>1. DOMAIN columns = {"balance", "inUse"}
    OBVIOUS
  <2>2. columns["balance"] = Credited(held[s].balance) /\ columns["inUse"] = FALSE
    OBVIOUS
  <2>3. Entries("balance") = Balances /\ Entries("inUse") = BOOLEAN
    BY DEF Entries
  <2> HIDE DEF columns
  <2> QED
    BY <1>7, <2>1, <2>2, <2>3
<1>9. ASSUME RowsStay
      PROVE  RowInv(s)'
  BY <1>1, <1>3, <1>4, <1>5, <1>9 DEF RowInv, Requested, At, RowsStay
<1>10. ASSUME TableInv', held[s].balance \in Nat,
              held[s].balance + Credits(w0) = chain[w0] + Charges(w0)
       PROVE  /\ columns["balance"] \in Nat
              /\ columns["balance"] + Credits(w0)' = chain[w0] + Charges(w0)'
  <2>1. /\ s \notin UncreditedOf(w0)' /\ s \in UncreditedOf(w0)
        /\ s \notin UndebitedOf(w0)' /\ s \notin UndebitedOf(w0)
    BY <1>3, <1>4, <1>5 DEF UncreditedOf, UndebitedOf, Of, Uncredited, Undebited
  <2>2. Credits(w0) = Credits(w0)' + Amount /\ Charges(w0)' = Charges(w0)
    BY <1>5, <2>1, SwapFlow DEF IInv, TableInv
  <2>3. Credited(held[s].balance) = held[s].balance + Amount
    BY <1>10, BalanceAssumption DEF Credited, Plus
  <2>4. /\ Credits(w0) \in Nat /\ Credits(w0)' \in Nat /\ chain[w0] \in Nat
        /\ Charges(w0) \in Nat
    BY <1>10, SumsTyped DEF IInv
  <2> HIDE DEF columns
  <2> QED
    BY <1>8, <1>10, <2>2, <2>3, <2>4, AmountAssumption
<1>11. use[s].stage \in Holding /\ use'[s].stage \notin Holding
  BY <1>3, <1>5 DEF Holding
<1> HIDE DEF columns
<1> QED
  BY <1>2, <1>4, <1>5, <1>6, <1>8, <1>9, <1>10, <1>11, RecordStep

LEMMA DebitWriteInv ==
  ASSUME IInv, NEW s \in Swaps, DebitWrite(s)
  PROVE  IInv'
<1>1. TypeOK /\ RowInv(s) /\ held[s].balance \in Balances
  BY DEF IInv, TableInv, TypeOK, Actors
<1>2. UNCHANGED <<blockchain, chain, sync, events>> /\ Carries(s)
  BY DEF DebitWrite
<1>3. use[s].stage = "write" /\ Debited(s) \in Balances
  BY DEF DebitWrite, At, Admitted
<1>4. PICK w0 \in Wallets : use[s].wallet = w0
  BY <1>3, WalletOfSwap DEF Requested
<1>5. /\ use' \in [Swaps -> Uses] /\ \A t \in Swaps \ {s} : use'[t] = use[t]
      /\ use'[s].stage = "debited" /\ use'[s].wallet = w0
      /\ use'[s].paid = use[s].paid /\ use'[s].debits = use[s].debits
  BY <1>1, <1>4, StageStep DEF DebitWrite, Stages
<1> DEFINE columns == [balance |-> Debited(s)]
<1>6. Writes(s, w0, columns)
  BY <1>4 DEF DebitWrite
<1>7. /\ \A c \in DOMAIN columns \cap Columns : columns[c] \in Entries(c)
      /\ "balance" \in DOMAIN columns
      /\ columns["balance"] = Debited(s)
  BY <1>3 DEF Entries, Columns
<1>8. Due(s) \in Nat
  BY <1>1, <1>3, DueTyped
<1>9. ASSUME RowsStay
      PROVE  RowInv(s)'
  BY <1>1, <1>3, <1>4, <1>5, <1>9 DEF RowInv, Requested, At, RowsStay
<1>10. ASSUME TableInv', held[s].balance \in Nat,
              held[s].balance + Credits(w0) = chain[w0] + Charges(w0)
       PROVE  /\ columns["balance"] \in Nat
              /\ columns["balance"] + Credits(w0)' = chain[w0] + Charges(w0)'
  <2>1. /\ s \notin UncreditedOf(w0)' /\ s \notin UncreditedOf(w0)
        /\ s \notin UndebitedOf(w0)' /\ s \in UndebitedOf(w0)
    BY <1>3, <1>4, <1>5 DEF UncreditedOf, UndebitedOf, Of, Uncredited, Undebited
  <2>2. Credits(w0)' = Credits(w0) /\ Charges(w0) = Charges(w0)' + Due(s)
    BY <1>5, <1>8, <2>1, SwapFlow DEF IInv, TableInv
  <2>3. Debited(s) = held[s].balance - Due(s)
    BY <1>8, <1>10, BalanceAssumption DEF Debited, Plus
  <2>4. Debited(s) \in Nat
    BY <1>3, <1>8, <1>10, <2>3, BalanceAssumption DEF Balances
  <2>5. /\ Credits(w0) \in Nat /\ chain[w0] \in Nat /\ Charges(w0) \in Nat
        /\ Charges(w0)' \in Nat
    BY <1>10, SumsTyped DEF IInv
  <2> HIDE DEF columns
  <2> QED
    BY <1>7, <1>8, <1>10, <2>2, <2>3, <2>4, <2>5
<1>11. use[s].stage \in Holding /\ use'[s].stage \notin Holding
  BY <1>3, <1>5 DEF Holding
<1> HIDE DEF columns
<1> QED
  BY <1>2, <1>4, <1>5, <1>6, <1>7, <1>9, <1>10, <1>11, RecordStep

-----------------------------------------------------------------------------
(* The steps of the sync task and of administrators.                         *)

LEMMA ObserverIsActor ==
  ASSUME NEW a \in Observers
  PROVE  a \in Actors /\ a \notin Swaps
  BY ActorAssumption DEF Observers, Actors

\* Swaps that stand still have as much under way as before.
LEMMA IdleKept ==
  ASSUME TableInv, TableInv', UNCHANGED use, NEW w \in Wallets, chain'[w] = chain[w]
  PROVE  Kept(w)
<1>1. Credits(w)' = Credits(w) /\ Charges(w)' = Charges(w)
  BY DEF Credits, Charges, Of, Uncredited, Undebited, Due
<1> QED
  BY <1>1, SumsTyped DEF Kept

\* An observer a reads, or drops what it has read.
LEMMA ReadingStep ==
  ASSUME IInv, UNCHANGED <<blockchain, wallet, chain, use, apart>>,
         sync' \in [Runs -> SUBSET Wallets], events' \in 0..MaxEvents,
         held' \in [Actors -> Holdings], NEW a \in Observers,
         \A b \in Actors \ {a} : Ages(b), \A r \in Runs \ {a} : sync'[r] = sync[r],
         ReaderInv(a)', a \in Runs => RunInv(a)', SeenInv(a)'
  PROVE  IInv'
<1>1. TypeOK /\ chain \in [Wallets -> Nat] /\ apart \subseteq Wallets
  BY DEF IInv, TableInv, TypeOK
<1>2. RowsStay /\ \A w \in Wallets : BalanceStays(w)
  BY <1>1, UnchangedTable
<1>3. \A s \in Swaps : Ages(s) /\ s # a
  BY ObserverIsActor DEF Actors
<1>4. \A b \in Observers : ReaderInv(b)'
  BY ObserverIsActor, ReaderInvStays DEF IInv, TableInv
<1>5. ASSUME NEW r \in Runs
      PROVE  RunInv(r)'
  <2>1. CASE r = a
    BY <2>1
  <2>2. CASE r # a
    <3>1. Ages(r) /\ sync'[r] = sync[r] /\ ReaderInv(r) /\ RunInv(r)
      BY <2>2 DEF Actors, Observers, IInv, TableInv
    <3> QED
      BY <1>1, <1>2, <3>1, RunInvStays
  <2> QED
    BY <2>1, <2>2
<1>6. TableInv'
  BY <1>1, <1>2, <1>3, <1>4, <1>5, ObserverStepTable DEF IInv
<1>7. \A w \in Wallets : Kept(w)
  BY <1>6, IdleKept DEF IInv
<1>8. BalanceInv'
  <2> DEFINE W == {}
  <2>1. /\ \A w \in Wallets \ W :
             BalanceStays(w) /\ Kept(w) /\ (w \in apart => w \in apart')
        /\ \A w \in W \cap Wallets : Exact(w)'
    BY <1>2, <1>7
  <2>2. \A b \in Observers : SeenInv(b)' \/ Ages(b)
    BY ObserverIsActor
  <2> HIDE DEF W
  <2> QED
    BY <1>2, <1>3, <1>6, <1>7, <2>1, <2>2, BalanceStep DEF IInv
<1> QED
  BY <1>6, <1>8 DEF IInv

LEMMA SyncStartInv ==
  ASSUME IInv, NEW r \in Runs, SyncStart(r)
  PROVE  IInv'
<1>1. TypeOK /\ RunInv(r) /\ ReaderInv(r) /\ SeenInv(r) /\ TableOK
      /\ events \in 0..MaxEvents /\ sync \in [Runs -> SUBSET Wallets]
  BY DEF IInv, TableInv, BalanceInv, TypeOK, Observers
<1>2. UNCHANGED <<blockchain, wallet, chain, use, held, apart, events>>
  BY DEF SyncStart
<1>3. \A w \in Listed : w \in Wallets /\ wallet[w] # NoRow
  <2>1. \A w \in Listed : w \in Wallets /\ Exists(w)
    BY DEF Listed, FindAll
  <2> QED
    BY <1>1, <2>1, RowsExist
<1>4. /\ sync' \in [Runs -> SUBSET Wallets] /\ sync'[r] = Listed
      /\ \A q \in Runs \ {r} : sync'[q] = sync[q]
  BY <1>1, <1>3 DEF SyncStart
<1>5. held' \in [Actors -> Holdings] /\ \A b \in Actors : Ages(b)
  BY <1>1, <1>2, UnchangedHoldings
<1>6. ReaderInv(r)' /\ RunInv(r)'
  BY <1>1, <1>2, <1>3, <1>4 DEF ReaderInv, RunInv
<1>7. SeenInv(r)'
  <2>1. \A w \in Wallets : Credits(w)' = Credits(w) /\ Charges(w)' = Charges(w)
    BY <1>2 DEF Credits, Charges, Of, Uncredited, Undebited, Due
  <2>2. CASE held[r] = NotHeld
    BY <1>2, <2>2 DEF SeenInv
  <2>3. CASE held[r] # NotHeld
    <3>1. PICK w \in Wallets : held[r].wallet = w
      BY <1>1, <2>3 DEF ReaderInv
    <3> QED
      BY <1>1, <1>2, <2>1, <3>1 DEF SeenInv
  <2> QED
    BY <2>2, <2>3
<1> QED
  BY <1>1, <1>2, <1>4, <1>5, <1>6, <1>7, ReadingStep DEF Observers

LEMMA SyncReadInv ==
  ASSUME IInv, NEW r \in Runs, SyncRead(r)
  PROVE  IInv'
<1>1. TypeOK /\ RunInv(r) /\ chain \in [Wallets -> Nat]
      /\ events \in 0..MaxEvents /\ sync \in [Runs -> SUBSET Wallets]
      /\ \A s \in Swaps : RowInv(s)
  BY DEF IInv, TableInv, TypeOK
<1>2. UNCHANGED <<blockchain, wallet, chain, use, sync, apart, events>>
  BY DEF SyncRead
<1>3. PICK w \in sync[r] : Reads(r, w, chain[w], InFlight(w))
  BY DEF SyncRead
<1>4. w \in Wallets /\ chain[w] \in Balances /\ InFlight(w) \in BOOLEAN
  BY <1>1 DEF Balances, InFlight
<1>5. /\ held' \in [Actors -> Holdings] /\ \A b \in Actors \ {r} : Ages(b)
      /\ held'[r] = [wallet |-> w, balance |-> chain[w], stale |-> InFlight(w)]
  <2> DEFINE flying == InFlight(w)
             tokens == chain[w]
  <2>1. Reads(r, w, tokens, flying) /\ tokens \in Balances /\ flying \in BOOLEAN
    BY <1>3, <1>4
  <2> HIDE DEF flying, tokens
  <2>2. /\ held' \in [Actors -> Holdings] /\ \A b \in Actors \ {r} : Ages(b)
        /\ held'[r] = [wallet |-> w, balance |-> tokens, stale |-> flying]
    BY <1>1, <1>4, <2>1, ReadsEffect DEF Actors
  <2> QED
    BY <2>2 DEF flying, tokens
<1>6. ReaderInv(r)' /\ RunInv(r)'
  BY <1>1, <1>2, <1>4, <1>5 DEF ReaderInv, RunInv
<1>7. SeenInv(r)'
  <2>1. held'[r].wallet = w /\ held'[r].balance = chain'[w] /\ held'[r].stale = InFlight(w)
    BY <1>2, <1>5
  <2>2. CASE InFlight(w)
    BY <2>1, <2>2 DEF SeenInv
  <2>3. CASE ~InFlight(w)
    <3>1. Credits(w) = 0 /\ Charges(w) = 0
      BY <1>1, <2>3, NothingFlows
    <3>2. Credits(w)' = 0 /\ Charges(w)' = 0
      BY <1>2, <3>1 DEF Credits, Charges, Of, Uncredited, Undebited, Due
    <3> QED
      BY <2>1, <3>2 DEF SeenInv
  <2> QED
    BY <2>2, <2>3
<1> QED
  BY <1>1, <1>2, <1>5, <1>6, <1>7, ReadingStep DEF Observers

\* An event is counted.
LEMMA EventCounted ==
  ASSUME TypeOK, Event \/ UNCHANGED events
  PROVE  events' \in 0..MaxEvents
<1>1. MaxEvents \in Nat /\ events \in 0..MaxEvents
  BY BoundAssumption DEF TypeOK
<1> QED
  BY <1>1 DEF Event

LEMMA SyncMissInv ==
  ASSUME IInv, NEW r \in Runs, SyncMiss(r)
  PROVE  IInv'
<1>1. TypeOK /\ RunInv(r) /\ sync \in [Runs -> SUBSET Wallets]
  BY DEF IInv, TableInv, TypeOK
<1>2. UNCHANGED <<blockchain, wallet, chain, use, apart>> /\ held[r] = NotHeld
  BY DEF SyncMiss
<1>3. events' \in 0..MaxEvents
  BY <1>1, EventCounted DEF SyncMiss
<1>4. PICK w \in sync[r] :
        \/ sync' = [sync EXCEPT ![r] = {}] /\ UNCHANGED held
        \/ Reads(r, w, 0, TRUE) /\ UNCHANGED sync
  BY DEF SyncMiss
<1>5. CASE sync' = [sync EXCEPT ![r] = {}] /\ UNCHANGED held
  <2>1. /\ sync' \in [Runs -> SUBSET Wallets] /\ sync'[r] = {}
        /\ \A q \in Runs \ {r} : sync'[q] = sync[q]
    BY <1>1, <1>5
  <2>2. held' \in [Actors -> Holdings] /\ \A b \in Actors : Ages(b)
    BY <1>1, <1>5, UnchangedHoldings
  <2>3. ReaderInv(r)' /\ RunInv(r)' /\ SeenInv(r)'
    BY <1>2, <1>5, <2>1 DEF ReaderInv, RunInv, SeenInv
  <2> QED
    BY <1>2, <1>3, <2>1, <2>2, <2>3, ReadingStep DEF Observers
<1>6. CASE Reads(r, w, 0, TRUE) /\ UNCHANGED sync
  <2>1. w \in Wallets /\ 0 \in Balances
    BY <1>1 DEF Balances
  <2>2. /\ held' \in [Actors -> Holdings] /\ \A b \in Actors \ {r} : Ages(b)
        /\ held'[r] = [wallet |-> w, balance |-> 0, stale |-> TRUE]
    BY <1>1, <1>6, <2>1, ReadsEffect DEF Actors
  <2>3. ReaderInv(r)' /\ RunInv(r)' /\ SeenInv(r)'
    BY <1>1, <1>2, <1>6, <2>1, <2>2 DEF ReaderInv, RunInv, SeenInv
  <2> QED
    BY <1>1, <1>2, <1>3, <1>6, <2>2, <2>3, ReadingStep DEF Observers
<1> QED
  BY <1>4, <1>5, <1>6

LEMMA AttachReadInv ==
  ASSUME IInv, NEW a \in Admins, AttachRead(a)
  PROVE  IInv'
<1>1. TypeOK /\ chain \in [Wallets -> Nat] /\ sync \in [Runs -> SUBSET Wallets]
      /\ \A s \in Swaps : RowInv(s)
  BY DEF IInv, TableInv, TypeOK
<1>2. UNCHANGED <<blockchain, wallet, chain, use, sync, apart>>
  BY DEF AttachRead
<1>3. events' \in 0..MaxEvents
  BY <1>1, EventCounted DEF AttachRead
<1>4. PICK w \in Wallets : /\ wallet[w] = NoRow
                           /\ Reads(a, w, chain[w], FALSE) \/ Reads(a, w, 0, TRUE)
  BY DEF AttachRead
<1>5. PICK tokens \in Nat, stale \in BOOLEAN :
        Reads(a, w, tokens, stale) /\ (stale \/ tokens = chain[w])
  <2>1. CASE Reads(a, w, 0, TRUE)
    <3>1. 0 \in Nat /\ TRUE \in BOOLEAN
      OBVIOUS
    <3> QED
      BY <2>1, <3>1
  <2>2. CASE Reads(a, w, chain[w], FALSE)
    <3>1. chain[w] \in Nat /\ FALSE \in BOOLEAN
      BY <1>1
    <3> QED
      BY <2>2, <3>1
  <2> QED
    BY <1>4, <2>1, <2>2
<1>6. /\ held' \in [Actors -> Holdings] /\ \A b \in Actors \ {a} : Ages(b)
      /\ held'[a] = [wallet |-> w, balance |-> tokens, stale |-> stale]
  <2>1. a \in Actors /\ tokens \in Balances
    BY DEF Actors, Balances
  <2> QED
    BY <1>1, <1>5, <2>1, ReadsEffect
<1>7. Credits(w)' = 0 /\ Charges(w)' = 0
  <2>1. ~InFlight(w)
    BY <1>1, <1>4 DEF InFlight, Uncredited, Undebited, RowInv, At
  <2>2. Credits(w) = 0 /\ Charges(w) = 0
    BY <1>1, <2>1, NothingFlows
  <2> QED
    BY <1>2, <2>2 DEF Credits, Charges, Of, Uncredited, Undebited, Due
<1>8. held'[a].wallet = w /\ held'[a].balance = tokens /\ held'[a].stale = stale
  BY <1>6
<1>9. ReaderInv(a)' /\ SeenInv(a)'
  BY <1>1, <1>2, <1>5, <1>7, <1>8 DEF ReaderInv, SeenInv
<1>10. a \in Observers /\ a \notin Runs
  BY ActorAssumption DEF Observers
<1> QED
  BY <1>1, <1>2, <1>3, <1>6, <1>9, <1>10, ReadingStep

\* A row is overwritten with a balance that is right, or known not to be.
LEMMA OverwriteStep ==
  ASSUME IInv, NEW a, a \notin Swaps, NEW w0 \in Wallets, NEW columns,
         \A c \in DOMAIN columns \cap Columns : columns[c] \in Entries(c),
         "balance" \in DOMAIN columns, Writes(a, w0, columns),
         UNCHANGED <<blockchain, chain, use>>, events' \in 0..MaxEvents,
         sync' \in [Runs -> SUBSET Wallets], \A r \in Runs : sync'[r] \subseteq sync[r],
         apart' \subseteq Wallets, \A w \in Wallets \ {w0} : w \in apart => w \in apart',
         w0 \in apart' \/ /\ columns["balance"] \in Nat
                          /\ columns["balance"] + Credits(w0) = chain[w0] + Charges(w0)
  PROVE  IInv'
<1>1. TypeOK /\ TableOK
  BY DEF IInv, TableInv, TypeOK
<1>2. /\ TableOK'
      /\ \A v \in Wallets :
           /\ v # w0 => wallet'[v] = wallet[v]
           /\ Exists(v)' <=> Exists(v)
           /\ wallet'[v] = NoRow <=> wallet[v] = NoRow
      /\ Exists(w0) => wallet'[w0].balance = columns["balance"]
  <2>1. Update(w0, columns)
    BY DEF Writes
  <2> QED
    BY <1>1, <2>1, UpdateEffect
<1>3. RowsStay /\ \A w \in Wallets \ {w0} : BalanceStays(w)
  BY <1>2 DEF RowsStay, BalanceStays
<1>4. /\ held' \in [Actors -> Holdings]
      /\ a \in Actors => held'[a] = NotHeld
      /\ \A b \in Actors \ {a} : Ages(b) /\ (held[b].wallet = w0 => held'[b].stale)
  BY <1>1, WritesEffect
<1>5. \A s \in Swaps : Ages(s) /\ (held[s].wallet = w0 => held'[s].stale)
  BY <1>4 DEF Actors
<1>6. \A b \in Observers : held'[b] = NotHeld \/ Ages(b)
  BY <1>4, ObserverIsActor
<1>7. TableInv'
  <2>1. \A b \in Observers : ReaderInv(b)'
    BY <1>6, ReaderInvStays DEF IInv, TableInv
  <2>2. \A r \in Runs : RunInv(r)'
    BY <1>1, <1>3, <1>6, RunInvStays DEF IInv, TableInv, Observers
  <2>3. chain' \in [Wallets -> Nat]
    BY <1>1 DEF TypeOK
  <2> QED
    BY <1>3, <1>4, <1>5, <2>1, <2>2, <2>3, ObserverStepTable DEF IInv
<1>8. \A w \in Wallets : Kept(w)
  BY <1>7, IdleKept DEF IInv
<1>9. Exact(w0)'
  <2> SUFFICES ASSUME Exists(w0)', w0 \notin apart'
               PROVE  /\ wallet'[w0].balance \in Nat
                      /\ wallet'[w0].balance + Credits(w0)' = chain'[w0] + Charges(w0)'
    BY DEF Exact
  <2>1. wallet'[w0].balance = columns["balance"]
    BY <1>2
  <2>2. Credits(w0)' = Credits(w0) /\ Charges(w0)' = Charges(w0)
    BY DEF Credits, Charges, Of, Uncredited, Undebited, Due
  <2> QED
    BY <2>1, <2>2
<1>10. BalanceInv'
  <2> DEFINE W == {w0}
  <2>1. /\ \A w \in Wallets \ W :
             BalanceStays(w) /\ Kept(w) /\ (w \in apart => w \in apart')
        /\ \A w \in W \cap Wallets : Exact(w)'
    BY <1>3, <1>8, <1>9
  <2>2. ASSUME NEW t \in Swaps
        PROVE  \/ HoldInv(t)'
               \/ /\ use'[t] = use[t] /\ Ages(t)
                  /\ \A w \in Wallets : use[t].wallet = w => BalanceStays(w) \/ held'[t].stale
    <3>1. CASE use[t].stage \notin Holding
      BY <3>1 DEF HoldInv
    <3>2. CASE use[t].stage \in Holding
      BY <1>3, <1>5, <3>2 DEF IInv, TableInv, HolderInv
    <3> QED
      BY <3>1, <3>2
  <2>3. \A b \in Observers : SeenInv(b)' \/ Ages(b)
    BY <1>6 DEF SeenInv
  <2> HIDE DEF W
  <2> QED
    BY <1>7, <1>8, <2>1, <2>2, <2>3, BalanceStep DEF IInv
<1> QED
  BY <1>7, <1>10 DEF IInv

LEMMA SyncWriteInv ==
  ASSUME IInv, NEW r \in Runs, SyncWrite(r)
  PROVE  IInv'
<1>1. TypeOK /\ sync \in [Runs -> SUBSET Wallets] /\ apart \subseteq Wallets
      /\ events \in 0..MaxEvents /\ ReaderInv(r) /\ SeenInv(r)
  BY DEF IInv, TableInv, BalanceInv, TypeOK, Observers
<1>2. UNCHANGED <<blockchain, chain, use, events>> /\ held[r] # NotHeld /\ Settles(r)
  BY DEF SyncWrite
<1>3. PICK w0 \in Wallets, tokens \in Nat : held[r].wallet = w0 /\ held[r].balance = tokens
  BY <1>1, <1>2 DEF ReaderInv
<1> DEFINE columns == [balance |-> tokens]
<1>4. Writes(r, w0, columns)
  BY <1>3 DEF SyncWrite
<1>5. /\ \A c \in DOMAIN columns \cap Columns : columns[c] \in Entries(c)
      /\ "balance" \in DOMAIN columns /\ columns["balance"] = tokens
  BY DEF Entries, Columns, Balances
<1>6. /\ sync' \in [Runs -> SUBSET Wallets]
      /\ \A q \in Runs : sync'[q] \subseteq sync[q]
  BY <1>1, <1>3 DEF SyncWrite
<1>7. /\ apart' \subseteq Wallets
      /\ \A w \in Wallets \ {w0} : w \in apart => w \in apart'
      /\ held[r].stale => w0 \in apart'
  BY <1>1, <1>2, <1>3 DEF Settles
<1>8. w0 \in apart' \/ tokens + Credits(w0) = chain[w0] + Charges(w0)
  BY <1>1, <1>2, <1>3, <1>7 DEF SeenInv
<1>9. r \notin Swaps
  BY ActorAssumption
<1> HIDE DEF columns
<1> QED
  BY <1>1, <1>2, <1>4, <1>5, <1>6, <1>7, <1>8, <1>9, OverwriteStep

LEMMA UpdateWalletInv ==
  ASSUME IInv, NEW w0 \in Wallets, NEW dto \in Dtos, UpdateWallet(w0, dto)
  PROVE  IInv'
<1>1. TypeOK /\ sync \in [Runs -> SUBSET Wallets] /\ apart \subseteq Wallets
  BY DEF IInv, TableInv, TypeOK
<1>2. UNCHANGED <<blockchain, chain, use, sync>> /\ apart' = apart \cup {w0}
  BY DEF UpdateWallet
<1>3. events' \in 0..MaxEvents
  BY <1>1, EventCounted DEF UpdateWallet
<1> DEFINE columns == PutColumns(dto)
<1>4. /\ \A c \in DOMAIN columns \cap Columns : columns[c] \in Entries(c)
      /\ "balance" \in DOMAIN columns
  <2>1. DOMAIN columns = DOMAIN dto \cup {"balance"}
    BY DEF PutColumns
  <2>2. \A c \in DOMAIN columns : columns[c] = IF c \in DOMAIN dto THEN dto[c] ELSE NaN
    BY DEF PutColumns
  <2>3. \A c \in DOMAIN dto : dto[c] \in Entries(c)
    BY DtoAssumption
  <2>4. NaN \in Entries("balance")
    BY DEF Entries, Balances
  <2> HIDE DEF columns
  <2> QED
    BY <2>1, <2>2, <2>3, <2>4
<1>5. Writes(NoWallet, w0, columns)
  BY DEF UpdateWallet
<1>6. NoWallet \notin Swaps
  BY ActorAssumption
<1>7. apart' \subseteq Wallets /\ w0 \in apart' /\ apart \subseteq apart'
  BY <1>1, <1>2
<1> HIDE DEF columns
<1> QED
  BY <1>1, <1>2, <1>3, <1>4, <1>5, <1>6, <1>7, OverwriteStep

\* The address of no swap has a row for the first time, with a balance that is right or
\* known not to be.
LEMMA NewRowStep ==
  ASSUME IInv, NEW w0 \in Wallets, wallet[w0] = NoRow, NEW row \in Row,
         wallet' = [wallet EXCEPT ![w0] = row],
         UNCHANGED <<blockchain, chain, use, sync>>, events' \in 0..MaxEvents,
         held' \in [Actors -> Holdings], \A s \in Swaps : Ages(s),
         \A a \in Observers : held'[a] = NotHeld \/ Ages(a),
         apart' \subseteq Wallets, \A w \in Wallets \ {w0} : w \in apart => w \in apart',
         w0 \in apart' \/ (row.balance \in Nat /\ row.balance = chain[w0])
  PROVE  IInv'
<1>1. TypeOK /\ TableOK /\ chain \in [Wallets -> Nat] /\ sync \in [Runs -> SUBSET Wallets]
      /\ \A s \in Swaps : RowInv(s)
  BY DEF IInv, TableInv, TypeOK
<1>2. row \notin {NoRow, Deleted}
  BY DEF Row, Types, NoRow, Deleted
<1>3. /\ TableOK' /\ wallet'[w0] = row /\ Exists(w0)' /\ ~Exists(w0)
      /\ \A v \in Wallets \ {w0} : wallet'[v] = wallet[v]
  BY <1>1, <1>2 DEF TableOK, Exists
<1>4. RowsStay /\ \A w \in Wallets \ {w0} : BalanceStays(w)
  BY <1>2, <1>3 DEF RowsStay, BalanceStays, Exists
<1>5. TableInv'
  <2>1. \A b \in Observers : ReaderInv(b)'
    BY ReaderInvStays DEF IInv, TableInv
  <2>2. ASSUME NEW r \in Runs
        PROVE  RunInv(r)'
    <3>1. sync'[r] \subseteq sync[r] /\ ReaderInv(r) /\ RunInv(r)
          /\ (held'[r] = NotHeld \/ Ages(r))
      BY DEF IInv, TableInv, Observers
    <3> QED
      BY <1>1, <1>4, <3>1, RunInvStays
  <2>3. chain' \in [Wallets -> Nat] /\ sync' \in [Runs -> SUBSET Wallets]
    BY <1>1
  <2> QED
    BY <1>4, <2>1, <2>2, <2>3, ObserverStepTable DEF IInv
<1>6. \A w \in Wallets : Kept(w)
  BY <1>5, IdleKept DEF IInv
<1>7. Exact(w0)'
  <2>1. ~InFlight(w0)
    BY <1>1 DEF InFlight, Uncredited, Undebited, RowInv, At
  <2>2. Credits(w0) = 0 /\ Charges(w0) = 0
    BY <1>1, <2>1, NothingFlows
  <2>3. Credits(w0)' = 0 /\ Charges(w0)' = 0
    BY <2>2 DEF Credits, Charges, Of, Uncredited, Undebited, Due
  <2> QED
    BY <1>1, <1>3, <2>3 DEF Exact
<1>8. BalanceInv'
  <2> DEFINE W == {w0}
  <2>1. /\ \A w \in Wallets \ W :
             BalanceStays(w) /\ Kept(w) /\ (w \in apart => w \in apart')
        /\ \A w \in W \cap Wallets : Exact(w)'
    BY <1>4, <1>6, <1>7
  <2>2. ASSUME NEW t \in Swaps
        PROVE  \/ HoldInv(t)'
               \/ /\ use'[t] = use[t] /\ Ages(t)
                  /\ \A w \in Wallets : use[t].wallet = w => BalanceStays(w) \/ held'[t].stale
    <3>1. CASE use[t].stage \notin Holding
      BY <3>1 DEF HoldInv
    <3>2. CASE use[t].stage \in Holding
      <4>1. use[t].wallet # w0
        BY <1>1, <3>2 DEF RowInv, At, Holding
      <4> QED
        BY <1>4, <4>1
    <3> QED
      BY <3>1, <3>2
  <2>3. \A b \in Observers : SeenInv(b)' \/ Ages(b)
    BY DEF SeenInv
  <2> HIDE DEF W
  <2> QED
    BY <1>5, <1>6, <2>1, <2>2, <2>3, BalanceStep DEF IInv
<1> QED
  BY <1>5, <1>8 DEF IInv

LEMMA AttachSaveInv ==
  ASSUME IInv, NEW a \in Admins, AttachSave(a)
  PROVE  IInv'
<1>1. TypeOK /\ sync \in [Runs -> SUBSET Wallets] /\ apart \subseteq Wallets
      /\ events \in 0..MaxEvents /\ ReaderInv(a) /\ SeenInv(a)
      /\ \A s \in Swaps : RowInv(s)
  BY DEF IInv, TableInv, BalanceInv, TypeOK, Observers
<1>2. UNCHANGED <<blockchain, chain, use, sync, events>> /\ held[a] # NotHeld /\ Drops(a)
  BY DEF AttachSave
<1>3. PICK w0 \in Wallets, tokens \in Nat : held[a].wallet = w0 /\ held[a].balance = tokens
  BY <1>1, <1>2 DEF ReaderInv
<1>4. a \in Observers /\ a \in Actors /\ a \notin Runs /\ a \notin Swaps
  BY ActorAssumption DEF Observers, Actors
<1>5. /\ held' \in [Actors -> Holdings] /\ held'[a] = NotHeld
      /\ \A b \in Actors \ {a} : Ages(b)
  BY <1>1, <1>2, <1>4, DropsEffect
<1>6. CASE wallet[w0] # NoRow
  <2>1. UNCHANGED <<wallet, apart>>
    BY <1>3, <1>6 DEF AttachSave
  <2>2. ReaderInv(a)' /\ SeenInv(a)'
    BY <1>5 DEF ReaderInv, SeenInv
  <2> QED
    BY <1>1, <1>2, <1>4, <1>5, <2>1, <2>2, ReadingStep
<1>7. CASE wallet[w0] = NoRow
  <2> DEFINE row == AttachedRow(blockchain, "transferer", tokens)
  <2>1. wallet' = [wallet EXCEPT ![w0] = row] /\ Settles(a)
    BY <1>3, <1>7 DEF AttachSave
  <2>2. row \in Row /\ row.balance = tokens
    BY DEF AttachedRow, Row, Types, Balances
  <2> HIDE DEF row
  <2>3. /\ apart' \subseteq Wallets
        /\ \A w \in Wallets \ {w0} : w \in apart => w \in apart'
        /\ held[a].stale => w0 \in apart'
    BY <1>1, <1>3, <2>1 DEF Settles
  <2>4. Credits(w0) = 0 /\ Charges(w0) = 0
    <3>1. ~InFlight(w0)
      BY <1>1, <1>7 DEF InFlight, Uncredited, Undebited, RowInv, At
    <3> QED
      BY <1>1, <3>1, NothingFlows
  <2>5. w0 \in apart' \/ tokens = chain[w0]
    <3>1. chain[w0] \in Nat
      BY <1>1 DEF TypeOK
    <3> QED
      BY <1>1, <1>2, <1>3, <2>3, <2>4, <3>1 DEF SeenInv
  <2>6. \A s \in Swaps : Ages(s)
    BY <1>4, <1>5 DEF Actors
  <2>7. \A b \in Observers : held'[b] = NotHeld \/ Ages(b)
    BY <1>5, ObserverIsActor
  <2>8. events' \in 0..MaxEvents
    BY <1>1, <1>2
  <2> QED
    BY <1>2, <1>5, <1>7, <2>1, <2>2, <2>3, <2>5, <2>6, <2>7, <2>8, NewRowStep
<1> QED
  BY <1>6, <1>7

LEMMA CreateWalletInv ==
  ASSUME IInv, NEW w0 \in Wallets, CreateWallet(w0)
  PROVE  IInv'
<1>1. TypeOK /\ apart \subseteq Wallets
  BY DEF IInv, TableInv, TypeOK
<1>2. /\ UNCHANGED <<blockchain, chain, use, sync, held>>
      /\ wallet[w0] = NoRow /\ apart' = apart \cup {w0}
  BY DEF CreateWallet
<1>3. events' \in 0..MaxEvents
  BY <1>1, EventCounted DEF CreateWallet
<1> DEFINE row == CreatedRow(blockchain, "transferer")
<1>4. wallet' = [wallet EXCEPT ![w0] = row] /\ row \in Row
  BY DEF CreateWallet, CreatedRow, Row, Types, Balances
<1>5. held' \in [Actors -> Holdings] /\ \A b \in Actors : Ages(b)
  BY <1>1, <1>2, UnchangedHoldings
<1>6. /\ apart' \subseteq Wallets /\ w0 \in apart' /\ apart \subseteq apart'
      /\ \A s \in Swaps : Ages(s)
      /\ \A a \in Observers : Ages(a)
  BY <1>1, <1>2, <1>5, ObserverIsActor DEF Actors
<1> HIDE DEF row
<1> QED
  BY <1>2, <1>3, <1>4, <1>5, <1>6, NewRowStep

LEMMA DetachWalletInv ==
  ASSUME IInv, NEW w0 \in Wallets, DetachWallet(w0)
  PROVE  IInv'
<1>1. TypeOK /\ TableOK
  BY DEF IInv, TableInv, TypeOK
<1>2. /\ UNCHANGED <<blockchain, chain, use, sync, held, apart>>
      /\ ~Referenced(w0) /\ wallet' = [wallet EXCEPT ![w0] = Deleted]
  BY DEF DetachWallet
<1>3. events' \in 0..MaxEvents
  BY <1>1, EventCounted DEF DetachWallet
<1>4. /\ TableOK' /\ wallet'[w0] = Deleted /\ ~Exists(w0)'
      /\ \A v \in Wallets \ {w0} : wallet'[v] = wallet[v]
      /\ wallet'[w0] # NoRow
  BY <1>1, <1>2 DEF TableOK, Exists, NoRow, Deleted
<1>5. \A s \in Swaps : use[s].wallet = w0 => use[s].stage \in Requested
  BY <1>2 DEF Referenced, Requested
<1>6. ASSUME NEW s \in Swaps
      PROVE  RowInv(s)' /\ HolderInv(s)'
  <2>1. RowInv(s) /\ HolderInv(s)
    BY DEF IInv, TableInv
  <2>2. HolderInv(s)'
    BY <1>2, <2>1 DEF HolderInv
  <2>3. CASE use[s].wallet = w0
    BY <1>2, <1>4, <1>5, <2>1, <2>2, <2>3 DEF RowInv, At, Requested
  <2>4. CASE use[s].wallet # w0
    BY <1>2, <1>4, <2>1, <2>2, <2>4 DEF RowInv, At, Requested, Exists
  <2> QED
    BY <2>3, <2>4
<1>7. ASSUME NEW a \in Observers
      PROVE  ReaderInv(a)'
  BY <1>2 DEF ReaderInv, IInv, TableInv
<1>8. ASSUME NEW r \in Runs
      PROVE  RunInv(r)'
  <2>1. RunInv(r) /\ ReaderInv(r) /\ sync[r] \subseteq Wallets
    BY <1>1 DEF IInv, TableInv, Observers, TypeOK
  <2> QED
    BY <1>2, <1>4, <2>1 DEF RunInv, ReaderInv
<1>9. TableInv'
  <2>1. TypeOK'
    BY <1>1, <1>2, <1>3, <1>4 DEF TypeOK, Actors
  <2> QED
    BY <1>6, <1>7, <1>8, <2>1 DEF TableInv
<1>10. \A w \in Wallets : Kept(w)
  BY <1>2, <1>9, IdleKept DEF IInv
<1>11. \A w \in Wallets : BalanceStays(w)
  BY <1>4 DEF BalanceStays, Exists
<1>12. \A b \in Actors : Ages(b)
  BY <1>1, <1>2, UnchangedHoldings
<1>13. BalanceInv'
  <2> DEFINE W == {}
  <2>1. /\ \A w \in Wallets \ W :
             BalanceStays(w) /\ Kept(w) /\ (w \in apart => w \in apart')
        /\ \A w \in W \cap Wallets : Exact(w)'
    BY <1>2, <1>10, <1>11
  <2>2. \A b \in Observers \cup Swaps : Ages(b)
    BY <1>12, ObserverIsActor DEF Actors
  <2> HIDE DEF W
  <2> QED
    BY <1>2, <1>9, <1>10, <1>11, <2>1, <2>2, BalanceStep DEF IInv
<1> QED
  BY <1>9, <1>13 DEF IInv

LEMMA MovesInv ==
  ASSUME IInv, NEW w, NEW v, Moves(w, v)
  PROVE  IInv'
<1>1. TypeOK /\ chain \in [Wallets -> Nat] /\ apart \subseteq Wallets
      /\ sync \in [Runs -> SUBSET Wallets]
  BY DEF IInv, TableInv, TypeOK
<1> DEFINE moved == {w, v} \cap Wallets
<1>2. UNCHANGED <<blockchain, wallet, use, sync>> /\ MovesAside(NoWallet, moved)
  BY DEF Moves
<1>3. events' \in 0..MaxEvents
  BY <1>1, EventCounted DEF Moves
<1>4. /\ chain' \in [Wallets -> Nat]
      /\ \A u \in Wallets \ moved : chain'[u] = chain[u]
  <2>1. w \in Wallets => chain[w] > 0
    BY DEF Moves
  <2>2. chain' = [u \in Wallets |->
          chain[u] - (IF u = w THEN 1 ELSE 0) + (IF u = v THEN 1 ELSE 0)]
    BY DEF Moves
  <2>3. ASSUME NEW u \in Wallets
        PROVE  chain'[u] \in Nat
    BY <1>1, <2>1, <2>2
  <2> QED
    BY <1>1, <2>2, <2>3
<1>5. RowsStay /\ \A u \in Wallets : BalanceStays(u)
  BY <1>1, <1>2, UnchangedTable
<1>6. moved \subseteq Wallets
  OBVIOUS
<1> HIDE DEF moved
<1>7. /\ held' \in [Actors -> Holdings]
      /\ NoWallet \in Actors => held'[NoWallet] = NotHeld
      /\ \A b \in Actors \ {NoWallet} :
           /\ Ages(b)
           /\ b \notin Swaps /\ held[b].wallet \in moved => held'[b].stale
      /\ apart' = apart \cup moved
  BY <1>1, <1>2, <1>6, MovesAsideEffect
<1>8. /\ \A s \in Swaps : Ages(s)
      /\ \A a \in Observers : Ages(a) /\ (held[a].wallet \in moved => held'[a].stale)
  BY <1>7, ActorAssumption DEF Actors, Observers
<1>9. TableInv'
  <2>1. \A b \in Observers : ReaderInv(b)'
    BY <1>8, ReaderInvStays DEF IInv, TableInv
  <2>2. ASSUME NEW r \in Runs
        PROVE  RunInv(r)'
    <3>1. sync'[r] \subseteq sync[r] /\ ReaderInv(r) /\ RunInv(r) /\ Ages(r)
      BY <1>2, <1>8 DEF IInv, TableInv, Observers
    <3> QED
      BY <1>1, <1>5, <3>1, RunInvStays
  <2>3. sync' \in [Runs -> SUBSET Wallets] /\ apart' \subseteq Wallets
    BY <1>1, <1>2, <1>6, <1>7
  <2> QED
    BY <1>2, <1>3, <1>4, <1>5, <1>7, <1>8, <2>1, <2>2, <2>3, ObserverStepTable DEF IInv
<1>10. \A u \in Wallets \ moved : Kept(u)
  BY <1>2, <1>4, <1>9, IdleKept DEF IInv
<1>11. BalanceInv'
  <2>1. \A u \in Wallets \ moved :
          BalanceStays(u) /\ Kept(u) /\ (u \in apart => u \in apart')
    BY <1>5, <1>7, <1>10
  <2>2. \A u \in moved \cap Wallets : Exact(u)'
    BY <1>7 DEF Exact
  <2>3. ASSUME NEW a \in Observers
        PROVE  /\ Ages(a)
               /\ \A u \in Wallets : held[a].wallet = u => Kept(u) \/ held'[a].stale
    BY <1>8, <1>10
  <2>4. \A t \in Swaps : use'[t] = use[t]
    BY <1>2
  <2> QED
    BY <1>5, <1>8, <1>9, <2>1, <2>2, <2>3, <2>4, BalanceStep DEF IInv
<1> QED
  BY <1>9, <1>11 DEF IInv

-----------------------------------------------------------------------------
(* The process dies.                                                         *)

\* What the restart makes of a swap.
LEMMA RestartedSwap ==
  ASSUME TypeOK, Crash, NEW s \in Swaps
  PROVE  /\ use'[s].stage = Restarted(s)
         /\ use'[s].wallet = use[s].wallet /\ use'[s].paid = use[s].paid
         /\ use'[s].debits = use[s].debits
         /\ use'[s] \in Uses
         /\ use'[s].stage \notin Holding
<1>1. use[s] \in Uses
  BY DEF TypeOK, Uses
<1> DEFINE stage == Restarted(s)
<1>2. stage \in Stages
  BY <1>1 DEF Restarted, Uses, Stages
<1>3. stage \notin Holding
  BY DEF Restarted, Holding
<1>4. use'[s] = [use[s] EXCEPT !.stage = stage]
  BY DEF Crash
<1> HIDE DEF stage
<1>5. /\ use'[s].stage = stage
      /\ use'[s].wallet = use[s].wallet /\ use'[s].paid = use[s].paid
      /\ use'[s].debits = use[s].debits
      /\ use'[s] \in Uses
  BY <1>1, <1>2, <1>4 DEF Uses
<1> QED
  BY <1>3, <1>5 DEF stage

\* A swap that does nothing twice is counted as before.
LEMMA RestartedFlow ==
  ASSUME TypeOK, Crash, NEW s \in Swaps, RowInv(s), ~Repeats(s)
  PROVE  (Uncredited(s)' <=> Uncredited(s)) /\ (Undebited(s)' <=> Undebited(s))
<1>1. /\ use'[s].stage = Restarted(s) /\ use'[s].paid = use[s].paid
  BY RestartedSwap
<1>2. blockchain \in {"ethereum", "ton"} /\ use[s].stage \in Stages
  BY DEF TypeOK, Blockchains
<1>3. At(s, "send") => blockchain = "ethereum"
  BY DEF RowInv
<1> QED
  BY <1>1, <1>2, <1>3 DEF Restarted, Repeats, At, Uncredited, Undebited, Stages

LEMMA CrashInv ==
  ASSUME IInv, Crash
  PROVE  IInv'
<1>1. TypeOK /\ TableOK
  BY DEF IInv, TableInv, TypeOK
<1>2. /\ UNCHANGED <<blockchain, wallet, chain>>
      /\ sync' = [r \in Runs |-> {}]
      /\ held' = [a \in Actors |-> NotHeld]
      /\ apart' = apart \cup {use[s].wallet : s \in {t \in Swaps : Repeats(t)}}
      /\ use' = [s \in Swaps |-> [use[s] EXCEPT !.stage = Restarted(s)]]
  BY DEF Crash
<1>3. events' \in 0..MaxEvents
  BY <1>1, EventCounted DEF Crash
<1>4. \A s \in Swaps : Repeats(s) => use[s].wallet \in Wallets
  BY DEF Repeats, At, IInv, TableInv, RowInv
<1>5. apart' \subseteq Wallets
  BY <1>1, <1>2, <1>4 DEF TypeOK
<1>6. use' \in [Swaps -> Uses]
  BY <1>2, RestartedSwap, <1>1
<1>7. TypeOK'
  BY <1>1, <1>2, <1>3, <1>5, <1>6, NotHeldTyped DEF TypeOK, Uses, Holdings, TableOK
<1>8. ASSUME NEW s \in Swaps
      PROVE  RowInv(s)' /\ HolderInv(s)' /\ HoldInv(s)'
  <2>1. RowInv(s)
    BY DEF IInv, TableInv
  <2>2. /\ use'[s].stage = Restarted(s)
        /\ use'[s].wallet = use[s].wallet /\ use'[s].paid = use[s].paid
        /\ use'[s].debits = use[s].debits
        /\ use'[s].stage \notin Holding
    BY <1>1, RestartedSwap
  <2>3. /\ Restarted(s) = "none" <=> use[s].stage = "none"
        /\ Restarted(s) \in Requested <=> use[s].stage \in Requested
        /\ Restarted(s) \in {"debit", "send", "sent", "write", "debited"} =>
             use[s].stage \in {"debit", "send", "sent", "write", "debited"}
        /\ Restarted(s) # "send"
    BY DEF Restarted, Requested
  <2>4. RowInv(s)'
    BY <1>2, <2>1, <2>2, <2>3 DEF RowInv, At, Exists
  <2> QED
    BY <2>2, <2>4 DEF HolderInv, HoldInv
<1>9. ASSUME NEW a \in Observers
      PROVE  ReaderInv(a)' /\ SeenInv(a)'
  <2>1. held'[a] = NotHeld
    BY <1>2, ObserverIsActor
  <2> QED
    BY <2>1 DEF ReaderInv, SeenInv
<1>10. ASSUME NEW r \in Runs
       PROVE  RunInv(r)'
  <2>1. held'[r] = NotHeld /\ sync'[r] = {}
    BY <1>2 DEF Actors
  <2> QED
    BY <2>1 DEF RunInv
<1>11. TableInv'
  BY <1>7, <1>8, <1>9, <1>10 DEF TableInv
<1>12. ASSUME NEW w \in Wallets, w \notin apart'
       PROVE  Kept(w)
  <2>1. \A s \in Swaps : use[s].wallet = w => ~Repeats(s)
    BY <1>2, <1>12
  <2>2. \A s \in Swaps :
          /\ s \in UncreditedOf(w)' <=> s \in UncreditedOf(w)
          /\ s \in UndebitedOf(w)' <=> s \in UndebitedOf(w)
    <3> SUFFICES ASSUME NEW s \in Swaps
                 PROVE  /\ s \in UncreditedOf(w)' <=> s \in UncreditedOf(w)
                        /\ s \in UndebitedOf(w)' <=> s \in UndebitedOf(w)
      OBVIOUS
    <3>1. use'[s].wallet = use[s].wallet
      BY <1>1, RestartedSwap
    <3>2. CASE use[s].wallet = w
      <4>1. RowInv(s) /\ ~Repeats(s)
        BY <2>1, <3>2 DEF IInv, TableInv
      <4> QED
        BY <1>1, <3>1, <4>1, RestartedFlow, FlowStays
    <3>3. CASE use[s].wallet # w
      BY <3>1, <3>3 DEF UncreditedOf, UndebitedOf, Of
    <3> QED
      BY <3>2, <3>3
  <2>3. /\ UncreditedOf(w) \subseteq Swaps /\ UncreditedOf(w)' \subseteq Swaps
        /\ UndebitedOf(w) \subseteq Swaps /\ UndebitedOf(w)' \subseteq Swaps
    BY DEF UncreditedOf, UndebitedOf, Of
  <2>4. UncreditedOf(w)' = UncreditedOf(w) /\ UndebitedOf(w)' = UndebitedOf(w)
    BY <2>2, <2>3
  <2>5. \A s \in UndebitedOf(w) : use'[s].debits = use[s].debits
    BY <1>1, <2>3, RestartedSwap
  <2>6. Credits(w)' = Credits(w) /\ Charges(w)' = Charges(w)
    BY <2>4, <2>5, FlowSame
  <2> QED
    BY <1>2, <1>11, <2>6, SumsTyped DEF Kept, IInv
<1>13. BalanceInv'
  <2> DEFINE W == apart'
  <2>1. \A w \in Wallets \ W : BalanceStays(w) /\ Kept(w) /\ (w \in apart => w \in apart')
    BY <1>2, <1>12 DEF BalanceStays, Exists
  <2>2. \A w \in W \cap Wallets : Exact(w)'
    BY DEF Exact
  <2> HIDE DEF W
  <2> QED
    BY <1>8, <1>9, <1>11, <2>1, <2>2, BalanceStep DEF IInv
<1> QED
  BY <1>11, <1>13 DEF IInv

-----------------------------------------------------------------------------
(* The theorems.                                                             *)

LEMMA InitInv == Init => IInv
<1> SUFFICES ASSUME Init
             PROVE  IInv
  OBVIOUS
<1>1. /\ use = [s \in Swaps |-> NoUse] /\ sync = [r \in Runs |-> {}]
      /\ held = [a \in Actors |-> NotHeld] /\ apart = {} /\ events = 0
      /\ blockchain \in Blockchains /\ chain \in [Wallets -> Nat]
  BY AmountAssumption DEF Init
<1>2. PICK attached \in SUBSET Wallets :
        wallet = [w \in Wallets |-> IF w \in attached
                                    THEN AttachedRow(blockchain, "transferer", chain[w])
                                    ELSE NoRow]
  BY DEF Init
<1>3. ASSUME NEW w \in Wallets
      PROVE  /\ w \in attached => wallet[w] \in Row /\ wallet[w].balance = chain[w]
             /\ w \notin attached => wallet[w] = NoRow
  BY <1>1, <1>2 DEF AttachedRow, Row, Types, Balances
<1>4. TypeOK
  <2>1. TableOK
    BY <1>2, <1>3 DEF TableOK
  <2>2. NoUse \in Uses
    BY DEF NoUse, Uses, Stages
  <2>3. /\ use \in [Swaps -> Uses] /\ held \in [Actors -> Holdings]
        /\ sync \in [Runs -> SUBSET Wallets]
        /\ events \in 0..MaxEvents /\ apart \subseteq Wallets
    BY <1>1, <2>2, NotHeldTyped, BoundAssumption
  <2> QED
    BY <1>1, <2>1, <2>3 DEF TypeOK, Uses, Holdings
<1>5. \A s \in Swaps : RowInv(s) /\ HolderInv(s) /\ HoldInv(s)
  BY <1>1 DEF NoUse, RowInv, HolderInv, HoldInv, At, Requested, Holding
<1>6. \A a \in Observers : ReaderInv(a) /\ SeenInv(a)
  BY <1>1, ObserverIsActor DEF ReaderInv, SeenInv
<1>7. \A r \in Runs : RunInv(r)
  BY <1>1 DEF RunInv, Actors
<1>8. ASSUME NEW w \in Wallets
      PROVE  Exact(w)
  <2>1. ~InFlight(w)
    BY <1>1 DEF InFlight, Uncredited, Undebited, NoUse
  <2>2. Credits(w) = 0 /\ Charges(w) = 0
    BY <1>4, <1>5, <2>1, NothingFlows
  <2>3. Exists(w) => wallet[w].balance = chain[w]
    BY <1>3 DEF Exists
  <2> QED
    BY <1>1, <2>2, <2>3 DEF Exact
<1> QED
  BY <1>4, <1>5, <1>6, <1>7, <1>8 DEF IInv, TableInv, BalanceInv

LEMMA UnchangedInv ==
  ASSUME IInv, UNCHANGED vars
  PROVE  IInv'
<1>1. UNCHANGED <<blockchain, wallet, chain, use, sync, held, apart, events>>
  BY DEF vars
<1>2. TypeOK'
  BY <1>1 DEF IInv, TableInv, TypeOK, TableOK
<1>3. RowsStay /\ \A w \in Wallets : BalanceStays(w)
  BY <1>1, UnchangedTable DEF IInv, TableInv
<1>4. \A b \in Actors : Ages(b)
  BY <1>1, UnchangedHoldings DEF IInv, TableInv
<1>5. ASSUME NEW s \in Swaps
      PROVE  RowInv(s)' /\ HolderInv(s)'
  BY <1>1, <1>3, RowInvStays DEF IInv, TableInv, HolderInv
<1>6. \A a \in Observers : ReaderInv(a)' /\ Ages(a)
  BY <1>4, ObserverIsActor, ReaderInvStays DEF IInv, TableInv
<1>7. ASSUME NEW r \in Runs
      PROVE  RunInv(r)'
  BY <1>1, <1>3, <1>6, RunInvStays DEF IInv, TableInv, Observers
<1>8. TableInv'
  BY <1>2, <1>5, <1>6, <1>7 DEF TableInv
<1>9. \A w \in Wallets : Kept(w)
  BY <1>1, <1>8, IdleKept DEF IInv
<1>10. BalanceInv'
  <2> DEFINE W == {}
  <2>1. /\ \A w \in Wallets \ W :
             BalanceStays(w) /\ Kept(w) /\ (w \in apart => w \in apart')
        /\ \A w \in W \cap Wallets : Exact(w)'
    BY <1>1, <1>3, <1>9
  <2>2. \A t \in Swaps : use'[t] = use[t] /\ Ages(t)
    BY <1>1, <1>4 DEF Actors
  <2> HIDE DEF W
  <2> QED
    BY <1>3, <1>6, <1>8, <1>9, <2>1, <2>2, BalanceStep DEF IInv
<1> QED
  BY <1>8, <1>10 DEF IInv

LEMMA NextInv == IInv /\ [Next]_vars => IInv'
<1> SUFFICES ASSUME IInv, [Next]_vars
             PROVE  IInv'
  OBVIOUS
<1>1. ASSUME NEW s \in Swaps, Swap(s)
      PROVE  IInv'
  BY <1>1, PickWalletInv, MarkWalletInv, InsertSwapInv, PayInv, CreditReadInv, CreditMissInv,
     CreditWriteInv, ReturnInv, DebitReadInv, DebitSendInv, DebitWriteInv, DebitThrowsInv,
     ReleaseInv, CloseInv, GiveUpInv
     DEF Swap, Handler
<1>2. ASSUME NEW r \in Runs, Sync(r)
      PROVE  IInv'
  BY <1>2, SyncStartInv, SyncReadInv, SyncMissInv, SyncWriteInv DEF Sync
<1>3. ASSUME Administration
      PROVE  IInv'
  BY <1>3, AttachReadInv, AttachSaveInv, CreateWalletInv, DetachWalletInv, UpdateWalletInv,
     MovesInv
     DEF Administration, TransferTokens, TransferJettons, BurnJettons, MintJettons
<1>4. CASE Crash
  BY <1>4, CrashInv
<1>5. CASE UNCHANGED vars
  BY <1>5, UnchangedInv
<1> QED
  BY <1>1, <1>2, <1>3, <1>4, <1>5 DEF Next

\* Every variable keeps its type.
THEOREM TypesHold == Spec => []TypeOK
<1>1. IInv => TypeOK
  BY DEF IInv, TableInv
<1> QED
  BY <1>1, InitInv, NextInv, PTL DEF Spec

\* The balance of the table plus what swaps have received and not credited, less what
\* they have taken away and not debited, is what the address has, unless a read and its
\* write were overtaken: for any number of swaps, wallets, runs of the sync task and
\* administrators, whatever the amounts.
THEOREM BalancesAreExact == Spec => []ExactUnlessOvertaken
<1>1. IInv => ExactUnlessOvertaken
  BY DEF IInv, BalanceInv, Exact, ExactUnlessOvertaken
<1> QED
  BY <1>1, InitInv, NextInv, PTL DEF Spec

\* The wallet a swap waits to be paid at is not detached under it.
THEOREM WalletsAreKept == Spec => []SwapsKeepTheirWallet
<1>1. IInv => SwapsKeepTheirWallet
  BY DEF IInv, TableInv, RowInv, Referenced, Requested, SwapsKeepTheirWallet
<1> QED
  BY <1>1, InitInv, NextInv, PTL DEF Spec
=============================================================================
