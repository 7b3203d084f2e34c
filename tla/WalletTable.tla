----------------------------- MODULE WalletTable -----------------------------
(* The wallet table as WalletsRepository reads and writes it: the rows of    *)
(* one blockchain, since every query that a handler or a task makes names    *)
(* one.                                                                      *)
(*                                                                           *)
(* A balance is a number, NULL while nobody has written it, or NaN, which    *)
(* Quantity makes of a value that is missing and which the numeric column    *)
(* takes: PostgreSQL holds NaN to be above every number, so that             *)
(* "balance" >= 0 admits it.                                                 *)
EXTENDS Integers, Sequences, FiniteSets

CONSTANTS Wallets,      \* addresses that wallets may have, once each
          Null,         \* the column is NULL
          NaN           \* the column is NaN

ASSUME BalanceAssumption == Null # NaN /\ {Null, NaN} \cap Int = {}

VARIABLE wallet         \* the wallet table, by address

Blockchains == {"ethereum", "ton"}
Types == {"transferer", "collector", "minter", "giver"}
Balances == Nat \cup {Null, NaN}

\* The columns others than keys; hasConjugated says that the address of the
\* jetton wallet is there.
Row == [type : Types, balance : Balances, hasConjugated : BOOLEAN,
        deployed : BOOLEAN, inUse : BOOLEAN, disabled : BOOLEAN]

\* What a column takes.
Columns == {"type", "balance", "hasConjugated", "deployed", "inUse", "disabled"}
Entries(column) ==
  CASE column = "type" -> Types
    [] column = "balance" -> Balances
    [] OTHER -> BOOLEAN

\* No row has the address yet, or the row was deleted.
NoRow == [type |-> "none"]
Deleted == [type |-> "deleted"]
Exists(w) == wallet[w] \notin {NoRow, Deleted}

-----------------------------------------------------------------------------
(* Numbers that may be missing.                                              *)

\* new BigNumber(balance).plus(amount), of a balance that may be null.
Plus(balance, amount) ==
  IF balance \in {Null, NaN} THEN NaN ELSE balance + amount

\* What the CHECK of the column lets in.
Admitted(balance) == balance \in Balances

\* MoreThanOrEqual(minBalance) in SQL: not of NULL, always of NaN.
AtLeast(balance, min) == balance # Null /\ (balance = NaN \/ balance >= min)

\* ORDER BY balance ASC: NaN after the numbers, NULL at the end.
Before(a, b) ==
  \/ b = Null /\ a # Null
  \/ b = NaN /\ a \notin {Null, NaN}
  \/ {a, b} \cap {Null, NaN} = {} /\ a < b

-----------------------------------------------------------------------------
(* Queries.  A filter is a record with the columns it names.                 *)

Satisfies(row, column, value) ==
  IF column = "minBalance" THEN AtLeast(row.balance, value)
                           ELSE row[column] = value

\* findAll
FindAll(where) ==
  {w \in Wallets : /\ Exists(w)
                   /\ \A c \in DOMAIN where : Satisfies(wallet[w], c, where[c])}

\* The jetton wallet is asked for in TON only.
MayServe(blockchain, w) == blockchain = "ton" => wallet[w].hasConjugated

\* findBestMatchedOne: any row the order leaves first.
BestMatched(blockchain, where) ==
  LET fit == {w \in FindAll(where) : ~wallet[w].disabled /\ MayServe(blockchain, w)}
  IN  {w \in fit : \A v \in fit : ~Before(wallet[v].balance, wallet[w].balance)}

-----------------------------------------------------------------------------
(* Writes.                                                                   *)

\* The row WalletsRepository.create saves: its balance is left out, and a wallet
\* of TON has yet to be deployed.
CreatedRow(blockchain, type) ==
  [type |-> type, balance |-> Null, hasConjugated |-> blockchain = "ton",
   deployed |-> blockchain = "ethereum", inUse |-> FALSE, disabled |-> FALSE]

\* The row WalletsRepository.attach saves.
AttachedRow(blockchain, type, balance) ==
  [type |-> type, balance |-> balance, hasConjugated |-> blockchain = "ton",
   deployed |-> TRUE, inUse |-> FALSE, disabled |-> FALSE]

\* update(id, columns) writes the columns it is given, and nothing once the row
\* is deleted.
Updated(w, columns) ==
  [c \in DOMAIN wallet[w] |->
     IF Exists(w) /\ c \in DOMAIN columns THEN columns[c] ELSE wallet[w][c]]

Update(w, columns) == wallet' = [wallet EXCEPT ![w] = Updated(w, columns)]

TableOK == wallet \in [Wallets -> Row \cup {NoRow, Deleted}]
=============================================================================
