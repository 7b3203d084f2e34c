---------------------------- MODULE TokenCatalogue ----------------------------
(* The table of tokens: TokensController, with which administrators register *)
(* and edit tokens, and SyncTokensPriceTask, which prices them once a day and *)
(* on request.  Nothing keeps requests or runs of the task apart.            *)
(*                                                                           *)
(* Of the columns of a token it has the address (a pair of blockchain and    *)
(* address), the rank its blockchain and name give it in findAll, decimals,  *)
(* currency (coinmarketcapId) and price; a price is named by the currency    *)
(* coinmarketcap quoted it for.  The others are written as the rank is.      *)
EXTENDS Naturals

CONSTANTS Ids, TokenAddresses, Ranks, Decimals,
          Currencies,   \* coinmarketcapIds administrators may write
          Listed,       \* those that coinmarketcap has a price of
          Admins,       \* requests there may be at a time
          Runs,         \* runs of the task there may be at a time
          None,         \* NULL in a column, and a key the body does not name
          MaxEdits,     \* bound: requests
          MaxFailures   \* bound: calls that fail

ASSUME TokenAssumption ==
  /\ Ranks \subseteq Nat /\ Decimals \subseteq Nat \ {0}
  /\ Listed \subseteq Currencies
  /\ None \notin TokenAddresses \cup Decimals \cup Currencies \cup Ranks
  /\ MaxEdits \in Nat /\ MaxFailures \in Nat

VARIABLES
  token,     \* the table
  writing,   \* the write each request is about to make
  task,      \* what each run has of findAll, and the price it is to write
  edits,     \* bound
  failures   \* bound

tokenVars == <<token, writing, task, edits, failures>>

Optional(set) == set \cup {None}

TokenRows == [address : TokenAddresses, rank : Ranks, decimals : Decimals,
              currency : Optional(Currencies),
              price : Optional(Currencies \cup {"byHand"})]
NoToken == [address |-> None]
Exists(id) == token[id] # NoToken

\* Bodies of POST and PUT; each has the columns it can name.
Created == [address : TokenAddresses, rank : Ranks, decimals : Decimals,
            currency : Optional(Currencies)]
Updated == [rank : Optional(Ranks), decimals : Optional(Decimals),
            currency : Optional(Currencies), price : {None, "byHand"}]

NoWrite == [op |-> "idle"]
IdleTask == [stage |-> "idle"]

TokenInit ==
  /\ token = [id \in Ids |-> NoToken]
  /\ writing = [a \in Admins |-> NoWrite]
  /\ task = [r \in Runs |-> IdleTask]
  /\ edits = 0 /\ failures = 0

Fault == failures < MaxFailures /\ failures' = failures + 1

-----------------------------------------------------------------------------
(* POST and PUT /tokens                                                      *)

\* Keys that are undefined are not written: neither by update nor by TypeORM's save.
Patched(row, body) ==
  [column \in DOMAIN row |->
     IF column \in DOMAIN body /\ body[column] # None THEN body[column] ELSE row[column]]

\* createToken finds no token of the blockchain and address.  The id is the client's.
CreateFind(a) ==
  /\ writing[a] = NoWrite /\ edits < MaxEdits
  /\ \E id \in Ids, body \in Created :
       /\ \A other \in Ids : token[other].address # body.address
       /\ writing' = [writing EXCEPT ![a] = [op |-> "create", id |-> id, body |-> body]]
  /\ edits' = edits + 1
  /\ UNCHANGED <<token, task, failures>>

\* Mutant: the table has no unique index.
NeverTaken(id, address) == FALSE

\* blockchain_address_unique: another token has the address.
Taken(id, address) == \E other \in Ids \ {id} : token[other].address = address

\* save() inserts a row when the id is new, and otherwise updates the row that has
\* it; the index makes it throw.
CreateSave(a) ==
  /\ writing[a].op = "create"
  /\ LET id == writing[a].id
         body == writing[a].body
         row == [address |-> body.address, rank |-> body.rank,
                 decimals |-> body.decimals, currency |-> body.currency, price |-> None]
     IN  IF Taken(id, body.address) THEN UNCHANGED token
         ELSE token' = [token EXCEPT ![id] = IF Exists(id) THEN Patched(@, body) ELSE row]
  /\ writing' = [writing EXCEPT ![a] = NoWrite]
  /\ UNCHANGED <<task, edits, failures>>

\* The decimals of the body, or those of the row as read.
WithDecimals(id, body) ==
  IF body.decimals = None THEN [body EXCEPT !.decimals = token[id].decimals] ELSE body

\* updateToken finds the row, and takes its decimals for those not asked for.
UpdateRead(a) ==
  /\ writing[a] = NoWrite /\ edits < MaxEdits
  /\ \E id \in Ids, body \in Updated :
       /\ Exists(id)
       /\ writing' = [writing EXCEPT ![a] =
            [op |-> "update", id |-> id, body |-> WithDecimals(id, body)]]
  /\ edits' = edits + 1
  /\ UNCHANGED <<token, task, failures>>

UpdateWrite(a) ==
  /\ writing[a].op = "update"
  /\ token' = [token EXCEPT ![writing[a].id] = Patched(@, writing[a].body)]
  /\ writing' = [writing EXCEPT ![a] = NoWrite]
  /\ UNCHANGED <<task, edits, failures>>

\* The query of a request fails, and with it the request.
RequestFails(a) ==
  /\ writing[a] # NoWrite /\ Fault
  /\ writing' = [writing EXCEPT ![a] = NoWrite]
  /\ UNCHANGED <<token, task, edits>>

-----------------------------------------------------------------------------
(* SyncTokensPriceTask                                                       *)

RunBegins(r) ==
  /\ task[r] = IdleTask
  /\ \E id \in Ids : Exists(id)
  /\ task' = [task EXCEPT ![r] =
       [stage |-> "quote",
        rest |-> {[id |-> id, rank |-> token[id].rank, currency |-> token[id].currency] :
                    id \in {i \in Ids : Exists(i)}}]]
  /\ UNCHANGED <<token, writing, edits, failures>>

\* Mutant: the ones without a currency are not skipped.
DueWithout(rest) == {t \in rest : \A u \in rest : t.rank <= u.rank}

\* The tokens that may be next: those without a currency are skipped.
Due(rest) ==
  LET priced == {t \in rest : t.currency # None}
  IN  {t \in priced : \A u \in priced : t.rank <= u.rank}

\* getQuotePrice answers with a price if coinmarketcap has one.
Quote(r) ==
  /\ task[r].stage = "quote"
  /\ \E t \in Due(task[r].rest) :
       /\ t.currency \in Listed
       /\ task' = [task EXCEPT ![r] =
            [stage |-> "write", id |-> t.id, price |-> t.currency,
             rest |-> task[r].rest \ {t}]]
  /\ UNCHANGED <<token, writing, edits, failures>>

\* Otherwise it throws, and the run is over for the other tokens too.
QuoteFails(r) ==
  /\ task[r].stage = "quote"
  /\ \E t \in Due(task[r].rest) : t.currency \notin Listed
  /\ task' = [task EXCEPT ![r] = IdleTask]
  /\ UNCHANGED <<token, writing, edits, failures>>

\* The price is all that is written, to whatever the row has become.
WritePrice(r) ==
  /\ task[r].stage = "write"
  /\ token' = [token EXCEPT ![task[r].id].price = task[r].price]
  /\ task' = [task EXCEPT ![r] = [stage |-> "quote", rest |-> task[r].rest]]
  /\ UNCHANGED <<writing, edits, failures>>

RunEnds(r) ==
  /\ task[r].stage = "quote" /\ Due(task[r].rest) = {}
  /\ task' = [task EXCEPT ![r] = IdleTask]
  /\ UNCHANGED <<token, writing, edits, failures>>

\* An error of the network or of the database, caught by run(), or a crash.
RunFails(r) ==
  /\ task[r] # IdleTask /\ Fault
  /\ task' = [task EXCEPT ![r] = IdleTask]
  /\ UNCHANGED <<token, writing, edits>>

-----------------------------------------------------------------------------
RunStep(r) == Quote(r) \/ QuoteFails(r) \/ WritePrice(r) \/ RunEnds(r)
Write(a) == CreateSave(a) \/ UpdateWrite(a)

TokenNext ==
  \/ \E a \in Admins : CreateFind(a) \/ UpdateRead(a) \/ Write(a) \/ RequestFails(a)
  \/ \E r \in Runs : RunBegins(r) \/ RunStep(r) \/ RunFails(r)

TokenSpec == TokenInit /\ [][TokenNext]_tokenVars

\* The cron calls the task again and again, and requests are answered.
FairTokenSpec ==
  /\ TokenSpec
  /\ \A a \in Admins : WF_tokenVars(Write(a))
  /\ \A r \in Runs : WF_tokenVars(RunBegins(r)) /\ WF_tokenVars(RunStep(r))

-----------------------------------------------------------------------------
(* Properties.                                                               *)

Writes ==
  {NoWrite}
    \cup [op : {"create"}, id : Ids, body : Created]
    \cup [op : {"update"}, id : Ids, body : Updated]

\* What findAll returns of a row.
Reads == [id : Ids, rank : Ranks, currency : Optional(Currencies)]
Tasks ==
  {IdleTask}
    \cup [stage : {"quote"}, rest : SUBSET Reads]
    \cup [stage : {"write"}, id : Ids, price : Currencies, rest : SUBSET Reads]

\* Every column of a row keeps its kind; a body that leaves columns out makes none
\* of them NULL.
TokensOK ==
  /\ token \in [Ids -> TokenRows \cup {NoToken}]
  /\ writing \in [Admins -> Writes]
  /\ task \in [Runs -> Tasks]
  /\ edits \in 0..MaxEdits /\ failures \in 0..MaxFailures

\* createSwap looks a token up by id and the wallets by token: two rows never stand
\* for one token, although createToken looks for the address before an await.
AddressesAreUnique ==
  \A id, other \in Ids :
    Exists(id) /\ id # other => token[id].address # token[other].address

\* Nothing the task meets before the token makes it throw.
Reached(id) ==
  \A other \in Ids :
    /\ Exists(other) /\ token[other].currency # None
    /\ token[other].rank <= token[id].rank
    => token[other].currency \in Listed

\* One coinmarketcapId that is not listed stops a run for all tokens after it.  The
\* others have the price of their own currency in the end, whatever an overlapping
\* run wrote for the currency of before.
PricesArrive ==
  <>[](\A id \in Ids :
         Exists(id) /\ token[id].currency # None /\ Reached(id)
           => token[id].price = token[id].currency)
-----------------------------------------------------------------------------
(* What the writes rest on: rows are never deleted, so that an id read       *)
(* before an await still is that of a row.                                   *)

RowsStay ==
  /\ \A a \in Admins : writing[a].op = "update" => Exists(writing[a].id)
  /\ \A r \in Runs :
       /\ task[r].stage = "write" => Exists(task[r].id)
       /\ task[r].stage # "idle" => \A t \in task[r].rest : Exists(t.id)

TokenInv == TokensOK /\ AddressesAreUnique /\ RowsStay
=============================================================================
