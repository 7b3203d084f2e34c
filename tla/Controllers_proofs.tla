------------------------- MODULE Controllers_proofs --------------------------
(* The controllers that look before an await and write after it: createSwap  *)
(* gets past the limit of an address by no more swaps than there are requests*)
(* at a time, and createToken never makes two rows of one token.             *)
EXTENDS SwapRequests, TokenCatalogue, FiniteSetTheorems, TLAPS

-----------------------------------------------------------------------------
(* Cardinalities.                                                            *)

\* A set that grows by nothing, or by one element.
LEMMA AtMostOneMore ==
  ASSUME NEW S, NEW T, NEW x, IsFiniteSet(T), S \subseteq T \cup {x}
  PROVE  Cardinality(S) <= Cardinality(T) + 1
<1>1. IsFiniteSet(T \cup {x})
  BY FS_AddElement
<1>2. \/ Cardinality(T \cup {x}) = Cardinality(T)
      \/ Cardinality(T \cup {x}) = Cardinality(T) + 1
  BY FS_AddElement
<1>3. Cardinality(S) <= Cardinality(T \cup {x}) /\ IsFiniteSet(S)
  BY <1>1, FS_Subset
<1>4. Cardinality(S) \in Nat /\ Cardinality(T) \in Nat
  BY <1>3, FS_CardinalityType
<1> QED BY <1>2, <1>3, <1>4

\* What loses an element has one less.
LEMMA OneLess ==
  ASSUME NEW S, NEW T, NEW x, IsFiniteSet(T), x \in T, S \subseteq T \ {x}
  PROVE  Cardinality(S) + 1 <= Cardinality(T)
<1>1. IsFiniteSet(T \ {x}) /\ Cardinality(T \ {x}) = Cardinality(T) - 1
  BY FS_RemoveElement
<1>2. Cardinality(S) <= Cardinality(T \ {x}) /\ IsFiniteSet(S)
  BY <1>1, FS_Subset
<1>3. Cardinality(S) \in Nat /\ Cardinality(T) \in Nat
  BY <1>2, FS_CardinalityType
<1> QED BY <1>1, <1>2, <1>3

\* The pending swaps of an address, and its requests at work, are finitely many.
LEMMA AreFinite ==
  /\ Cardinality(Clients) \in Nat
  /\ \A ip : /\ IsFiniteSet(PendingOf(ip)) /\ Cardinality(PendingOf(ip)) \in Nat
             /\ IsFiniteSet(Admitted(ip)) /\ Cardinality(Admitted(ip)) \in Nat
             /\ Cardinality(Admitted(ip)) <= Cardinality(Clients)
<1>1. \A ip : PendingOf(ip) \subseteq Swaps /\ Admitted(ip) \subseteq Clients
  BY DEF PendingOf, Admitted
<1> QED BY <1>1, FS_Subset, FS_CardinalityType, FiniteAssumption

\* The same after a step.
LEMMA AreFiniteNext ==
  \A ip : /\ IsFiniteSet(PendingOf(ip)') /\ Cardinality(PendingOf(ip)') \in Nat
          /\ IsFiniteSet(Admitted(ip)') /\ Cardinality(Admitted(ip)') \in Nat
          /\ Cardinality(Admitted(ip)') <= Cardinality(Clients)
<1>1. \A ip : PendingOf(ip)' \subseteq Swaps /\ Admitted(ip)' \subseteq Clients
  BY DEF PendingOf, Admitted
<1> QED BY <1>1, FS_Subset, FS_CardinalityType, FiniteAssumption

\* A step that adds neither a pending swap nor a request keeps within the bound.
LEMMA NothingMore ==
  ASSUME AdmittedAreFew,
         \A ip \in Addresses : /\ PendingOf(ip)' \subseteq PendingOf(ip)
                               /\ Admitted(ip)' \subseteq Admitted(ip)
  PROVE  AdmittedAreFew'
<1> SUFFICES ASSUME NEW ip \in Addresses
             PROVE  Cardinality(PendingOf(ip)') + Cardinality(Admitted(ip)')
                      <= Limit + Cardinality(Clients)
  BY DEF AdmittedAreFew
<1>1. /\ Cardinality(PendingOf(ip)') <= Cardinality(PendingOf(ip))
      /\ Cardinality(Admitted(ip)') <= Cardinality(Admitted(ip))
  BY AreFinite, FS_Subset
<1>2. Cardinality(PendingOf(ip)) + Cardinality(Admitted(ip)) <= Limit + Cardinality(Clients)
  BY DEF AdmittedAreFew
<1> QED BY <1>1, <1>2, AreFinite, AreFiniteNext, LimitAssumption

-----------------------------------------------------------------------------
(* The inductive invariant, one lemma per action.                            *)

\* A request that adds a job has its row.
RowsOK == \A c \in Clients : At(c, "queue") => swap[request[c].row] # NoRow

Inv == TypeOK /\ AdmittedAreFew
IInv == Inv /\ RowsOK

\* Nobody has asked for anything.
LEMMA InitInv == Init => IInv
<1> SUFFICES ASSUME Init PROVE IInv
  OBVIOUS
<1>1. TypeOK
  BY LimitAssumption DEF Init, TypeOK, Requests
<1>2. \A ip : PendingOf(ip) = {} /\ Admitted(ip) = {}
  BY DEF Init, PendingOf, Admitted, NoRow, NoRequest
<1>3. AdmittedAreFew
  <2>1. Cardinality({}) = 0
    BY FS_EmptySet
  <2> QED BY <1>2, <2>1, AreFinite, LimitAssumption DEF AdmittedAreFew
<1>4. RowsOK
  BY DEF Init, RowsOK, At, NoRequest
<1> QED BY <1>1, <1>3, <1>4 DEF IInv, Inv

\* A request is counted in: no more than Limit swaps were pending, and no more than
\* Clients requests are ever at work.
LEMMA CountPendingInv ==
  ASSUME IInv, NEW c \in Clients, NEW addr \in Addresses, CountPending(c, addr)
  PROVE  Inv'
<1>1. TypeOK'
  BY DEF IInv, Inv, TypeOK, CountPending, Requests, NoRequest
<1>2. AdmittedAreFew'
  <2> SUFFICES ASSUME NEW ip \in Addresses
               PROVE  Cardinality(PendingOf(ip)') + Cardinality(Admitted(ip)')
                        <= Limit + Cardinality(Clients)
    BY DEF AdmittedAreFew
  <2>1. PendingOf(ip)' = PendingOf(ip)
    BY DEF CountPending, PendingOf
  <2>2. CASE ip = addr
    <3>1. Cardinality(PendingOf(ip)) <= Limit
      BY <2>2 DEF CountPending, Count
    <3> QED BY <2>1, <3>1, AreFinite, AreFiniteNext, LimitAssumption
  <2>3. CASE ip # addr
    <3>1. Admitted(ip)' \subseteq Admitted(ip)
      BY <2>3 DEF IInv, Inv, TypeOK, CountPending, Admitted
    <3>2. Cardinality(Admitted(ip)') <= Cardinality(Admitted(ip))
      BY <3>1, AreFinite, FS_Subset
    <3>3. Cardinality(PendingOf(ip)) + Cardinality(Admitted(ip))
            <= Limit + Cardinality(Clients)
      BY DEF IInv, Inv, AdmittedAreFew
    <3> QED BY <2>1, <3>2, <3>3, AreFinite, AreFiniteNext, LimitAssumption
  <2> QED BY <2>2, <2>3
<1> QED BY <1>1, <1>2 DEF Inv

\* A request becomes a row.
LEMMA InsertSwapInv ==
  ASSUME IInv, NEW c \in Clients, InsertSwap(c)
  PROVE  Inv'
<1> USE DEF IInv, Inv
<1>1. PICK s \in Swaps :
        /\ swap[s] = NoRow
        /\ swap' = [swap EXCEPT ![s] = [status |-> "pending", ip |-> request[c].ip,
                                        wallet |-> request[c].wallet, job |-> "none"]]
        /\ request' = [request EXCEPT ![c] = [stage |-> "queue", ip |-> request[c].ip,
                                              wallet |-> request[c].wallet, row |-> s]]
        /\ UNCHANGED <<inUse, faults>>
  BY DEF InsertSwap
<1>2. request[c].ip \in Addresses /\ request[c].wallet \in Wallets
  BY DEF TypeOK, Requests, InsertSwap, At, NoRequest
<1>3. TypeOK'
  <2>1. swap' \in [Swaps -> Rows \cup {NoRow}]
    BY <1>1, <1>2 DEF TypeOK, Rows, Statuses, Jobs
  <2>2. request' \in [Clients -> Requests]
    BY <1>1, <1>2 DEF TypeOK, Requests
  <2> QED BY <1>1, <2>1, <2>2 DEF TypeOK
<1>4. AdmittedAreFew'
  <2> SUFFICES ASSUME NEW ip \in Addresses
               PROVE  Cardinality(PendingOf(ip)') + Cardinality(Admitted(ip)')
                        <= Limit + Cardinality(Clients)
    BY DEF AdmittedAreFew
  <2>1. Cardinality(PendingOf(ip)) + Cardinality(Admitted(ip)) <= Limit + Cardinality(Clients)
    BY DEF AdmittedAreFew
  <2>2. CASE ip = request[c].ip
    <3>1. PendingOf(ip)' \subseteq PendingOf(ip) \cup {s}
      BY <1>1 DEF PendingOf, TypeOK
    <3>2. c \in Admitted(ip) /\ Admitted(ip)' \subseteq Admitted(ip) \ {c}
      BY <1>1, <2>2 DEF Admitted, TypeOK, InsertSwap, At
    <3>3. Cardinality(PendingOf(ip)') <= Cardinality(PendingOf(ip)) + 1
      BY <3>1, AreFinite, AtMostOneMore
    <3>4. Cardinality(Admitted(ip)') + 1 <= Cardinality(Admitted(ip))
      BY <3>2, AreFinite, OneLess
    <3> QED BY <2>1, <3>3, <3>4, AreFinite, AreFiniteNext, LimitAssumption
  <2>3. CASE ip # request[c].ip
    <3>1. PendingOf(ip)' \subseteq PendingOf(ip) /\ Admitted(ip)' \subseteq Admitted(ip)
      BY <1>1, <2>3 DEF PendingOf, Admitted, TypeOK
    <3>2. /\ Cardinality(PendingOf(ip)') <= Cardinality(PendingOf(ip))
          /\ Cardinality(Admitted(ip)') <= Cardinality(Admitted(ip))
      BY <3>1, AreFinite, FS_Subset
    <3> QED BY <2>1, <3>2, AreFinite, AreFiniteNext, LimitAssumption
  <2> QED BY <2>2, <2>3
<1> QED BY <1>3, <1>4

\* The other steps of a request add neither.
LEMMA RequestInv ==
  ASSUME IInv, NEW c \in Clients,
         \/ PickWallet(c) \/ MarkWallet(c) \/ InsertFails(c)
         \/ AddJob(c) \/ AddJobFails(c) \/ ReleaseWallet(c)
  PROVE  Inv'
<1> USE DEF IInv, Inv, At, Goto, Answer
<1>1. CASE PickWallet(c)
  <2>1. TypeOK'
    BY <1>1 DEF TypeOK, PickWallet, Requests, NoRequest
  <2>2. \A ip : PendingOf(ip)' \subseteq PendingOf(ip) /\ Admitted(ip)' \subseteq Admitted(ip)
    BY <1>1 DEF TypeOK, PickWallet, PendingOf, Admitted, NoRequest, Requests
  <2> QED BY <2>1, <2>2, NothingMore
<1>2. CASE MarkWallet(c)
  <2>1. TypeOK'
    BY <1>2 DEF TypeOK, MarkWallet, Requests, NoRequest
  <2>2. \A ip : PendingOf(ip)' \subseteq PendingOf(ip) /\ Admitted(ip)' \subseteq Admitted(ip)
    BY <1>2 DEF TypeOK, MarkWallet, PendingOf, Admitted, NoRequest, Requests
  <2> QED BY <2>1, <2>2, NothingMore
<1>3. CASE InsertFails(c)
  <2>1. TypeOK'
    BY <1>3, LimitAssumption DEF TypeOK, InsertFails, Requests, NoRequest
  <2>2. \A ip : PendingOf(ip)' \subseteq PendingOf(ip) /\ Admitted(ip)' \subseteq Admitted(ip)
    BY <1>3 DEF TypeOK, InsertFails, PendingOf, Admitted, NoRequest
  <2> QED BY <2>1, <2>2, NothingMore
<1>4. CASE AddJob(c)
  <2>1. TypeOK'
    BY <1>4 DEF TypeOK, AddJob, Requests, NoRequest, Rows, Statuses, Jobs, NoRow
  <2>2. \A ip : PendingOf(ip)' \subseteq PendingOf(ip) /\ Admitted(ip)' \subseteq Admitted(ip)
    BY <1>4 DEF TypeOK, AddJob, PendingOf, Admitted, NoRequest, Rows, NoRow
  <2> QED BY <2>1, <2>2, NothingMore
<1>5. CASE AddJobFails(c)
  <2>1. TypeOK'
    <3>1. request[c].row \in Swaps /\ swap[request[c].row] \in Rows
      BY <1>5 DEF TypeOK, RowsOK, AddJobFails, Requests, NoRequest
    <3>2. swap' \in [Swaps -> Rows \cup {NoRow}]
      BY <1>5, <3>1 DEF TypeOK, AddJobFails, Rows, Statuses, Jobs
    <3>3. request' \in [Clients -> Requests]
      BY <1>5, <3>1 DEF TypeOK, AddJobFails, Requests, NoRequest
    <3>4. faults' \in 0..MaxFaults
      BY <1>5, LimitAssumption DEF TypeOK, AddJobFails
    <3> QED BY <1>5, <3>2, <3>3, <3>4 DEF TypeOK, AddJobFails
  <2>2. \A ip : PendingOf(ip)' \subseteq PendingOf(ip) /\ Admitted(ip)' \subseteq Admitted(ip)
    BY <1>5 DEF TypeOK, AddJobFails, PendingOf, Admitted, NoRequest, Requests, Rows, NoRow
  <2> QED BY <2>1, <2>2, NothingMore
<1>6. CASE ReleaseWallet(c)
  <2>1. TypeOK'
    BY <1>6 DEF TypeOK, ReleaseWallet, Requests, NoRequest
  <2>2. \A ip : PendingOf(ip)' \subseteq PendingOf(ip) /\ Admitted(ip)' \subseteq Admitted(ip)
    BY <1>6 DEF TypeOK, ReleaseWallet, PendingOf, Admitted, NoRequest
  <2> QED BY <2>1, <2>2, NothingMore
<1> QED BY <1>1, <1>2, <1>3, <1>4, <1>5, <1>6

\* Neither does what ends a swap.
LEMMA SwapInv ==
  ASSUME IInv, NEW s \in Swaps,
         CancelSwap(s) \/ ConfirmTransfer(s) \/ EndJobs(s) \/ LoseJob(s)
  PROVE  Inv'
<1> USE DEF IInv, Inv
<1>1. \A ip : Admitted(ip)' = Admitted(ip)
  BY DEF CancelSwap, ConfirmTransfer, EndJobs, LoseJob, Admitted
<1>2. CASE CancelSwap(s)
  <2>1. TypeOK'
    BY <1>2 DEF TypeOK, CancelSwap, Rows, Statuses, Jobs, NoRow
  <2>2. \A ip : PendingOf(ip)' \subseteq PendingOf(ip)
    BY <1>2 DEF TypeOK, CancelSwap, PendingOf, Rows, NoRow
  <2> QED BY <1>1, <2>1, <2>2, NothingMore
<1>3. CASE ConfirmTransfer(s)
  <2>1. TypeOK'
    BY <1>3 DEF TypeOK, ConfirmTransfer, Rows, Statuses, Jobs, NoRow
  <2>2. \A ip : PendingOf(ip)' \subseteq PendingOf(ip)
    BY <1>3 DEF TypeOK, ConfirmTransfer, PendingOf, Rows, NoRow
  <2> QED BY <1>1, <2>1, <2>2, NothingMore
<1>4. CASE EndJobs(s)
  <2>1. TypeOK'
    BY <1>4 DEF TypeOK, EndJobs, EndedRow, Rows, Statuses, Jobs, NoRow
  <2>2. \A ip : PendingOf(ip)' \subseteq PendingOf(ip)
    BY <1>4 DEF TypeOK, EndJobs, EndedRow, PendingOf, Rows, NoRow
  <2> QED BY <1>1, <2>1, <2>2, NothingMore
<1>5. CASE LoseJob(s)
  <2>1. TypeOK'
    <3>1. swap' \in [Swaps -> Rows \cup {NoRow}]
      BY <1>5 DEF TypeOK, LoseJob, Rows, Jobs
    <3>2. faults' \in 0..MaxFaults
      BY <1>5, LimitAssumption DEF TypeOK, LoseJob
    <3> QED BY <1>5, <3>1, <3>2 DEF TypeOK, LoseJob
  <2>2. \A ip : PendingOf(ip)' \subseteq PendingOf(ip)
    BY <1>5 DEF TypeOK, LoseJob, PendingOf, Rows, NoRow
  <2> QED BY <1>1, <2>1, <2>2, NothingMore
<1> QED BY <1>2, <1>3, <1>4, <1>5

\* The process dies with its requests.
LEMMA CrashInv ==
  ASSUME IInv, Crash
  PROVE  Inv'
<1>1. TypeOK'
  BY LimitAssumption DEF IInv, Inv, TypeOK, Crash, Requests
<1>2. \A ip : PendingOf(ip)' \subseteq PendingOf(ip) /\ Admitted(ip)' \subseteq Admitted(ip)
  BY DEF Crash, PendingOf, Admitted, NoRequest
<1> QED BY <1>1, <1>2, NothingMore DEF IInv, Inv

\* Every step keeps types and bound.
LEMMA NextKept == IInv /\ [Next]_vars => Inv'
<1> SUFFICES ASSUME IInv, [Next]_vars PROVE Inv'
  OBVIOUS
<1>1. ASSUME NEW c \in Clients, NEW ip \in Addresses, CountPending(c, ip) PROVE Inv'
  BY <1>1, CountPendingInv
<1>2. ASSUME NEW c \in Clients, RequestStep(c) \/ InsertFails(c) \/ AddJobFails(c) PROVE Inv'
  BY <1>2, InsertSwapInv, RequestInv DEF RequestStep
<1>3. ASSUME NEW s \in Swaps,
             CancelSwap(s) \/ ConfirmTransfer(s) \/ EndJobs(s) \/ LoseJob(s)
      PROVE  Inv'
  BY <1>3, SwapInv
<1>4. CASE Crash
  BY <1>4, CrashInv
<1>5. CASE UNCHANGED vars
  <2>1. TypeOK'
    BY <1>5 DEF IInv, Inv, TypeOK, vars
  <2>2. \A ip : PendingOf(ip)' = PendingOf(ip) /\ Admitted(ip)' = Admitted(ip)
    BY <1>5 DEF vars, PendingOf, Admitted
  <2> QED BY <2>1, <2>2, NothingMore DEF IInv, Inv
<1> QED BY <1>1, <1>2, <1>3, <1>4, <1>5 DEF Next

\* Rows are never deleted, and a request that adds a job has just made its row.
LEMMA RowsKept == IInv /\ [Next]_vars => RowsOK'
<1> SUFFICES ASSUME IInv, [Next]_vars, NEW c \in Clients, request'[c].stage = "queue"
             PROVE  swap'[request'[c].row] # NoRow
  BY DEF RowsOK, At
<1> USE DEF IInv, Inv, TypeOK
<1>1. ASSUME NEW d \in Clients, InsertSwap(d) PROVE swap'[request'[c].row] # NoRow
  <2>1. CASE c = d
    BY <1>1, <2>1 DEF InsertSwap, NoRow
  <2>2. CASE c # d
    <3>1. request'[c] = request[c] /\ request[c].row \in Swaps
      BY <1>1, <2>2 DEF InsertSwap, Requests, NoRequest
    <3>2. swap[request[c].row] # NoRow
      BY <3>1 DEF RowsOK, At
    <3> QED BY <1>1, <3>1, <3>2 DEF InsertSwap, NoRow
  <2> QED BY <2>1, <2>2
<1>2. ASSUME \A s \in Swaps : swap[s] # NoRow => swap'[s] # NoRow, request'[c] = request[c]
      PROVE  swap'[request'[c].row] # NoRow
  BY <1>2 DEF RowsOK, At, Requests, NoRequest
<1>3. ASSUME NEW d \in Clients, NEW ip \in Addresses, CountPending(d, ip)
      PROVE  swap'[request'[c].row] # NoRow
  <2>1. request'[c] = request[c]
    BY <1>3 DEF CountPending
  <2> QED BY <1>2, <1>3, <2>1 DEF CountPending
<1>4. ASSUME NEW d \in Clients,
             \/ PickWallet(d) \/ MarkWallet(d) \/ InsertFails(d) \/ ReleaseWallet(d)
      PROVE  swap'[request'[c].row] # NoRow
  <2>1. request'[c] = request[c]
    BY <1>4 DEF PickWallet, MarkWallet, InsertFails, ReleaseWallet, At, Goto, Answer, NoRequest, Requests
  <2>2. swap' = swap
    BY <1>4 DEF PickWallet, MarkWallet, InsertFails, ReleaseWallet
  <2> QED BY <1>2, <2>1, <2>2
<1>5. ASSUME NEW d \in Clients, AddJob(d) \/ AddJobFails(d)
      PROVE  swap'[request'[c].row] # NoRow
  <2>1. request'[c] = request[c]
    BY <1>5 DEF AddJob, AddJobFails, At, Goto, Answer, NoRequest, Requests
  <2>2. \A s \in Swaps : swap[s] # NoRow => swap'[s] # NoRow
    BY <1>5 DEF AddJob, AddJobFails, Rows, Statuses, Jobs, NoRow
  <2> QED BY <1>2, <2>1, <2>2
<1>6. ASSUME NEW s \in Swaps,
             CancelSwap(s) \/ ConfirmTransfer(s) \/ EndJobs(s) \/ LoseJob(s)
      PROVE  swap'[request'[c].row] # NoRow
  <2>1. request'[c] = request[c]
    BY <1>6 DEF CancelSwap, ConfirmTransfer, EndJobs, LoseJob
  <2>2. \A t \in Swaps : swap[t] # NoRow => swap'[t] # NoRow
    <3>1. \A t \in Swaps \ {s} : swap'[t] = swap[t]
      BY <1>6 DEF CancelSwap, ConfirmTransfer, EndJobs, LoseJob
    <3>2. swap[s] \in Rows
      BY <1>6 DEF CancelSwap, ConfirmTransfer, EndJobs, LoseJob, NoRow
    <3>3. swap'[s].status \in Statuses
      BY <1>6, <3>2 DEF CancelSwap, ConfirmTransfer, EndJobs, EndedRow, LoseJob, Rows, Statuses, Jobs
    <3> QED BY <3>1, <3>3 DEF Statuses, Jobs, NoRow
  <2> QED BY <1>2, <2>1, <2>2
<1>7. CASE Crash
  BY <1>7 DEF Crash, NoRequest
<1>8. CASE UNCHANGED vars
  BY <1>2, <1>8 DEF vars
<1> QED BY <1>1, <1>3, <1>4, <1>5, <1>6, <1>7, <1>8 DEF Next, RequestStep

\* Every step keeps the invariant.
LEMMA NextInv == IInv /\ [Next]_vars => IInv'
BY NextKept, RowsKept DEF IInv

\* The sets from which requests, rows and marks are taken.
THEOREM TypeCorrect == Spec => []TypeOK
<1>1. IInv => TypeOK
  BY DEF IInv, Inv
<1> QED BY <1>1, InitInv, NextInv, PTL DEF Spec

\* Whatever overlaps, fails or crashes, an address has no more pending swaps than the
\* limit and one for each request there can be at a time.
THEOREM PendingBounded == Spec => []PendingAreFew
<1>1. IInv => PendingAreFew
  <2> SUFFICES ASSUME IInv, NEW ip \in Addresses
               PROVE  Cardinality(PendingOf(ip)) <= Limit + Cardinality(Clients)
    BY DEF PendingAreFew
  <2>1. Cardinality(PendingOf(ip)) + Cardinality(Admitted(ip)) <= Limit + Cardinality(Clients)
    BY DEF IInv, Inv, AdmittedAreFew
  <2> QED BY <2>1, AreFinite, LimitAssumption
<1> QED BY <1>1, InitInv, NextInv, PTL DEF Spec

\* The bound counts the requests in that have no row yet.
THEOREM AdmittedBounded == Spec => []AdmittedAreFew
<1>1. IInv => AdmittedAreFew
  BY DEF IInv, Inv
<1> QED BY <1>1, InitInv, NextInv, PTL DEF Spec

-----------------------------------------------------------------------------
(* The table of tokens.                                                      *)

\* A row is there when it has an address.
LEMMA RowsHaveAddresses ==
  ASSUME TokensOK, NEW id \in Ids
  PROVE  /\ Exists(id) => token[id] \in TokenRows /\ token[id].address \in TokenAddresses
         /\ ~Exists(id) => token[id].address = None
         /\ Exists(id) <=> token[id].address # None
<1>1. token[id] \in TokenRows \cup {NoToken}
  BY DEF TokensOK
<1>2. NoToken.address = None
  BY DEF NoToken
<1>3. token[id] \in TokenRows => token[id].address \in TokenAddresses
  BY DEF TokenRows
<1>4. None \notin TokenAddresses
  BY TokenAssumption
<1> QED BY <1>1, <1>2, <1>3, <1>4 DEF Exists

\* Columns that a PUT leaves out stay, the address among them.
LEMMA UpdatedRow ==
  ASSUME NEW row \in TokenRows, NEW body \in Updated
  PROVE  /\ Patched(row, body) \in TokenRows
         /\ Patched(row, body).address = row.address
  BY TokenAssumption DEF Patched, TokenRows, Updated, Optional

\* A POST with the id of a row replaces the address, and may leave out the currency.
LEMMA ReplacedRow ==
  ASSUME NEW row \in TokenRows, NEW body \in Created
  PROVE  /\ Patched(row, body) \in TokenRows
         /\ Patched(row, body).address = body.address
  BY TokenAssumption DEF Patched, TokenRows, Created, Optional

\* The table is empty.
LEMMA TokenInitInv == TokenInit => TokenInv
<1> SUFFICES ASSUME TokenInit PROVE TokenInv
  OBVIOUS
<1>1. TokensOK
  BY TokenAssumption DEF TokenInit, TokensOK, Writes, Tasks
<1>2. \A id \in Ids : ~Exists(id)
  BY DEF TokenInit, Exists
<1>3. AddressesAreUnique
  BY <1>2 DEF AddressesAreUnique
<1>4. RowsStay
  BY DEF TokenInit, RowsStay, NoWrite, IdleTask
<1> QED BY <1>1, <1>3, <1>4 DEF TokenInv

\* A write of one row that leaves every address it does not own alone.
LEMMA RowWritten ==
  ASSUME TokenInv, NEW id \in Ids, NEW row \in TokenRows,
         token' = [token EXCEPT ![id] = row],
         \A other \in Ids \ {id} : token[other].address # row.address
  PROVE  /\ token' \in [Ids -> TokenRows \cup {NoToken}]
         /\ AddressesAreUnique'
         /\ \A t \in Ids : Exists(t) => Exists(t)'
<1>1. TokensOK /\ AddressesAreUnique
  BY DEF TokenInv
<1>2. token' \in [Ids -> TokenRows \cup {NoToken}]
  BY <1>1 DEF TokensOK
<1>3. token'[id] = row /\ \A t \in Ids \ {id} : token'[t] = token[t]
  BY <1>1 DEF TokensOK
<1>4. row.address \in TokenAddresses /\ row # NoToken
  BY TokenAssumption DEF TokenRows, NoToken
<1>5. \A t \in Ids : Exists(t) => Exists(t)'
  BY <1>3, <1>4 DEF Exists
<1>6. ASSUME NEW t \in Ids, NEW u \in Ids, Exists(t)', t # u
      PROVE  token'[t].address # token'[u].address
  <2>1. CASE t = id
    BY <2>1, <1>3, <1>6
  <2>2. CASE u = id
    BY <2>2, <1>3, <1>6
  <2>3. CASE t # id /\ u # id
    BY <2>3, <1>1, <1>3, <1>6 DEF AddressesAreUnique, Exists
  <2> QED BY <2>1, <2>2, <2>3
<1>7. AddressesAreUnique'
  BY <1>6 DEF AddressesAreUnique
<1> QED BY <1>2, <1>5, <1>7

\* Rows that stay keep what the writes rest on, when the step adds none.
LEMMA RestStays ==
  ASSUME TokenInv, \A t \in Ids : Exists(t) => Exists(t)',
         writing' \in [Admins -> Writes], task' \in [Runs -> Tasks],
         \A a \in Admins : writing'[a] = writing[a] \/ writing'[a] = NoWrite,
         \A r \in Runs :
           \/ task'[r] = task[r]
           \/ task'[r] = IdleTask
           \/ /\ task[r].stage # "idle" /\ task'[r].stage = "quote"
              /\ task'[r].rest = task[r].rest
  PROVE  RowsStay'
<1>0. TokensOK /\ RowsStay
  BY DEF TokenInv
<1>1. ASSUME NEW a \in Admins, writing'[a].op = "update"
      PROVE  Exists(writing[a].id)'
  <2>1. writing'[a] = writing[a]
    BY <1>1 DEF NoWrite
  <2>2. writing[a].id \in Ids /\ Exists(writing[a].id)
    BY <1>0, <1>1, <2>1 DEF TokensOK, RowsStay, Writes, NoWrite
  <2> QED BY <2>1, <2>2
<1>2. ASSUME NEW r \in Runs
      PROVE  /\ task'[r].stage = "write" => Exists(task[r].id)'
             /\ task'[r].stage # "idle" => \A t \in task'[r].rest : Exists(t.id)'
  <2>1. CASE task'[r] = IdleTask
    BY <2>1 DEF IdleTask
  <2>2. task[r].stage = "write" => task[r].id \in Ids /\ Exists(task[r].id)
    BY <1>0 DEF TokensOK, RowsStay, Tasks, IdleTask
  <2>3. task[r].stage # "idle" => \A t \in task[r].rest : t.id \in Ids /\ Exists(t.id)
    BY <1>0 DEF TokensOK, RowsStay, Tasks, IdleTask, Reads
  <2>4. CASE task'[r] = task[r]
    BY <2>2, <2>3, <2>4
  <2>5. CASE /\ task[r].stage # "idle" /\ task'[r].stage = "quote"
             /\ task'[r].rest = task[r].rest
    BY <2>3, <2>5
  <2> QED BY <2>1, <2>4, <2>5
<1> QED BY <1>1, <1>2 DEF RowsStay

\* createToken remembers what it is to save.
LEMMA CreateFindInv ==
  ASSUME TokenInv, NEW a \in Admins, CreateFind(a)
  PROVE  TokenInv'
<1>0. TokensOK /\ AddressesAreUnique /\ RowsStay
  BY DEF TokenInv
<1> PICK id \in Ids, body \in Created :
      writing' = [writing EXCEPT ![a] = [op |-> "create", id |-> id, body |-> body]]
  BY DEF CreateFind
<1>1. TokensOK'
  BY <1>0, TokenAssumption DEF CreateFind, TokensOK, Writes
<1>2. token' = token /\ task' = task
  BY DEF CreateFind
<1>3. AddressesAreUnique'
  BY <1>0, <1>2 DEF AddressesAreUnique, Exists
<1>4. RowsStay'
  BY <1>0, <1>2 DEF RowsStay, Exists, TokensOK
<1> QED BY <1>1, <1>3, <1>4 DEF TokenInv

\* updateToken remembers a row that is there.
LEMMA UpdateReadInv ==
  ASSUME TokenInv, NEW a \in Admins, UpdateRead(a)
  PROVE  TokenInv'
<1>0. TokensOK /\ AddressesAreUnique /\ RowsStay
  BY DEF TokenInv
<1> PICK id \in Ids, body \in Updated :
      /\ Exists(id)
      /\ writing' = [writing EXCEPT ![a] =
           [op |-> "update", id |-> id, body |-> WithDecimals(id, body)]]
  BY DEF UpdateRead
<1>1. WithDecimals(id, body) \in Updated
  <2>1. token[id] \in TokenRows
    BY <1>0, RowsHaveAddresses
  <2> QED BY <2>1 DEF WithDecimals, Updated, TokenRows, Optional
<1>2. TokensOK'
  BY <1>0, <1>1, TokenAssumption DEF UpdateRead, TokensOK, Writes
<1>3. token' = token /\ task' = task
  BY DEF UpdateRead
<1>4. AddressesAreUnique'
  BY <1>0, <1>3 DEF AddressesAreUnique, Exists
<1>5. RowsStay'
  BY <1>0, <1>3 DEF RowsStay, Exists, TokensOK
<1> QED BY <1>2, <1>4, <1>5 DEF TokenInv

\* What createToken saves has an address that no other row has, by the index.
LEMMA CreateSaveInv ==
  ASSUME TokenInv, NEW a \in Admins, CreateSave(a)
  PROVE  TokenInv'
<1> DEFINE id == writing[a].id
           body == writing[a].body
           row == [address |-> body.address, rank |-> body.rank,
                   decimals |-> body.decimals, currency |-> body.currency,
                   price |-> None]
<1>0. TokensOK /\ AddressesAreUnique /\ RowsStay
  BY DEF TokenInv
<1>1. id \in Ids /\ body \in Created
  BY <1>0 DEF CreateSave, TokensOK, Writes, NoWrite
<1>2. /\ writing' = [writing EXCEPT ![a] = NoWrite]
      /\ UNCHANGED <<task, edits, failures>>
  BY DEF CreateSave
<1>3. \/ token' = token
      \/ /\ ~Taken(id, body.address) /\ Exists(id)
         /\ token' = [token EXCEPT ![id] = Patched(token[id], body)]
      \/ ~Taken(id, body.address) /\ token' = [token EXCEPT ![id] = row]
  <2>1. CASE Taken(id, body.address)
    BY <2>1 DEF CreateSave
  <2>2. CASE ~Taken(id, body.address) /\ Exists(id)
    BY <2>2 DEF CreateSave
  <2>3. CASE ~Taken(id, body.address) /\ ~Exists(id)
    BY <2>3 DEF CreateSave
  <2> QED BY <2>1, <2>2, <2>3
<1>4. ~Taken(id, body.address)
        => \A other \in Ids \ {id} : token[other].address # body.address
  BY DEF Taken
<1>5. row \in TokenRows /\ row.address = body.address
  BY <1>1 DEF Created, TokenRows, Optional
<1>6. /\ token' \in [Ids -> TokenRows \cup {NoToken}]
      /\ AddressesAreUnique'
      /\ \A t \in Ids : Exists(t) => Exists(t)'
  <2>1. CASE token' = token
    BY <1>0, <2>1 DEF TokensOK, AddressesAreUnique, Exists
  <2>2. CASE /\ ~Taken(id, body.address) /\ Exists(id)
             /\ token' = [token EXCEPT ![id] = Patched(token[id], body)]
    <3>1. token[id] \in TokenRows
      BY <1>0, <1>1, <2>2, RowsHaveAddresses
    <3>2. Patched(token[id], body) \in TokenRows
          /\ Patched(token[id], body).address = body.address
      BY <1>1, <3>1, ReplacedRow
    <3> DEFINE new == Patched(token[id], body)
    <3> HIDE DEF new, id, body, row
    <3>3. token' = [token EXCEPT ![id] = new] /\ new \in TokenRows
          /\ \A other \in Ids \ {id} : token[other].address # new.address
      BY <1>4, <2>2, <3>2 DEF new
    <3> QED BY <1>1, <3>3, RowWritten
  <2>3. CASE ~Taken(id, body.address) /\ token' = [token EXCEPT ![id] = row]
    <3>1. \A other \in Ids \ {id} : token[other].address # row.address
      BY <1>4, <1>5, <2>3
    <3> HIDE DEF id, body, row
    <3>2. token' = [token EXCEPT ![id] = row] /\ row \in TokenRows /\ id \in Ids
      BY <1>1, <1>5, <2>3
    <3> QED BY <3>1, <3>2, RowWritten
  <2> HIDE DEF id, body, row
  <2> QED BY <1>3, <2>1, <2>2, <2>3
<1>7. TokensOK'
  BY <1>0, <1>2, <1>6 DEF TokensOK, Writes
<1>8. RowsStay'
  <2>1. \A b \in Admins : writing'[b] = writing[b] \/ writing'[b] = NoWrite
    BY <1>0, <1>2 DEF TokensOK
  <2> QED BY <1>2, <1>6, <1>7, <2>1, RestStays DEF TokensOK
<1> QED BY <1>6, <1>7, <1>8 DEF TokenInv

\* updateToken writes a row that is still there, and not its address.
LEMMA UpdateWriteInv ==
  ASSUME TokenInv, NEW a \in Admins, UpdateWrite(a)
  PROVE  TokenInv'
<1> DEFINE id == writing[a].id
           body == writing[a].body
           new == Patched(token[id], body)
<1>0. TokensOK /\ AddressesAreUnique /\ RowsStay
  BY DEF TokenInv
<1>1. id \in Ids /\ body \in Updated /\ Exists(id)
  BY <1>0 DEF UpdateWrite, TokensOK, RowsStay, Writes, NoWrite
<1>2. /\ writing' = [writing EXCEPT ![a] = NoWrite]
      /\ UNCHANGED <<task, edits, failures>>
  BY DEF UpdateWrite
<1>3. token' = [token EXCEPT ![id] = new]
  BY <1>0, <1>1 DEF UpdateWrite, TokensOK
<1> HIDE DEF id, body
<1>4. token[id] \in TokenRows
  BY <1>0, <1>1, RowsHaveAddresses
<1>5. new \in TokenRows /\ new.address = token[id].address
  BY <1>1, <1>4, UpdatedRow
<1>6. \A other \in Ids \ {id} : token[other].address # new.address
  BY <1>0, <1>1, <1>5 DEF AddressesAreUnique
<1> HIDE DEF new
<1>7. /\ token' \in [Ids -> TokenRows \cup {NoToken}]
      /\ AddressesAreUnique'
      /\ \A t \in Ids : Exists(t) => Exists(t)'
  BY <1>1, <1>3, <1>5, <1>6, RowWritten
<1>8. TokensOK'
  BY <1>0, <1>2, <1>7 DEF TokensOK, Writes
<1>9. RowsStay'
  <2>1. \A b \in Admins : writing'[b] = writing[b] \/ writing'[b] = NoWrite
    BY <1>0, <1>2 DEF TokensOK
  <2> QED BY <1>2, <1>7, <1>8, <2>1, RestStays DEF TokensOK
<1> QED BY <1>7, <1>8, <1>9 DEF TokenInv

\* A request that fails has written nothing.
LEMMA RequestFailsInv ==
  ASSUME TokenInv, NEW a \in Admins, RequestFails(a)
  PROVE  TokenInv'
<1>0. TokensOK /\ AddressesAreUnique /\ RowsStay
  BY DEF TokenInv
<1>1. /\ token' = token /\ task' = task /\ edits' = edits
      /\ failures' \in 0..MaxFailures
      /\ writing' = [writing EXCEPT ![a] = NoWrite]
  BY <1>0, TokenAssumption DEF RequestFails, Fault, TokensOK
<1>2. TokensOK'
  BY <1>0, <1>1 DEF TokensOK, Writes
<1>3. AddressesAreUnique' /\ \A t \in Ids : Exists(t) => Exists(t)'
  BY <1>0, <1>1 DEF AddressesAreUnique, Exists
<1>4. \A b \in Admins : writing'[b] = writing[b] \/ writing'[b] = NoWrite
  BY <1>0, <1>1 DEF TokensOK
<1>5. RowsStay'
  BY <1>1, <1>2, <1>3, <1>4, RestStays DEF TokensOK
<1> QED BY <1>2, <1>3, <1>5 DEF TokenInv

\* A run of the task writes a price and nothing else.
LEMMA RunInv ==
  ASSUME TokenInv, NEW r \in Runs, RunBegins(r) \/ RunStep(r) \/ RunFails(r)
  PROVE  TokenInv'
<1>0. TokensOK /\ AddressesAreUnique /\ RowsStay
  BY DEF TokenInv
<1>1. CASE RunBegins(r)
  <2> DEFINE all == {[id |-> id, rank |-> token[id].rank, currency |-> token[id].currency] :
                       id \in {i \in Ids : Exists(i)}}
  <2>1. all \subseteq Reads
    <3>1. \A id \in Ids : Exists(id) => token[id] \in TokenRows
      BY <1>0, RowsHaveAddresses
    <3> QED BY <3>1 DEF TokenRows, Reads
  <2>2. \A t \in all : Exists(t.id)
    OBVIOUS
  <2>3. /\ task' = [task EXCEPT ![r] = [stage |-> "quote", rest |-> all]]
        /\ UNCHANGED <<token, writing, edits, failures>>
    BY <1>1 DEF RunBegins
  <2> HIDE DEF all
  <2>4. TokensOK'
    BY <1>0, <2>1, <2>3 DEF TokensOK, Tasks
  <2>5. AddressesAreUnique'
    BY <1>0, <2>3 DEF AddressesAreUnique, Exists
  <2>6. RowsStay'
    BY <1>0, <2>2, <2>3 DEF RowsStay, Exists, TokensOK
  <2> QED BY <2>4, <2>5, <2>6 DEF TokenInv
<1>2. CASE Quote(r)
  <2> PICK t \in Due(task[r].rest) :
        /\ t.currency \in Listed
        /\ task' = [task EXCEPT ![r] =
             [stage |-> "write", id |-> t.id, price |-> t.currency,
              rest |-> task[r].rest \ {t}]]
    BY <1>2 DEF Quote
  <2>1. UNCHANGED <<token, writing, edits, failures>> /\ task[r].stage = "quote"
    BY <1>2 DEF Quote
  <2>2. task[r].rest \subseteq Reads /\ t \in task[r].rest
    BY <1>0, <2>1 DEF Due, TokensOK, Tasks, IdleTask
  <2>3. t.id \in Ids /\ Exists(t.id) /\ t.currency \in Currencies
    BY <1>0, <2>1, <2>2, TokenAssumption DEF RowsStay, Reads
  <2>4. TokensOK'
    BY <1>0, <2>1, <2>2, <2>3 DEF TokensOK, Tasks
  <2>5. AddressesAreUnique'
    BY <1>0, <2>1 DEF AddressesAreUnique, Exists
  <2>6. RowsStay'
    BY <1>0, <2>1, <2>2, <2>3 DEF RowsStay, Exists, TokensOK
  <2> QED BY <2>4, <2>5, <2>6 DEF TokenInv
<1>3. CASE QuoteFails(r) \/ RunEnds(r) \/ RunFails(r)
  <2>1. /\ token' = token /\ writing' = writing /\ edits' = edits
        /\ failures' \in 0..MaxFailures
        /\ task' = [task EXCEPT ![r] = IdleTask]
    BY <1>0, <1>3, TokenAssumption DEF QuoteFails, RunEnds, RunFails, Fault, TokensOK
  <2>2. TokensOK'
    BY <1>0, <2>1 DEF TokensOK, Tasks
  <2>3. AddressesAreUnique' /\ \A t \in Ids : Exists(t) => Exists(t)'
    BY <1>0, <2>1 DEF AddressesAreUnique, Exists
  <2>4. \A q \in Runs : task'[q] = task[q] \/ task'[q] = IdleTask
    BY <1>0, <2>1 DEF TokensOK
  <2>5. RowsStay'
    BY <2>1, <2>2, <2>3, <2>4, RestStays DEF TokensOK
  <2> QED BY <2>2, <2>3, <2>5 DEF TokenInv
<1>4. CASE WritePrice(r)
  <2> DEFINE id == task[r].id
             new == [token[id] EXCEPT !.price = task[r].price]
  <2>1. id \in Ids /\ Exists(id) /\ task[r].price \in Currencies
        /\ task[r].rest \subseteq Reads
    BY <1>0, <1>4 DEF WritePrice, TokensOK, RowsStay, Tasks, IdleTask
  <2>2. token[id] \in TokenRows
    BY <1>0, <2>1, RowsHaveAddresses
  <2>3. new \in TokenRows /\ new.address = token[id].address
    BY <2>1, <2>2 DEF TokenRows, Optional
  <2>4. token' = [token EXCEPT ![id] = new]
    BY <1>0, <1>4, <2>1 DEF WritePrice, TokensOK
  <2>5. \A other \in Ids \ {id} : token[other].address # new.address
    BY <1>0, <2>1, <2>3 DEF AddressesAreUnique
  <2> HIDE DEF id, new
  <2>6. /\ token' \in [Ids -> TokenRows \cup {NoToken}]
        /\ AddressesAreUnique'
        /\ \A t \in Ids : Exists(t) => Exists(t)'
    BY <2>1, <2>3, <2>4, <2>5, RowWritten
  <2>7. /\ task' = [task EXCEPT ![r] = [stage |-> "quote", rest |-> task[r].rest]]
        /\ UNCHANGED <<writing, edits, failures>> /\ task[r].stage = "write"
    BY <1>4 DEF WritePrice
  <2>8. TokensOK'
    BY <1>0, <2>1, <2>6, <2>7 DEF TokensOK, Tasks
  <2>9. \A q \in Runs :
          \/ task'[q] = task[q]
          \/ /\ task[q].stage # "idle" /\ task'[q].stage = "quote"
             /\ task'[q].rest = task[q].rest
    BY <1>0, <2>7 DEF TokensOK
  <2>10. RowsStay'
    BY <2>6, <2>7, <2>8, <2>9, RestStays DEF TokensOK
  <2> QED BY <2>6, <2>8, <2>10 DEF TokenInv
<1> QED BY <1>1, <1>2, <1>3, <1>4 DEF RunStep

\* Every step keeps the invariant.
LEMMA TokenNextInv == TokenInv /\ [TokenNext]_tokenVars => TokenInv'
<1> SUFFICES ASSUME TokenInv, [TokenNext]_tokenVars PROVE TokenInv'
  OBVIOUS
<1>1. CASE UNCHANGED tokenVars
  BY <1>1 DEF tokenVars, TokenInv, TokensOK, AddressesAreUnique, RowsStay, Exists
<1>2. ASSUME NEW a \in Admins,
             CreateFind(a) \/ UpdateRead(a) \/ Write(a) \/ RequestFails(a)
      PROVE  TokenInv'
  BY <1>2, CreateFindInv, UpdateReadInv, CreateSaveInv, UpdateWriteInv, RequestFailsInv
     DEF Write
<1>3. ASSUME NEW r \in Runs, RunBegins(r) \/ RunStep(r) \/ RunFails(r)
      PROVE  TokenInv'
  BY <1>3, RunInv
<1> QED BY <1>1, <1>2, <1>3 DEF TokenNext

\* The invariant holds of the table, of the requests and of the runs of the task, for
\* any number of them.
THEOREM TokenInvariance == TokenSpec => []TokenInv
  BY TokenInitInv, TokenNextInv, PTL DEF TokenSpec

\* No body and no price leaves a column of another kind (TokensController,
\* SyncTokensPriceTask).
THEOREM TokensKeepTheirTypes == TokenSpec => []TokensOK
<1>1. TokenInv => TokensOK
  BY DEF TokenInv
<1> QED BY <1>1, TokenInvariance, PTL

\* No token is in the table twice, for any number of requests that look for the
\* address before an await and save after it (createToken).
THEOREM TokensAreUnique == TokenSpec => []AddressesAreUnique
<1>1. TokenInv => AddressesAreUnique
  BY DEF TokenInv
<1> QED BY <1>1, TokenInvariance, PTL
=============================================================================
