----------------------------- MODULE SwapRequests -----------------------------
(* POST /swaps seen from the addresses that send it: an address is refused   *)
(* once it has too many pending swaps, which are counted long before the row *)
(* of the new one is there.  Several requests are at work at a time, and a   *)
(* client sends the next one when it has an answer.                          *)
(*                                                                           *)
(* Of a swap there is what the limit depends on; EthToTon and TonToEth have  *)
(* its jobs, SwapJobs the reads of cancelSwap.                               *)
EXTENDS Integers, FiniteSets

CONSTANTS Clients,      \* requests there may be at a time
          Addresses,    \* IP addresses
          Swaps,        \* identifiers of rows, once each
          Wallets,      \* source wallets
          NoWallet,
          Limit,        \* MAX_PENDING_SWAP_COUNT_BY_IP
          MaxFaults     \* bound: calls that fail, crashes

ASSUME FiniteAssumption == IsFiniteSet(Clients) /\ IsFiniteSet(Swaps)
ASSUME WalletAssumption == NoWallet \notin Wallets
ASSUME LimitAssumption == Limit \in Nat /\ MaxFaults \in Nat

VARIABLES
  request,  \* what each client is waiting for
  swap,     \* the rows of the swap table, with the job of each in the queue
  inUse,    \* the source wallets marked as in use
  faults    \* bound

vars == <<request, swap, inUse, faults>>

NoRequest == [stage |-> "idle"]
Statuses == {"pending", "confirmed", "over"}
Jobs == {"none", "queued", "ended", "lost"}
NoRow == [status |-> "none"]

Rows == [status : Statuses, ip : Addresses, wallet : Wallets, job : Jobs]

Init ==
  /\ request = [c \in Clients |-> NoRequest]
  /\ swap = [s \in Swaps |-> NoRow]
  /\ inUse = {}
  /\ faults = 0

-----------------------------------------------------------------------------
(* createSwap                                                                *)

\* Mutant: the swaps that are paid for are counted.
CountConfirmed(ip) ==
  Cardinality({s \in Swaps : swap[s].status = "confirmed" /\ swap[s].ip = ip})

PendingOf(ip) == {s \in Swaps : swap[s].status = "pending" /\ swap[s].ip = ip}

Count(ip) == Cardinality(PendingOf(ip))

At(c, stage) == request[c].stage = stage
Goto(c, stage) == request' = [request EXCEPT ![c].stage = stage]
Answer(c) == request' = [request EXCEPT ![c] = NoRequest]

\* The tokens are found, the amount is within their limits and the address has
\* room for another swap; else the request is refused.
CountPending(c, ip) ==
  /\ request[c] = NoRequest
  /\ Count(ip) <= Limit
  /\ request' = [request EXCEPT ![c] = [stage |-> "pick", ip |-> ip, wallet |-> NoWallet]]
  /\ UNCHANGED <<swap, inUse, faults>>

\* The wallets of the other chain and the collector are found as well, or the
\* request is refused.
PickWallet(c) ==
  /\ At(c, "pick")
  /\ \/ \E w \in Wallets \ inUse :
          request' = [request EXCEPT ![c].stage = "mark", ![c].wallet = w]
     \/ Answer(c)
  /\ UNCHANGED <<swap, inUse, faults>>

MarkWallet(c) ==
  /\ At(c, "mark")
  /\ inUse' = inUse \cup {request[c].wallet}
  /\ Goto(c, "insert")
  /\ UNCHANGED <<swap, faults>>

InsertSwap(c) ==
  /\ At(c, "insert")
  /\ \E s \in Swaps :
       /\ swap[s] = NoRow
       /\ swap' = [swap EXCEPT ![s] = [status |-> "pending", ip |-> request[c].ip,
                                       wallet |-> request[c].wallet, job |-> "none"]]
       /\ request' = [request EXCEPT ![c] = [stage |-> "queue", ip |-> request[c].ip,
                                             wallet |-> request[c].wallet, row |-> s]]
  /\ UNCHANGED <<inUse, faults>>

\* The row is not saved: the wallet is free again.
InsertFails(c) ==
  /\ At(c, "insert")
  /\ faults < MaxFaults /\ faults' = faults + 1
  /\ inUse' = inUse \ {request[c].wallet}
  /\ Answer(c)
  /\ UNCHANGED swap

\* runConfirmEthSwapJob, runConfirmTonSwapJob
AddJob(c) ==
  /\ At(c, "queue")
  /\ swap' = [swap EXCEPT ![request[c].row].job = "queued"]
  /\ Answer(c)
  /\ UNCHANGED <<inUse, faults>>

\* The chain or Redis is not there: the row says failed, then the wallet is free.
AddJobFails(c) ==
  /\ At(c, "queue")
  /\ faults < MaxFaults /\ faults' = faults + 1
  /\ swap' = [swap EXCEPT ![request[c].row].status = "over"]
  /\ Goto(c, "release")
  /\ UNCHANGED inUse

ReleaseWallet(c) ==
  /\ At(c, "release")
  /\ inUse' = inUse \ {request[c].wallet}
  /\ Answer(c)
  /\ UNCHANGED <<swap, faults>>

Crash ==
  /\ faults < MaxFaults /\ faults' = faults + 1
  /\ request' = [c \in Clients |-> NoRequest]
  /\ UNCHANGED <<swap, inUse>>

-----------------------------------------------------------------------------
(* What ends a swap.                                                         *)

\* DELETE /swaps/{id}
CancelSwap(s) ==
  /\ swap[s].status = "pending"
  /\ swap' = [swap EXCEPT ![s].status = "over"]
  /\ UNCHANGED <<request, inUse, faults>>

\* The job finds the transfer, and the wallet may serve another swap.
ConfirmTransfer(s) ==
  /\ swap[s].status = "pending" /\ swap[s].job = "queued"
  /\ swap' = [swap EXCEPT ![s].status = "confirmed"]
  /\ inUse' = inUse \ {swap[s].wallet}
  /\ UNCHANGED <<request, faults>>

\* Mutant: the wallet is free, and the row stays as it was.
EndedRowForgotten(s) == [swap[s] EXCEPT !.job = "ended"]

EndedRow(s) == [swap[s] EXCEPT !.status = "over", !.job = "ended"]

\* The last job of the swap completes it, or a job finds it expired, failed or
\* canceled and marks the wallet as free.
EndJobs(s) ==
  /\ swap[s] # NoRow /\ swap[s].job = "queued"
  /\ swap' = [swap EXCEPT ![s] = EndedRow(s)]
  /\ \/ inUse' = inUse \ {swap[s].wallet}
     \/ swap[s].status = "confirmed" /\ UNCHANGED inUse
  /\ UNCHANGED <<request, faults>>

\* A crash between a job and the next one leaves the swap without any.
LoseJob(s) ==
  /\ swap[s] # NoRow /\ swap[s].job = "queued"
  /\ faults < MaxFaults /\ faults' = faults + 1
  /\ swap' = [swap EXCEPT ![s].job = "lost"]
  /\ UNCHANGED <<request, inUse>>

-----------------------------------------------------------------------------
RequestStep(c) ==
  \/ PickWallet(c) \/ MarkWallet(c) \/ InsertSwap(c) \/ AddJob(c) \/ ReleaseWallet(c)

Next ==
  \/ \E c \in Clients :
       \/ \E ip \in Addresses : CountPending(c, ip)
       \/ RequestStep(c) \/ InsertFails(c) \/ AddJobFails(c)
  \/ \E s \in Swaps :
       CancelSwap(s) \/ ConfirmTransfer(s) \/ EndJobs(s) \/ LoseJob(s)
  \/ Crash

Spec == Init /\ [][Next]_vars

\* A handler goes on, and the jobs of every swap come to an end.
FairSpec ==
  /\ Spec
  /\ \A c \in Clients : WF_vars(RequestStep(c))
  /\ \A s \in Swaps : WF_vars(EndJobs(s))

-----------------------------------------------------------------------------
(* Properties.                                                               *)

Requests ==
  {NoRequest}
    \cup [stage : {"pick"}, ip : Addresses, wallet : {NoWallet}]
    \cup [stage : {"mark", "insert"}, ip : Addresses, wallet : Wallets]
    \cup [stage : {"queue", "release"}, ip : Addresses, wallet : Wallets, row : Swaps]

TypeOK ==
  /\ request \in [Clients -> Requests]
  /\ swap \in [Swaps -> Rows \cup {NoRow}]
  /\ inUse \subseteq Wallets
  /\ faults \in 0..MaxFaults

\* The requests of ip that have been counted in and have no row yet.
Admitted(ip) ==
  {c \in Clients : request[c].stage \in {"pick", "mark", "insert"} /\ request[c].ip = ip}

\* Together with the swaps to come an address has at most one pending swap above
\* the limit for each request it can have at work.
AdmittedAreFew ==
  \A ip \in Addresses :
    Cardinality(PendingOf(ip)) + Cardinality(Admitted(ip)) <= Limit + Cardinality(Clients)

\* An address has at most one pending swap above the limit for each request it can
\* have at work: requests that overlap are not counted by each other, and the
\* limit is compared with >.
PendingAreFew ==
  \A ip \in Addresses : Cardinality(PendingOf(ip)) <= Limit + Cardinality(Clients)

\* The pending swaps without a job, and without a request that will add it.
Orphans(ip) ==
  {s \in PendingOf(ip) :
     \/ swap[s].job = "lost"
     \/ swap[s].job = "none" /\ \A c \in Clients : ~(At(c, "queue") /\ request[c].row = s)}

\* An address that is refused is served again, unless crashes have left as many
\* pending swaps of it that no job will ever end.
ServedAgain ==
  \A ip \in Addresses :
    Count(ip) > Limit ~> Count(ip) <= Limit \/ Cardinality(Orphans(ip)) > Limit
=============================================================================
