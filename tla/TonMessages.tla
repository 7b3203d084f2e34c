----------------------------- MODULE TonMessages -----------------------------
(* TonContractService.transfer, through which every mint, transfer, burn and *)
(* deployment on TON goes: it reads the sequence number of the signing       *)
(* wallet, signs a message with it and hands the message to toncenter.  The  *)
(* wallet carries a message out when its number is the next one.             *)
(*                                                                           *)
(* Nothing keeps two calls for one wallet apart: the wallet of the minter    *)
(* signs for every swap to TON, a giver for every deployment and deposit, a  *)
(* transferer for the fee and the burn of a swap and for an administrator.   *)
EXTENDS Naturals

CONSTANTS Wallets,    \* the wallets that sign
          Callers,    \* handlers, tasks and requests that call transfer() once
          WalletOf,   \* the wallet each of them signs with
          Deploys,    \* the callers among them that deploy their wallet
          Attempts,   \* how often Bull has a handler call again
          Deployed,   \* the wallets deployed at the start
          MaxFaults   \* bound: calls that throw, messages that get lost

ASSUME CallerAssumption == WalletOf \in [Callers -> Wallets] /\ Deploys \subseteq Callers
ASSUME AttemptAssumption == Attempts \in Nat \ {0} /\ MaxFaults \in Nat
ASSUME DeployedAssumption == Deployed \subseteq Wallets

VARIABLES
  seqno,      \* the next number each wallet will take
  active,     \* the wallets that are deployed
  caller,     \* where each call is, the number it has read, its attempt
  pool,       \* messages toncenter has taken
  executed,   \* messages carried out
  crossed,    \* history: callers whose call overlapped another of the wallet
  lost,       \* history: callers a message of which got lost
  faults      \* bound

vars == <<seqno, active, caller, pool, executed, crossed, lost, faults>>

Stages == {"ready", "signed", "done", "failed"}
Messages == [by : Callers, attempt : Nat, seqno : Nat]

SignerOf(m) == WalletOf[m.by]

Init ==
  /\ seqno = [w \in Wallets |-> 0]
  /\ active = Deployed
  /\ caller = [c \in Callers |-> [stage |-> "ready", seqno |-> 0, attempt |-> 1]]
  /\ pool = {}
  /\ executed = {}
  /\ crossed = {}
  /\ lost = {}
  /\ faults = 0

-----------------------------------------------------------------------------
(* transfer                                                                  *)

\* The calls of one wallet that have a number and whose message has yet to take
\* effect.
Unsettled(c) ==
  {d \in Callers \ {c} :
     /\ WalletOf[d] = WalletOf[c]
     /\ \/ caller[d].stage = "signed"
        \/ \E m \in pool : m.by = d /\ m.seqno = seqno[WalletOf[c]]}

\* Mutant: a number that cannot be read is taken for 0.
SeqnoOrZero(c) == 0

\* Mutant: the number is counted up before it is signed.
SeqnoAhead(c) == seqno[WalletOf[c]] + 1

\* seqno().call(): 0 as long as the wallet is not deployed.
Seqno(c) == seqno[WalletOf[c]]

ReadSeqno(c) ==
  /\ caller[c].stage = "ready"
  /\ caller' = [caller EXCEPT ![c].stage = "signed", ![c].seqno = Seqno(c)]
  /\ crossed' = IF Unsettled(c) = {} THEN crossed
                                     ELSE crossed \cup Unsettled(c) \cup {c}
  /\ UNCHANGED <<seqno, active, pool, executed, lost, faults>>

Signed(c) == [by |-> c, attempt |-> caller[c].attempt, seqno |-> caller[c].seqno]

\* toncenter has taken the message: the call returns, and the job is done.
Send(c) ==
  /\ caller[c].stage = "signed"
  /\ pool' = pool \cup {Signed(c)}
  /\ caller' = [caller EXCEPT ![c].stage = "done"]
  /\ UNCHANGED <<seqno, active, executed, crossed, lost, faults>>

\* Bull calls the handler again while it has attempts left.
NextAttempt(c) ==
  IF caller[c].attempt < Attempts
  THEN [caller[c] EXCEPT !.stage = "ready", !.attempt = @ + 1]
  ELSE [caller[c] EXCEPT !.stage = "failed"]

\* toncenter does not answer, answers with an error, or the process dies: the
\* message may have arrived all the same.
Throws(c) ==
  /\ caller[c].stage = "signed"
  /\ faults < MaxFaults
  /\ faults' = faults + 1
  /\ pool' \in {pool, pool \cup {Signed(c)}}
  /\ caller' = [caller EXCEPT ![c] = NextAttempt(c)]
  /\ UNCHANGED <<seqno, active, executed, crossed, lost>>

-----------------------------------------------------------------------------
(* TON: external.                                                            *)

\* A wallet takes the message with its next number, the first one only with the
\* code of the wallet (stateInit).
Takes(m) ==
  /\ m.seqno = seqno[SignerOf(m)]
  /\ SignerOf(m) \in active \/ m.by \in Deploys

Execute(m) ==
  /\ m \in pool
  /\ Takes(m)
  /\ pool' = pool \ {m}
  /\ executed' = executed \cup {m}
  /\ seqno' = [seqno EXCEPT ![SignerOf(m)] = @ + 1]
  /\ active' = active \cup {SignerOf(m)}
  /\ UNCHANGED <<caller, crossed, lost, faults>>

\* valid_until of a message passes, or no validator gets to see it.
Drop(m) ==
  /\ m \in pool
  /\ faults < MaxFaults
  /\ faults' = faults + 1
  /\ pool' = pool \ {m}
  /\ lost' = lost \cup {m.by}
  /\ UNCHANGED <<seqno, active, caller, executed, crossed>>

-----------------------------------------------------------------------------
Next ==
  \/ \E c \in Callers : ReadSeqno(c) \/ Send(c) \/ Throws(c)
  \/ \E m \in pool : Execute(m) \/ Drop(m)

Spec == Init /\ [][Next]_vars

\* Handlers go on, and validators take what they can.
Fairness ==
  /\ \A c \in Callers : WF_vars(ReadSeqno(c)) /\ WF_vars(Send(c))
  /\ WF_vars(\E m \in pool : Execute(m))

FairSpec == Spec /\ Fairness

-----------------------------------------------------------------------------
(* Properties.                                                               *)

TypeOK ==
  /\ seqno \in [Wallets -> Nat]
  /\ active \subseteq Wallets
  /\ caller \in [Callers -> [stage : Stages, seqno : Nat, attempt : 1..Attempts]]
  /\ pool \subseteq Messages
  /\ executed \subseteq Messages
  /\ crossed \subseteq Callers /\ lost \subseteq Callers
  /\ faults \in 0..MaxFaults

CarriedOut(c) == \E m \in executed : m.by = c
Pending(c) == \E m \in pool : m.by = c /\ m.seqno = seqno[WalletOf[c]]

\* A call that returned loses its message to nothing but another message with its
\* number: what transfer() signs is never ahead of the wallet nor behind the numbers
\* it has taken, however many calls read the number at once or are made again.
OnlyDisplaced ==
  \A c \in Callers \ lost :
    caller[c].stage = "done" =>
      \/ Pending(c)
      \/ \E m \in executed : SignerOf(m) = WalletOf[c] /\ m.seqno = caller[c].seqno

\* A call that returned and that no other call of the wallet overlapped is carried
\* out or still can be: its number is not taken away.
AloneIsCarried ==
  \A c \in Callers \ (crossed \cup lost) :
    caller[c].stage = "done" => CarriedOut(c) \/ Pending(c)

\* The same in the end: what returned is carried out, unless calls overlapped or
\* the network lost a message, or nobody has deployed the wallet.
AloneIsCarriedOut ==
  \A c \in Callers :
    caller[c].stage = "done"
      ~> CarriedOut(c) \/ c \in crossed \cup lost \/ WalletOf[c] \notin active
=============================================================================
