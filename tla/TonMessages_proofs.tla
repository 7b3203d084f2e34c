-------------------------- MODULE TonMessages_proofs --------------------------
(* What TonMessages says of any number of callers and wallets: a message is  *)
(* lost only to another one with its number, and a call that no other call   *)
(* of its wallet overlapped keeps its number.                                *)
EXTENDS TonMessages, TLAPS

-----------------------------------------------------------------------------
(* The inductive invariant.                                                  *)

\* No number that was read or signed is ahead of the wallet, and those carried out
\* are behind it.
NumbersOK ==
  /\ \A c \in Callers : caller[c].stage = "signed" => caller[c].seqno <= seqno[WalletOf[c]]
  /\ \A m \in pool : m.seqno <= seqno[SignerOf(m)]
  /\ \A m \in executed : m.seqno < seqno[SignerOf(m)]

\* The wallet has taken all the numbers before its next one.
UsedOK ==
  \A w \in Wallets, n \in Nat :
    n < seqno[w] => \E m \in executed : SignerOf(m) = w /\ m.seqno = n

\* What a call that returned has posted is there, or carried out, or lost.
PostedOK ==
  \A c \in Callers \ lost :
    caller[c].stage = "done" =>
      \E m \in pool \cup executed : m.by = c /\ m.seqno = caller[c].seqno

\* A call that crossed no other has the wallet to itself as long as it has a number
\* or a message that can still be carried out.
AloneOK ==
  \A c \in Callers \ crossed :
    caller[c].stage = "signed" \/ Pending(c) => Unsettled(c) = {}

\* Its number is the next one, unless an attempt before was carried out.
SignedOK ==
  \A c \in Callers \ (crossed \cup lost) :
    caller[c].stage = "signed" => caller[c].seqno = seqno[WalletOf[c]] \/ CarriedOut(c)

IInv == TypeOK /\ NumbersOK /\ UsedOK /\ PostedOK
          /\ AloneOK /\ SignedOK /\ AloneIsCarried

-----------------------------------------------------------------------------
(* One lemma per action.                                                     *)

\* The wallets before any call.
LEMMA InitInv == Init => IInv
<1> SUFFICES ASSUME Init PROVE IInv
  OBVIOUS
<1>1. TypeOK
  BY AttemptAssumption, DeployedAssumption DEF Init, TypeOK, Stages
<1>2. \A c \in Callers : caller[c].stage = "ready"
  BY DEF Init
<1>3. NumbersOK /\ UsedOK /\ PostedOK
  BY <1>2 DEF Init, NumbersOK, UsedOK, PostedOK
<1>4. AloneOK /\ SignedOK /\ AloneIsCarried
  BY <1>2 DEF Init, AloneOK, SignedOK, AloneIsCarried, Pending
<1> QED
  BY <1>1, <1>3, <1>4 DEF IInv

\* transfer() reads the number of the wallet.
LEMMA ReadSeqnoInv ==
  ASSUME IInv, NEW c \in Callers, ReadSeqno(c)
  PROVE  IInv'
<1> USE CallerAssumption DEF IInv
<1>1. TypeOK'
  BY DEF TypeOK, ReadSeqno, Seqno, Unsettled, Stages
<1>2. /\ \A d \in Callers \ {c} : caller'[d] = caller[d]
      /\ caller'[c].stage = "signed" /\ caller'[c].seqno = seqno[WalletOf[c]]
      /\ caller[c].stage = "ready"
  BY DEF ReadSeqno, Seqno, TypeOK
<1>3. UNCHANGED <<seqno, active, pool, executed, lost>>
  BY DEF ReadSeqno
<1>4. NumbersOK'
  BY <1>2, <1>3 DEF NumbersOK, SignerOf, TypeOK
<1>5. UsedOK'
  BY <1>3 DEF UsedOK, SignerOf
<1>6. PostedOK'
  BY <1>2, <1>3 DEF PostedOK
<1>7. /\ crossed \subseteq crossed'
      /\ Unsettled(c) # {} => Unsettled(c) \subseteq crossed' /\ c \in crossed'
  BY DEF ReadSeqno
<1>8. ASSUME NEW d \in Callers
      PROVE  Pending(d)' = Pending(d) /\ CarriedOut(d)' = CarriedOut(d)
  BY <1>3 DEF Pending, CarriedOut
<1>9. AloneOK'
  <2> SUFFICES ASSUME NEW d \in Callers, d \notin crossed',
                      caller'[d].stage = "signed" \/ Pending(d)'
               PROVE  Unsettled(d)' = {}
    BY DEF AloneOK
  <2>1. CASE d = c
    BY <2>1, <1>2, <1>3, <1>7 DEF Unsettled
  <2>2. CASE d # c /\ WalletOf[d] = WalletOf[c]
    <3>1. d \in Unsettled(c)
      BY <2>2, <1>2, <1>8 DEF Unsettled, Pending
    <3> QED
      BY <3>1, <1>7
  <2>3. CASE d # c /\ WalletOf[d] # WalletOf[c]
    <3>1. Unsettled(d)' = Unsettled(d)
      BY <2>3, <1>2, <1>3 DEF Unsettled
    <3> QED
      BY <3>1, <2>3, <1>2, <1>7, <1>8 DEF AloneOK
  <2> QED
    BY <2>1, <2>2, <2>3
<1>10. SignedOK'
  BY <1>2, <1>3, <1>7, <1>8 DEF SignedOK
<1>11. AloneIsCarried'
  BY <1>2, <1>3, <1>7, <1>8 DEF AloneIsCarried
<1> QED
  BY <1>1, <1>4, <1>5, <1>6, <1>9, <1>10, <1>11

\* The message is posted, or not, and the caller goes on from there: what a call
\* that returns and one that throws have in common.
Posts(c) ==
  /\ caller[c].stage = "signed"
  /\ pool' \in {pool, pool \cup {Signed(c)}}
  /\ \A d \in Callers \ {c} : caller'[d] = caller[d]
  /\ caller'[c].stage # "signed"
  /\ caller'[c].stage = "done" =>
       pool' = pool \cup {Signed(c)} /\ caller'[c].seqno = caller[c].seqno
  /\ UNCHANGED <<seqno, active, executed, crossed, lost>>

LEMMA PostsInv ==
  ASSUME IInv, TypeOK', NEW c \in Callers, Posts(c)
  PROVE  IInv'
<1> USE CallerAssumption DEF IInv
<1>1. /\ Signed(c) \in Messages
      /\ Signed(c).by = c
      /\ Signed(c).seqno = caller[c].seqno
  BY AttemptAssumption DEF Signed, Messages, TypeOK
<1>3. UNCHANGED <<seqno, executed, crossed, lost>> /\ caller[c].stage = "signed"
  BY DEF Posts
<1>4. NumbersOK'
  BY <1>1 DEF NumbersOK, Posts, SignerOf
<1>5. UsedOK'
  BY <1>3 DEF UsedOK, SignerOf
<1>6. PostedOK'
  <2> SUFFICES ASSUME NEW d \in Callers, d \notin lost, caller'[d].stage = "done"
               PROVE  \E m \in (pool \cup executed)' :
                        m.by = d /\ m.seqno = caller'[d].seqno
    BY <1>3 DEF PostedOK
  <2>1. CASE d # c
    BY <2>1, <1>3 DEF PostedOK, Posts
  <2>2. CASE d = c
    BY <2>2, <1>1 DEF Posts
  <2> QED
    BY <2>1, <2>2
<1>7. ASSUME NEW d \in Callers
      PROVE  /\ CarriedOut(d)' = CarriedOut(d)
             /\ Pending(d) => Pending(d)'
             /\ d # c => Pending(d)' = Pending(d)
  BY <1>1, <1>3 DEF CarriedOut, Pending, Posts
<1>8. ASSUME NEW d \in Callers \ crossed,
             caller'[d].stage = "signed" \/ Pending(d)'
      PROVE  Unsettled(d)' = {}
  <2>1. Unsettled(d) = {}
    BY <1>3, <1>7, <1>8 DEF AloneOK, Posts
  <2>2. WalletOf[d] = WalletOf[c] => d = c
    BY <2>1, <1>3 DEF Unsettled
  <2> QED
    BY <2>1, <2>2, <1>1, <1>3 DEF Unsettled, Posts
<1>9. AloneOK'
  BY <1>3, <1>8 DEF AloneOK
<1>10. SignedOK'
  BY <1>3, <1>7 DEF SignedOK, Posts
<1>11. AloneIsCarried'
  <2> SUFFICES ASSUME NEW d \in Callers, d \notin crossed \cup lost,
                      caller'[d].stage = "done"
               PROVE  CarriedOut(d)' \/ Pending(d)'
    BY <1>3 DEF AloneIsCarried
  <2>1. CASE d # c
    BY <2>1, <1>7 DEF AloneIsCarried, Posts
  <2>2. CASE d = c
    <3>1. Signed(c) \in pool'
      BY <2>2 DEF Posts
    <3>2. caller[c].seqno = seqno[WalletOf[c]] \/ CarriedOut(c)
      BY <2>2, <1>3 DEF SignedOK
    <3> QED
      BY <3>1, <3>2, <2>2, <1>1, <1>3, <1>7 DEF Pending
  <2> QED
    BY <2>1, <2>2
<1> QED
  BY <1>4, <1>5, <1>6, <1>9, <1>10, <1>11

\* toncenter has taken the message and the call returns.
LEMMA SendInv ==
  ASSUME IInv, NEW c \in Callers, Send(c)
  PROVE  IInv'
<1>1. TypeOK'
  BY CallerAssumption DEF IInv, TypeOK, Send, Signed, Messages, Stages
<1>2. Posts(c)
  BY DEF IInv, TypeOK, Send, Posts
<1> QED
  BY <1>1, <1>2, PostsInv

\* The call throws, whether or not the message has arrived.
LEMMA ThrowsInv ==
  ASSUME IInv, NEW c \in Callers, Throws(c)
  PROVE  IInv'
<1> USE AttemptAssumption DEF IInv
<1>1. NextAttempt(c) \in [stage : Stages, seqno : Nat, attempt : 1..Attempts]
  <2>1. caller[c] \in [stage : Stages, seqno : Nat, attempt : 1..Attempts]
    BY DEF TypeOK
  <2>2. CASE caller[c].attempt < Attempts
    <3>1. caller[c].attempt + 1 \in 1..Attempts
      BY <2>1, <2>2
    <3> QED
      BY <2>1, <2>2, <3>1 DEF NextAttempt, Stages
  <2>3. CASE ~(caller[c].attempt < Attempts)
    BY <2>1, <2>3 DEF NextAttempt, Stages
  <2> QED
    BY <2>2, <2>3
<1>2. NextAttempt(c).stage \in {"ready", "failed"}
  BY DEF TypeOK, NextAttempt
<1>3. Signed(c) \in Messages
  BY DEF TypeOK, Signed, Messages
<1>4. TypeOK'
  BY <1>1, <1>3 DEF TypeOK, Throws
<1>5. Posts(c)
  BY <1>2 DEF TypeOK, Throws, Posts
<1> QED
  BY <1>4, <1>5, PostsInv

\* The wallet carries out the message with its next number.
LEMMA ExecuteInv ==
  ASSUME IInv, NEW m \in pool, Execute(m)
  PROVE  IInv'
<1> USE CallerAssumption DEF IInv
<1>1. /\ m \in Messages /\ m.by \in Callers /\ m.seqno \in Nat
      /\ SignerOf(m) = WalletOf[m.by] /\ SignerOf(m) \in Wallets
      /\ m.seqno = seqno[SignerOf(m)]
  BY DEF TypeOK, Messages, SignerOf, Execute, Takes
<1>2. /\ pool' = pool \ {m} /\ executed' = executed \cup {m}
      /\ seqno'[SignerOf(m)] = seqno[SignerOf(m)] + 1
      /\ \A w \in Wallets \ {SignerOf(m)} : seqno'[w] = seqno[w]
      /\ UNCHANGED <<caller, crossed, lost, faults>>
  BY <1>1 DEF TypeOK, Execute
<1>3. TypeOK'
  BY <1>1, <1>2 DEF TypeOK, Execute
<1>4. NumbersOK'
  <2>1. \A w \in Wallets : seqno[w] \in Nat /\ seqno[w] <= seqno'[w]
    BY <1>1, <1>2 DEF TypeOK
  <2>2. \A n \in pool \cup executed : SignerOf(n) \in Wallets /\ n.seqno \in Nat
    BY DEF TypeOK, Messages, SignerOf
  <2>3. \A c \in Callers : caller[c].seqno \in Nat /\ WalletOf[c] \in Wallets
    BY DEF TypeOK
  <2>4. \A w \in Wallets : seqno'[w] \in Nat
    BY <1>3 DEF TypeOK
  <2>5. \A c \in Callers : caller'[c].stage = "signed" => caller'[c].seqno <= seqno'[WalletOf[c]]
    BY <1>2, <2>1, <2>3, <2>4 DEF NumbersOK
  <2>6. \A n \in pool' : n.seqno <= seqno'[SignerOf(n)]
    BY <1>2, <2>1, <2>2, <2>4 DEF NumbersOK
  <2>7. \A n \in executed' : n.seqno < seqno'[SignerOf(n)]
    BY <1>1, <1>2, <2>1, <2>2, <2>4 DEF NumbersOK
  <2> QED
    BY <2>5, <2>6, <2>7 DEF NumbersOK, SignerOf
<1>5. UsedOK'
  <2> SUFFICES ASSUME NEW w \in Wallets, NEW n \in Nat, n < seqno'[w]
               PROVE  \E k \in executed' : SignerOf(k) = w /\ k.seqno = n
    BY DEF UsedOK, SignerOf
  <2>1. CASE n < seqno[w]
    BY <2>1, <1>2 DEF UsedOK
  <2>2. CASE ~(n < seqno[w])
    <3>1. w = SignerOf(m) /\ n = seqno[w]
      BY <2>2, <1>1, <1>2 DEF TypeOK
    <3> QED
      BY <3>1, <1>1, <1>2
  <2> QED
    BY <2>1, <2>2
<1>6. PostedOK'
  BY <1>2 DEF PostedOK
<1>7. ASSUME NEW c \in Callers
      PROVE  /\ Pending(c)' => Pending(c)
             /\ CarriedOut(c) \/ c = m.by => CarriedOut(c)'
             /\ WalletOf[c] = SignerOf(m) => ~Pending(c)'
             /\ WalletOf[c] # SignerOf(m) /\ Pending(c) => Pending(c)'
  <2>1. ASSUME WalletOf[c] = SignerOf(m) PROVE ~Pending(c)'
    <3>1. \A n \in pool : n.by = c => n.seqno <= seqno[SignerOf(m)] /\ n.seqno \in Nat
      BY <2>1 DEF NumbersOK, SignerOf, TypeOK, Messages
    <3> QED
      BY <1>1, <1>2, <2>1, <3>1 DEF Pending, TypeOK
  <2>2. CASE WalletOf[c] # SignerOf(m)
    BY <1>1, <1>2, <2>2 DEF Pending, CarriedOut
  <2> QED
    BY <1>1, <1>2, <2>1, <2>2 DEF CarriedOut
<1>8. ASSUME NEW c \in Callers
      PROVE  Unsettled(c)' \subseteq Unsettled(c)
  <2> SUFFICES ASSUME NEW d \in Unsettled(c)' PROVE d \in Unsettled(c)
    OBVIOUS
  <2>1. /\ d \in Callers \ {c} /\ WalletOf[d] = WalletOf[c]
        /\ caller'[d].stage = "signed" \/ Pending(d)'
    BY DEF Unsettled, Pending
  <2>2. caller[d].stage = "signed" \/ Pending(d)
    BY <2>1, <1>2, <1>7
  <2> QED
    BY <2>1, <2>2 DEF Unsettled, Pending
<1>9. AloneOK'
  BY <1>2, <1>7, <1>8 DEF AloneOK
<1>10. ASSUME NEW c \in Callers \ crossed, WalletOf[c] = SignerOf(m),
              caller[c].stage = "signed" \/ Pending(c)
       PROVE  m.by = c
  BY <1>1, <1>10 DEF AloneOK, Unsettled
<1>11. SignedOK'
  <2> SUFFICES ASSUME NEW c \in Callers, c \notin crossed \cup lost,
                      caller[c].stage = "signed"
               PROVE  caller[c].seqno = seqno'[WalletOf[c]] \/ CarriedOut(c)'
    BY <1>2 DEF SignedOK
  <2> QED
    BY <1>1, <1>2, <1>7, <1>10 DEF SignedOK
<1>12. AloneIsCarried'
  BY <1>1, <1>2, <1>7, <1>10 DEF AloneIsCarried
<1> QED
  BY <1>3, <1>4, <1>5, <1>6, <1>9, <1>11, <1>12

\* A message expires.
LEMMA DropInv ==
  ASSUME IInv, NEW m \in pool, Drop(m)
  PROVE  IInv'
<1> USE CallerAssumption DEF IInv
<1>1. /\ m.by \in Callers /\ pool' = pool \ {m} /\ lost' = lost \cup {m.by}
      /\ UNCHANGED <<seqno, active, caller, executed, crossed>>
  BY DEF Drop, TypeOK, Messages
<1>2. TypeOK'
  BY <1>1, AttemptAssumption DEF TypeOK, Drop
<1>3. NumbersOK' /\ UsedOK' /\ PostedOK'
  BY <1>1 DEF NumbersOK, UsedOK, PostedOK, SignerOf
<1>4. ASSUME NEW c \in Callers
      PROVE  /\ CarriedOut(c)' = CarriedOut(c)
             /\ Pending(c)' => Pending(c)
             /\ Pending(c) => Pending(c)' \/ c \in lost'
             /\ Unsettled(c)' \subseteq Unsettled(c)
  BY <1>1 DEF CarriedOut, Pending, Unsettled
<1>5. AloneOK' /\ SignedOK' /\ AloneIsCarried'
  BY <1>1, <1>4 DEF AloneOK, SignedOK, AloneIsCarried
<1> QED
  BY <1>2, <1>3, <1>5

LEMMA NextInv ==
  ASSUME IInv, [Next]_vars
  PROVE  IInv'
<1>1. CASE UNCHANGED vars
  BY <1>1 DEF vars, IInv, TypeOK, NumbersOK, UsedOK, PostedOK, AloneOK,
              SignedOK, AloneIsCarried, Pending, CarriedOut, Unsettled, SignerOf
<1>2. CASE Next
  BY <1>2, ReadSeqnoInv, SendInv, ThrowsInv, ExecuteInv, DropInv DEF Next
<1> QED
  BY <1>1, <1>2

-----------------------------------------------------------------------------
(* The theorems.                                                             *)

\* The inductive invariant holds of every behaviour of TonMessages.
LEMMA Invariance == Spec => []IInv
<1>1. IInv /\ [Next]_vars => IInv'
  BY NextInv
<1> QED
  BY InitInv, <1>1, PTL DEF Spec

\* The types of the variables.
THEOREM TypeCorrect == Spec => []TypeOK
  BY Invariance, PTL DEF IInv

\* What is posted has the next number of the wallet, or one the wallet has taken.
LEMMA DisplacedInv == IInv => OnlyDisplaced
<1> SUFFICES ASSUME IInv, NEW c \in Callers, c \notin lost, caller[c].stage = "done"
             PROVE  \/ Pending(c)
                    \/ \E m \in executed :
                         SignerOf(m) = WalletOf[c] /\ m.seqno = caller[c].seqno
  BY DEF OnlyDisplaced
<1>1. PICK m \in pool \cup executed : m.by = c /\ m.seqno = caller[c].seqno
  BY DEF IInv, PostedOK
<1>2. /\ SignerOf(m) = WalletOf[c] /\ WalletOf[c] \in Wallets
      /\ m.seqno \in Nat /\ seqno[WalletOf[c]] \in Nat
  BY <1>1, CallerAssumption DEF IInv, TypeOK, SignerOf, Messages
<1>3. CASE m \in executed
  BY <1>1, <1>2, <1>3
<1>4. CASE m \in pool
  <2>1. m.seqno <= seqno[WalletOf[c]]
    BY <1>2, <1>4 DEF IInv, NumbersOK
  <2>2. CASE m.seqno = seqno[WalletOf[c]]
    BY <1>1, <1>4, <2>2 DEF Pending
  <2>3. CASE m.seqno < seqno[WalletOf[c]]
    BY <1>1, <1>2, <2>3 DEF IInv, UsedOK
  <2> QED
    BY <1>2, <2>1, <2>2, <2>3
<1> QED
  BY <1>1, <1>3, <1>4

\* transfer(): a message that a call has handed over and that did not get lost can
\* still be carried out, or its number went to a message that was, for any number of
\* calls, wallets and attempts.
THEOREM DisplacedByNumber == Spec => []OnlyDisplaced
  BY Invariance, DisplacedInv, PTL

\* transfer(): a call that returned and crossed no other call of its wallet has been
\* carried out or still can be.
THEOREM AloneKeepsItsNumber == Spec => []AloneIsCarried
  BY Invariance, PTL DEF IInv
=============================================================================
