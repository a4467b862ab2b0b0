-------------------------- MODULE ChallengerProofs --------------------------
(***************************************************************************)
(* Proofs about Challenger, for any number of invoices and of calls.       *)
(***************************************************************************)
EXTENDS Challenger, TLAPS, WellFoundedInduction

\* Most steps are first-order and go to Zenon; the others name their prover.
USE Zenon

USE DEF lndVars, fieldVars, callVars, historyVars, otherThanCall

-----------------------------------------------------------------------------
(***************************************************************************)
(* The operators of the model.                                             *)
(***************************************************************************)

\* Every nonempty set of naturals has a least element.
LEMMA LeastNatural ==
    ASSUME NEW T, T \subseteq Nat, T # {}
    PROVE  \E x \in T : \A y \in T : x <= y
<1>1. PICK x \in T : \A y \in T : ~ (<<y, x>> \in OpToRel(<, Nat))
    BY NatLessThanWellFounded, WFMin
<1>2. \A y \in T : ~ (y < x)
    BY <1>1 DEF OpToRel
<1> QED
    BY <1>2, SMT

\* LastHashIndex is an index of the log, or 0, and skips no invoice that has
\* a payment hash.
LEMMA LastHashIndexSpec ==
    ASSUME NEW log \in Seq(Invoice)
    PROVE  LET n == LastHashIndex(log)
           IN  /\ n \in 0..Len(log)
               /\ \A m \in (n + 1)..Len(log) : log[m] \in NoHash
<1> DEFINE Last(n) == /\ n > 0 => log[n] \notin NoHash
                      /\ \A m \in (n + 1)..Len(log) : log[m] \in NoHash
           Kept == {n \in 0..Len(log) :
                          \A m \in (n + 1)..Len(log) : log[m] \in NoHash}
<1>0. Len(log) \in Nat
    BY SMT
<1>1. Kept \subseteq Nat /\ Kept # {}
  <2>1. Len(log) \in Kept
    BY <1>0, SMT
  <2> QED BY <2>1, <1>0, SMT
<1>2. PICK n \in Kept : \A k \in Kept : n <= k
    BY <1>1, LeastNatural
<1>3. n > 0 => log[n] \notin NoHash
  <2> SUFFICES ASSUME n > 0, log[n] \in NoHash PROVE FALSE
      OBVIOUS
  <2>2. n - 1 \in 0..Len(log)
      BY <1>0, <1>2, SMT
  <2>3. ASSUME NEW m \in ((n - 1) + 1)..Len(log) PROVE log[m] \in NoHash
    <3>1. CASE m = n
      BY <3>1
    <3>2. CASE m # n
      <4>1. m \in (n + 1)..Len(log)
        BY <3>2, <1>0, SMT
      <4> QED BY <4>1
    <3> QED BY <3>1, <3>2
  <2>1. n - 1 \in Kept
      BY <2>2, <2>3
  <2>4. n \in Nat
      BY <1>0, SMT
  <2> HIDE DEF Kept
  <2>5. n <= n - 1
      BY <1>2, <2>1
  <2> QED
      BY <2>4, <2>5, SMT
<1>4. \E k \in 0..Len(log) : Last(k)
    BY <1>2, <1>3
<1> QED
    BY <1>4 DEF LastHashIndex

\* What lnd sends from an index on is a sequence of updates.
LEMMA SinceType ==
    ASSUME NEW log \in Seq(Invoice), NEW index \in Nat,
           inv \in [Invoice -> InvoiceState \union {None}],
           \A n \in 1..Len(log) : inv[log[n]] # None
    PROVE  Since(log, index) \in Seq(Update)
<1>0. Len(log) \in Nat /\ Len(log) - index \in Int
    BY SMT
<1>1. ASSUME NEW n \in 1..(Len(log) - index)
      PROVE  [inv |-> log[index + n], state |-> inv[log[index + n]]] \in Update
    <2>1. index + n \in 1..Len(log) BY <1>0, SMT
    <2>2. log[index + n] \in Invoice BY <2>1, SMT
    <2> QED BY <2>1, <2>2 DEF Update
<1>2. CASE Len(log) - index \in Nat
    <2>1. Since(log, index) \in [1..(Len(log) - index) -> Update]
        BY <1>1 DEF Since
    <2> QED BY <2>1, <1>2, SMT
<1>3. CASE Len(log) - index \notin Nat
    <2>1. 1..(Len(log) - index) = 1..0 BY <1>3, <1>0, SMT
    <2>2. Since(log, index) \in [1..0 -> Update] BY <2>1, <1>1 DEF Since
    <2> QED BY <2>2, SMT
<1> QED BY <1>2, <1>3

\* What Deliver leaves in the stream is a sequence of updates.
LEMMA DeliverType ==
    ASSUME stream \in Seq(Update), NEW i \in Invoice, NEW s \in InvoiceState,
           Deliver(i, s)
    PROVE  stream' \in Seq(Update)
<1>1. [inv |-> i, state |-> s] \in Update
    BY DEF Update
<1>2. Append(stream, [inv |-> i, state |-> s]) \in Seq(Update)
    BY <1>1, SMT
<1> QED
    BY <1>2 DEF Deliver

-----------------------------------------------------------------------------
(***************************************************************************)
(* The shape of the reachable states.  TypeOK alone is not inductive: the  *)
(* type of read rests on a call having a hash, that of stream on logged    *)
(* invoices having a state.                                                *)
(***************************************************************************)

CallsFit ==
    \A c \in Call :
        /\ caller[c] # "waiting" => /\ timer[c] = "off" /\ waiter[c] = "off"
                                   /\ timeoutReached[c] = FALSE
                                   /\ read[c] = None
        /\ caller[c] # "idle" => arg[c] \in Hash /\ want[c] \in WantState

LogsFit ==
    /\ \A n \in 1..Len(addLog) : inv[addLog[n]] # None
    /\ \A n \in 1..Len(settleLog) : inv[settleLog[n]] = "SETTLED"

MainFits ==
    /\ main \in {"down", "listed"} =>
           /\ reader = "off" /\ conn = "closed" /\ cur = NoUpdate
           /\ \A c \in Call : caller[c] = "idle"
    /\ main = "down" => \A i \in Invoice : invoiceStates[i] = None
    /\ main = "stopped" => reader = "done"

Shape == TypeOK /\ CallsFit /\ LogsFit /\ MainFits

\* What lnd sends when the subscription starts is true of its invoices.
LEMMA SubscribedStates ==
    ASSUME TypeOK, LogsFit, StartSubscribe
    PROVE  \A n \in 1..Len(stream') : stream'[n].state = inv[stream'[n].inv]
<1> DEFINE A == Since(addLog, addIndex)
           B == Since(settleLog, settleIndex)
<1>0. A \in Seq(Update) /\ B \in Seq(Update)
    BY SinceType DEF TypeOK, LogsFit, None
<1>1. \A n \in 1..Len(A) : A[n].state = inv[A[n].inv]
  <2>1. DOMAIN A = 1..Len(A)
      BY <1>0, SMT
  <2>2. \A n \in DOMAIN A : A[n].state = inv[A[n].inv]
      BY DEF Since
  <2> QED
      BY <2>1, <2>2
<1>2. \A n \in 1..Len(B) : B[n].state = inv[B[n].inv]
  <2>1. DOMAIN B = 1..Len(B)
      BY <1>0, SMT
  <2>2. \A n \in DOMAIN B : B[n].state = inv[B[n].inv]
      BY DEF Since
  <2> QED
      BY <2>1, <2>2
<1> HIDE DEF A, B
<1>3. ASSUME NEW n \in 1..Len(stream')
      PROVE  \/ n \in 1..Len(A) /\ stream'[n] = A[n]
             \/ n - Len(A) \in 1..Len(B) /\ stream'[n] = B[n - Len(A)]
  <2>1. stream' = A \o B
      BY DEF A, B, StartSubscribe
  <2> QED
      BY <1>0, <1>3, <2>1, SMT
<1>4. ASSUME NEW n \in 1..Len(stream')
      PROVE  stream'[n].state = inv[stream'[n].inv]
    BY <1>1, <1>2, <1>3
<1> QED
    BY <1>4

\* Every step preserves the types.
LEMMA TypeStep == Shape /\ [Next]_vars => TypeOK'
<1> SUFFICES ASSUME TypeOK, CallsFit, LogsFit, [Next]_vars
             PROVE  TypeOK'
    BY DEF Shape
<1> USE ChallengerAssumption
<1>1. ASSUME NEW i \in Invoice, LndAdd(i)
      PROVE  TypeOK'
  <2>1. stream' \in Seq(Update)
      BY <1>1, DeliverType DEF TypeOK, LndAdd, InvoiceState
  <2>2. inv' \in [Invoice -> InvoiceState \union {None}]
      BY <1>1 DEF TypeOK, LndAdd, InvoiceState
  <2>3. addLog' \in Seq(Invoice)
      BY <1>1, SMT DEF TypeOK, LndAdd
  <2> QED
      BY <1>1, <2>1, <2>2, <2>3, SMT DEF TypeOK, LndAdd
<1>2. ASSUME NEW i \in Invoice, LndSettle(i)
      PROVE  TypeOK'
  <2>1. stream' \in Seq(Update)
      BY <1>2, DeliverType DEF TypeOK, LndSettle, InvoiceState
  <2>2. inv' \in [Invoice -> InvoiceState \union {None}]
      BY <1>2 DEF TypeOK, LndSettle, InvoiceState
  <2>3. settleLog' \in Seq(Invoice)
      BY <1>2, SMT DEF TypeOK, LndSettle
  <2> QED
      BY <1>2, <2>1, <2>2, <2>3, SMT DEF TypeOK, LndSettle
<1>3. ASSUME NEW i \in Invoice, LndAccept(i) \/ LndCancel(i)
      PROVE  TypeOK'
  <2>1. stream' \in Seq(Update)
      BY <1>3, DeliverType DEF TypeOK, LndAccept, LndCancel, InvoiceState
  <2>2. inv' \in [Invoice -> InvoiceState \union {None}]
      BY <1>3 DEF TypeOK, LndAccept, LndCancel, InvoiceState
  <2> QED
      BY <1>3, <2>1, <2>2, SMT DEF TypeOK, LndAccept, LndCancel
<1>4. ASSUME NEW i \in Invoice, Expire(i)
      PROVE  TypeOK'
  <2>1. expired' \in [Invoice -> BOOLEAN]
      BY <1>4 DEF TypeOK, Expire
  <2> QED
      BY <1>4, <2>1, SMT DEF TypeOK, Expire
<1>5. ASSUME NEW i \in Invoice, NewSecret(i)
      PROVE  TypeOK'
  <2>1. settledAt' \in [Invoice -> {"noRow", "null", "valid"}]
      BY <1>5 DEF TypeOK, NewSecret
  <2> QED
      BY <1>5, <2>1 DEF TypeOK, NewSecret
<1>6. ASSUME NEW fault \in StreamFault, LndDisconnect(fault)
      PROVE  TypeOK'
  <2>1. conn' \in {"eof", "err"} /\ stream' \in Seq(Update)
      BY <1>6, SMT DEF LndDisconnect
  <2> QED
      BY <1>6, <2>1, SMT DEF TypeOK, LndDisconnect
<1>7. CASE StartList
  <2>1. addIndex' \in Nat /\ settleIndex' \in Nat
      BY <1>7, LastHashIndexSpec, SMT DEF TypeOK, StartList
  <2>2. invoiceStates' \in [Invoice -> InvoiceState \union {None}]
      BY <1>7 DEF TypeOK, StartList
  <2>3. fromList' \in SUBSET Invoice
      BY <1>7 DEF StartList, Hash
  <2> QED
      BY <1>7, <2>1, <2>2, <2>3 DEF TypeOK, StartList
<1>8. CASE StartSubscribe
  <2>1. /\ Since(addLog, addIndex) \in Seq(Update)
        /\ Since(settleLog, settleIndex) \in Seq(Update)
      BY SinceType DEF TypeOK, LogsFit, None
  <2>2. stream' \in Seq(Update)
      BY <1>8, <2>1, SMT DEF StartSubscribe
  <2> QED
      BY <1>8, <2>2 DEF TypeOK, StartSubscribe
<1>9. CASE EnterSelect \/ Interrupt \/ StopCancel \/ StopWait
  <2>1. CASE EnterSelect
      BY <2>1 DEF TypeOK, EnterSelect
  <2>2. CASE Interrupt
      BY <2>2 DEF TypeOK, Interrupt
  <2>3. CASE StopCancel
      BY <2>3 DEF TypeOK, StopCancel
  <2>4. CASE StopWait
      BY <2>4 DEF TypeOK, StopWait
  <2> QED
      BY <1>9, <2>1, <2>2, <2>3, <2>4
<1>10. CASE ProcessEnds
  <2>1. /\ invoiceStates' \in [Invoice -> InvoiceState \union {None}]
        /\ stream' \in Seq(Update)
      BY <1>10, SMT DEF ProcessEnds
  <2>2. timeoutReached' \in [Call -> BOOLEAN] /\ quit' \in BOOLEAN
      BY <1>10 DEF ProcessEnds
  <2> QED
      BY <1>10, <2>1, <2>2 DEF TypeOK, ProcessEnds
<1>11. CASE ReadCheckQuit \/ ReadFault \/ ReadSignal
    BY <1>11, SMT DEF TypeOK, ReadCheckQuit, ReadFault, ReadSignal
<1>12. CASE ReadCanceled \/ ReadBadHash
  <2>1. stream' = <<>>
      BY <1>12 DEF ReadCanceled, ReadBadHash
  <2>2. stream' \in Seq(Update)
      BY <2>1, SMT
  <2> QED
      BY <1>12, <2>2 DEF TypeOK, ReadCanceled, ReadBadHash
<1>13. CASE ReadRecv
  <2>1. Head(stream) \in Update /\ stream' \in Seq(Update)
      BY <1>13, SMT DEF TypeOK, ReadRecv
  <2> QED
      BY <1>13, <2>1 DEF TypeOK, ReadRecv
<1>14. CASE ReadApply
  <2>1. cur \in Update /\ cur.inv \in Invoice /\ cur.state \in InvoiceState
      BY <1>14 DEF TypeOK, ReadApply, Update
  <2>2. invoiceStates' \in [Invoice -> InvoiceState \union {None}]
      BY <1>14, <2>1 DEF TypeOK, ReadApply
  <2> QED
      BY <1>14, <2>1, <2>2 DEF TypeOK, ReadApply
<1>15. CASE ReadPersist
  <2>1. cur \in Update /\ cur.inv \in Invoice
      BY <1>15 DEF TypeOK, ReadPersist, Update
  <2>2. /\ settledAt' \in [Invoice -> {"noRow", "null", "valid"}]
        /\ dbFailed' \in SUBSET Invoice
      BY <1>15, <2>1, SMT DEF TypeOK, ReadPersist
  <2> QED
      BY <1>15, <2>1, <2>2 DEF TypeOK, ReadPersist
<1>16. CASE ReadBroadcast
  <2>1. waiter' \in [Call -> {"off", "start", "wait", "woken", "done"}]
      BY <1>16 DEF TypeOK, ReadBroadcast, Broadcast
  <2> QED
      BY <1>16, <2>1 DEF TypeOK, ReadBroadcast
<1>17. ASSUME NEW c \in Call, NEW i \in Hash, NEW s \in WantState,
              VerifyBegin(c, i, s)
       PROVE  TypeOK'
    BY <1>17, SMT DEF TypeOK, VerifyBegin
<1>18. ASSUME NEW c \in Call, TimerFires(c)
       PROVE  TypeOK'
    BY <1>18, SMT DEF TypeOK, TimerFires
<1>19. ASSUME NEW c \in Call, TimerSignals(c)
       PROVE  TypeOK'
  <2>1. /\ waiter' \in [Call -> {"off", "start", "wait", "woken", "done"}]
        /\ timer' \in [Call -> {"off", "armed", "fired", "done"}]
      BY <1>19 DEF TypeOK, TimerSignals, Broadcast
  <2>2. timeoutReached' \in [Call -> BOOLEAN]
      BY <1>19 DEF TypeOK, TimerSignals
  <2> QED
      BY <1>19, <2>1, <2>2, SMT DEF TypeOK, TimerSignals
<1>20. ASSUME NEW c \in Call, WaiterChecks(c)
       PROVE  TypeOK'
  <2>1. waiter' \in [Call -> {"off", "start", "wait", "woken", "done"}]
      BY <1>20 DEF TypeOK, WaiterChecks
  <2>3. arg[c] \in Invoice
      BY <1>20 DEF TypeOK, CallsFit, WaiterChecks, Hash
  <2>2. read' \in [Call -> InvoiceState \union {None}]
      BY <1>20, <2>3 DEF TypeOK, WaiterChecks
  <2> QED
      BY <1>20, <2>1, <2>2, SMT DEF TypeOK, WaiterChecks
<1>21. ASSUME NEW c \in Call, VerifyReturn(c)
       PROVE  TypeOK'
  <2>1. Result(read[c], want[c]) \in {"noInvoice", "wrongState", "ok"}
      BY DEF Result
  <2>2. /\ caller' \in [Call -> {"idle", "waiting", "ok", "noInvoice",
                                  "wrongState"}]
        /\ read' \in [Call -> InvoiceState \union {None}]
      BY <1>21, <2>1 DEF TypeOK, VerifyReturn
  <2>3. timeoutReached' \in [Call -> BOOLEAN]
      BY <1>21 DEF TypeOK, VerifyReturn
  <2> QED
      BY <1>21, <2>2, <2>3, SMT DEF TypeOK, VerifyReturn
<1>22. CASE UNCHANGED vars
    BY <1>22, SMT DEF TypeOK, vars
<1> QED
    BY <1>1, <1>2, <1>3, <1>4, <1>5, <1>6, <1>7, <1>8, <1>9, <1>10, <1>11,
       <1>12, <1>13, <1>14, <1>15, <1>16, <1>17, <1>18, <1>19, <1>20, <1>21,
       <1>22
    DEF Next, Lnd, Main, Reader, Verify, StartFails, Crash, Exit

\* Every step preserves what calls have in common.
LEMMA CallsFitStep == Shape /\ [Next]_vars => CallsFit'
<1> SUFFICES ASSUME TypeOK, CallsFit, [Next]_vars
             PROVE  CallsFit'
    BY DEF Shape
<1>1. CASE UNCHANGED callVars
    BY <1>1 DEF CallsFit
<1>2. CASE ProcessEnds
    BY <1>2 DEF CallsFit, ProcessEnds
<1>3. CASE ReadBroadcast
    BY <1>3 DEF TypeOK, CallsFit, ReadBroadcast, Broadcast
<1>4. ASSUME NEW c \in Call, NEW i \in Hash, NEW s \in WantState,
             VerifyBegin(c, i, s)
      PROVE  CallsFit'
    BY <1>4 DEF TypeOK, CallsFit, VerifyBegin
<1>5. ASSUME NEW c \in Call, TimerFires(c) \/ WaiterChecks(c)
      PROVE  CallsFit'
    BY <1>5, SMT DEF TypeOK, CallsFit, TimerFires, WaiterChecks
<1>6. ASSUME NEW c \in Call, TimerSignals(c)
      PROVE  CallsFit'
    BY <1>6, SMT DEF TypeOK, CallsFit, TimerSignals, Broadcast
<1>7. ASSUME NEW c \in Call, VerifyReturn(c)
      PROVE  CallsFit'
    BY <1>7 DEF TypeOK, CallsFit, VerifyReturn, Result
<1> QED
    BY <1>1, <1>2, <1>3, <1>4, <1>5, <1>6, <1>7
    DEF Next, Lnd, Main, Reader, Verify, StartFails, Crash, Exit, vars,
        LndAdd, LndAccept, LndSettle, LndCancel, Expire, LndDisconnect,
        NewSecret, StartList, StartSubscribe, EnterSelect, Interrupt,
        StopCancel, StopWait, ReadCheckQuit, ReadRecv, ReadCanceled,
        ReadBadHash, ReadFault, ReadSignal, ReadApply, ReadPersist

\* Every step preserves what lnd's logs say of its invoices.
LEMMA LogsFitStep == Shape /\ [Next]_vars => LogsFit'
<1> SUFFICES ASSUME TypeOK, LogsFit, [Next]_vars
             PROVE  LogsFit'
    BY DEF Shape
<1>1. CASE UNCHANGED <<inv, addLog, settleLog>>
    BY <1>1 DEF LogsFit
<1>2. ASSUME NEW i \in Invoice, LndAdd(i)
      PROVE  LogsFit'
    BY <1>2, SMT DEF TypeOK, LogsFit, LndAdd, None
<1>3. ASSUME NEW i \in Invoice, LndSettle(i)
      PROVE  LogsFit'
    BY <1>3, SMT DEF TypeOK, LogsFit, LndSettle, None
<1>4. ASSUME NEW i \in Invoice, LndAccept(i) \/ LndCancel(i)
      PROVE  LogsFit'
    BY <1>4, SMT DEF TypeOK, LogsFit, LndAccept, LndCancel, None
<1> QED
    BY <1>1, <1>2, <1>3, <1>4
    DEF Next, Lnd, Main, Reader, Verify, StartFails, Crash, Exit, vars,
        Expire, LndDisconnect, NewSecret, StartList, StartSubscribe,
        EnterSelect, Interrupt, StopCancel, StopWait, ProcessEnds,
        ReadCheckQuit, ReadRecv, ReadCanceled, ReadBadHash, ReadFault,
        ReadSignal, ReadApply, ReadPersist, ReadBroadcast, VerifyBegin,
        TimerFires, TimerSignals, WaiterChecks, VerifyReturn

\* Every step preserves how main, the reader and the calls fit together.
LEMMA MainFitsStep == Shape /\ [Next]_vars => MainFits'
<1> SUFFICES ASSUME TypeOK, CallsFit, MainFits, [Next]_vars
             PROVE  MainFits'
    BY DEF Shape
<1>1. CASE UNCHANGED <<main, reader, caller, invoiceStates, conn, cur>>
    BY <1>1 DEF MainFits
<1>2. CASE Main
  <2>1. CASE StartList
      BY <2>1 DEF MainFits, StartList
  <2>2. CASE StartSubscribe \/ EnterSelect \/ Interrupt \/ StopCancel
      BY <2>2 DEF MainFits, StartSubscribe, EnterSelect, Interrupt, StopCancel
  <2>3. CASE StopWait
      BY <2>3 DEF MainFits, StopWait
  <2>4. CASE ProcessEnds
      BY <2>4 DEF MainFits, ProcessEnds
  <2> QED
      BY <1>2, <2>1, <2>2, <2>3, <2>4 DEF Main, StartFails, Crash, Exit
<1>3. CASE Reader \/ ReadBadHash
  <2>1. /\ reader \notin {"off", "done"}
        /\ reader' # "off"
        /\ main' = main \/ (main = "serving" /\ main' = "interrupted")
      BY <1>3 DEF Reader, ReadCheckQuit, ReadRecv, ReadCanceled, ReadBadHash,
                  ReadFault, ReadSignal, ReadApply, ReadPersist, ReadBroadcast
  <2> QED
      BY <2>1 DEF MainFits
<1>4. ASSUME NEW c \in Call, Verify(c)
      PROVE  MainFits'
    BY <1>4 DEF TypeOK, CallsFit, MainFits, Verify, VerifyBegin, TimerFires,
                TimerSignals, WaiterChecks, VerifyReturn
<1>5. ASSUME NEW fault \in StreamFault, LndDisconnect(fault)
      PROVE  MainFits'
    BY <1>5 DEF MainFits, LndDisconnect
<1> QED
    BY <1>1, <1>2, <1>3, <1>4, <1>5
    DEF Next, Lnd, LndAdd, LndAccept, LndSettle, LndCancel, Expire,
        NewSecret, vars

\* Shape is an inductive invariant.
LEMMA ShapeStep == Shape /\ [Next]_vars => Shape'
BY TypeStep, CallsFitStep, LogsFitStep, MainFitsStep DEF Shape

\* When aperture starts for the first time lnd's logs are empty and no call
\* is under way.
LEMMA ShapeInit == Init => Shape
<1> SUFFICES ASSUME Init PROVE Shape
    OBVIOUS
<1>1. stream \in Seq(Update) /\ addLog \in Seq(Invoice)
      /\ settleLog \in Seq(Invoice)
    BY SMT DEF Init
<1>2. timeoutReached \in [Call -> BOOLEAN] /\ quit \in BOOLEAN
      /\ expired \in [Invoice -> BOOLEAN]
    BY DEF Init
<1>3. TypeOK
    BY <1>1, <1>2 DEF Init, TypeOK
<1>4. CallsFit /\ MainFits
    BY DEF Init, CallsFit, MainFits
<1>5. LogsFit
    BY SMT DEF Init, LogsFit
<1> QED
    BY <1>3, <1>4, <1>5 DEF Shape

\* Types: in every reachable state every variable has its type, for any sets
\* of invoices and calls.
THEOREM TypeCorrect == Spec => []TypeOK
<1>1. Spec => []Shape
    BY ShapeInit, ShapeStep, PTL DEF Spec
<1>2. Shape => TypeOK
    BY DEF Shape
<1> QED
    BY <1>1, <1>2, PTL

-----------------------------------------------------------------------------
(***************************************************************************)
(* VerifiedIsPaid.  Whatever carries the word SETTLED (the cache, a message *)
(* on its way, the reader's message, what a waiter read) carries it about  *)
(* an invoice that lnd has settled, and lnd never takes that back.         *)
(***************************************************************************)

SettledIsPaid ==
    /\ \A i \in Invoice : invoiceStates[i] = "SETTLED" => inv[i] = "SETTLED"
    /\ \A n \in 1..Len(stream) :
           stream[n].state = "SETTLED" => inv[stream[n].inv] = "SETTLED"
    /\ cur.state = "SETTLED" => inv[cur.inv] = "SETTLED"
    /\ \A c \in Call : read[c] = "SETTLED" => inv[arg[c]] = "SETTLED"
    /\ VerifiedIsPaid

\* What lnd has settled stays settled.
LEMMA PaidForGood ==
    ASSUME TypeOK, [Next]_vars, NEW i \in Invoice, inv[i] = "SETTLED"
    PROVE  inv'[i] = "SETTLED"
<1>1. ASSUME NEW j \in Invoice,
             LndAdd(j) \/ LndAccept(j) \/ LndSettle(j) \/ LndCancel(j)
      PROVE  inv'[i] = "SETTLED"
    BY <1>1, SMT DEF TypeOK, LndAdd, LndAccept, LndSettle, LndCancel, None
<1>2. CASE UNCHANGED inv
    BY <1>2
<1> QED
    BY <1>1, <1>2
    DEF Next, Lnd, Main, Reader, Verify, StartFails, Crash, Exit, vars,
        Expire, LndDisconnect, NewSecret, StartList, StartSubscribe,
        EnterSelect, Interrupt, StopCancel, StopWait, ProcessEnds,
        ReadCheckQuit, ReadRecv, ReadCanceled, ReadBadHash, ReadFault,
        ReadSignal, ReadApply, ReadPersist, ReadBroadcast, VerifyBegin,
        TimerFires, TimerSignals, WaiterChecks, VerifyReturn

\* Every step preserves SettledIsPaid.
LEMMA SettledIsPaidStep ==
    Shape /\ SettledIsPaid /\ [Next]_vars => SettledIsPaid'
<1> SUFFICES ASSUME Shape, TypeOK, CallsFit, LogsFit, SettledIsPaid,
                    [Next]_vars
             PROVE  SettledIsPaid'
    BY DEF Shape
<1> DEFINE Volatile == <<invoiceStates, stream, cur, read, arg, caller, want>>
<1>0. \A i \in Invoice : inv[i] = "SETTLED" => inv'[i] = "SETTLED"
    BY PaidForGood
<1>1. ASSUME UNCHANGED <<invoiceStates, cur, read, arg, caller, want>>,
             \A n \in 1..Len(stream') :
                 stream'[n].state = "SETTLED" =>
                     inv'[stream'[n].inv] = "SETTLED"
      PROVE  SettledIsPaid'
  <2>1. cur.state = "SETTLED" => cur.inv \in Invoice
      BY SMT DEF TypeOK, Update, NoUpdate, None
  <2>2. \A c \in Call : read[c] = "SETTLED" \/ caller[c] = "ok"
                            => arg[c] \in Invoice
      BY DEF CallsFit, Hash, None
  <2> QED
      BY <1>0, <1>1, <2>1, <2>2 DEF SettledIsPaid, VerifiedIsPaid, TypeOK
<1>2. \A n \in 1..Len(stream) :
          stream[n].state = "SETTLED" => inv'[stream[n].inv] = "SETTLED"
  <2>1. \A n \in 1..Len(stream) : stream[n] \in Update
      BY SMT DEF TypeOK
  <2>2. \A n \in 1..Len(stream) : stream[n].inv \in Invoice
      BY <2>1 DEF Update
  <2> QED
      BY <1>0, <2>2 DEF SettledIsPaid
<1>3. CASE UNCHANGED Volatile
    BY <1>1, <1>2, <1>3
<1>4. ASSUME NEW i \in Invoice, NEW s \in InvoiceState, Deliver(i, s),
             s = "SETTLED" => inv'[i] = "SETTLED",
             UNCHANGED <<invoiceStates, cur, read, arg, caller, want>>
      PROVE  SettledIsPaid'
  <2>1. ASSUME NEW n \in 1..Len(stream'), stream'[n].state = "SETTLED"
        PROVE  inv'[stream'[n].inv] = "SETTLED"
    <3>1. CASE n \in 1..Len(stream) /\ stream'[n] = stream[n]
        BY <1>2, <2>1, <3>1
    <3>2. CASE stream'[n] = [inv |-> i, state |-> s]
        BY <1>4, <2>1, <3>2, SMT
    <3> QED
        BY <1>4, <2>1, <3>1, <3>2, SMT DEF Deliver, TypeOK
  <2> QED
      BY <1>1, <1>4, <2>1
<1>5. ASSUME NEW i \in Invoice,
             LndAdd(i) \/ LndAccept(i) \/ LndSettle(i) \/ LndCancel(i)
      PROVE  SettledIsPaid'
  <2>1. CASE UNCHANGED stream
      BY <1>3, <1>5, <2>1 DEF LndAdd, LndAccept, LndSettle, LndCancel
  <2>2. CASE LndSettle(i)
      BY <1>4, <2>2 DEF LndSettle, InvoiceState, TypeOK
  <2>3. CASE ~UNCHANGED stream /\ ~LndSettle(i)
      BY <1>4, <1>5, <2>3 DEF LndAdd, LndAccept, LndCancel, InvoiceState
  <2> QED
      BY <2>1, <2>2, <2>3
<1>6. ASSUME stream' = <<>>,
             UNCHANGED <<invoiceStates, cur, read, arg, caller, want>>
      PROVE  SettledIsPaid'
    BY <1>1, <1>6, SMT
<1>7. CASE StartList
  <2>1. \A i \in Invoice : invoiceStates'[i] = "SETTLED"
                               => inv'[i] = "SETTLED"
      BY <1>7 DEF StartList, None
  <2> QED
      BY <1>7, <2>1 DEF StartList, SettledIsPaid, VerifiedIsPaid
<1>8. CASE StartSubscribe
  <2>1. \A n \in 1..Len(stream') : stream'[n].state = inv[stream'[n].inv]
      BY <1>8, SubscribedStates
  <2> QED
      BY <1>1, <1>8, <2>1 DEF StartSubscribe
<1>9. CASE ProcessEnds
    BY <1>9, SMT DEF ProcessEnds, SettledIsPaid, VerifiedIsPaid, NoUpdate, None
<1>10. CASE ReadRecv
  <2>1. /\ Len(stream') \in Nat /\ Len(stream) = Len(stream') + 1
        /\ \A n \in 1..Len(stream') : stream'[n] = stream[n + 1]
        /\ Head(stream) = stream[1]
      BY <1>10, SMT DEF ReadRecv, TypeOK
  <2> QED
      BY <1>10, <2>1, SMT DEF ReadRecv, SettledIsPaid, VerifiedIsPaid
<1>11. CASE ReadApply
    BY <1>11, SMT DEF ReadApply, SettledIsPaid, VerifiedIsPaid, TypeOK, Update,
       None
<1>12. CASE ReadBroadcast
    BY <1>12 DEF ReadBroadcast, SettledIsPaid, VerifiedIsPaid, NoUpdate, None
<1>13. ASSUME NEW c \in Call, NEW i \in Hash, NEW s \in WantState,
              VerifyBegin(c, i, s)
       PROVE  SettledIsPaid'
    BY <1>13, SMT DEF VerifyBegin, SettledIsPaid, VerifiedIsPaid, TypeOK,
       CallsFit, None
<1>14. ASSUME NEW c \in Call, WaiterChecks(c)
       PROVE  SettledIsPaid'
  <2>1. arg[c] \in Invoice
      BY <1>14 DEF WaiterChecks, TypeOK, CallsFit, Hash
  <2> QED
      BY <1>14, <2>1, SMT DEF WaiterChecks, SettledIsPaid, VerifiedIsPaid,
         TypeOK
<1>15. ASSUME NEW c \in Call, VerifyReturn(c)
       PROVE  SettledIsPaid'
    BY <1>15, SMT DEF VerifyReturn, Result, SettledIsPaid, VerifiedIsPaid,
       TypeOK, None
<1> QED
    BY <1>3, <1>5, <1>6, <1>7, <1>8, <1>9, <1>10, <1>11, <1>12, <1>13, <1>14,
       <1>15
    DEF Next, Lnd, Main, Reader, Verify, StartFails, Crash, Exit, vars,
        Expire, LndDisconnect, NewSecret, EnterSelect, Interrupt, StopCancel,
        StopWait, ReadCheckQuit, ReadCanceled, ReadBadHash, ReadFault,
        ReadSignal, ReadPersist, TimerFires, TimerSignals

\* Nothing says SETTLED before lnd has invoices.
LEMMA SettledIsPaidInit == Init => SettledIsPaid
BY SMT DEF Init, SettledIsPaid, VerifiedIsPaid, NoUpdate, None

\* A call that asked for SETTLED and was told yes is about a settled invoice,
\* in every behaviour and for any number of invoices and concurrent calls.
THEOREM VerifiedIsPaidHolds == Spec => []VerifiedIsPaid
<1>1. Spec => [](Shape /\ SettledIsPaid)
    BY SettledIsPaidInit, ShapeInit, ShapeStep, SettledIsPaidStep, PTL
    DEF Spec
<1>2. SettledIsPaid => VerifiedIsPaid
    BY DEF SettledIsPaid
<1> QED
    BY <1>1, <1>2, PTL

-----------------------------------------------------------------------------
(***************************************************************************)
(* NoLostWakeup.                                                           *)
(***************************************************************************)

\* The cache changes only with the mutex held until the next Broadcast, or
\* before there are calls.
LEMMA NoLostWakeupStep ==
    Shape /\ NoLostWakeup /\ [Next]_vars => NoLostWakeup'
<1> SUFFICES ASSUME TypeOK, CallsFit, MainFits, NoLostWakeup, [Next]_vars
             PROVE  NoLostWakeup'
    BY DEF Shape
<1> USE DEF NoLostWakeup, Locked
<1>1. CASE UNCHANGED <<reader, invoiceStates, arg, want, waiter,
                       timeoutReached>>
    BY <1>1
<1>2. CASE StartList
    BY <1>2 DEF StartList, MainFits, CallsFit
<1>3. CASE StartSubscribe
    BY <1>3 DEF StartSubscribe, MainFits
<1>4. CASE ProcessEnds
    BY <1>4 DEF ProcessEnds
<1>5. CASE Reader \/ ReadBadHash
  <2>1. CASE ReadApply \/ ReadPersist
      BY <2>1 DEF ReadApply, ReadPersist
  <2>2. CASE ReadBroadcast
      BY <2>2 DEF ReadBroadcast, Broadcast, TypeOK
  <2>3. CASE ReadCheckQuit \/ ReadRecv \/ ReadCanceled \/ ReadBadHash
      BY <2>3 DEF ReadCheckQuit, ReadRecv, ReadCanceled, ReadBadHash
  <2>4. CASE ReadFault \/ ReadSignal
      BY <2>4 DEF ReadFault, ReadSignal
  <2> QED
      BY <1>5, <2>1, <2>2, <2>3, <2>4 DEF Reader
<1>6. ASSUME NEW c \in Call, NEW i \in Hash, NEW s \in WantState,
             VerifyBegin(c, i, s)
      PROVE  NoLostWakeup'
    BY <1>6 DEF VerifyBegin, TypeOK
<1>7. ASSUME NEW c \in Call, TimerSignals(c)
      PROVE  NoLostWakeup'
    BY <1>7 DEF TimerSignals, Broadcast, TypeOK
<1>8. ASSUME NEW c \in Call, WaiterChecks(c)
      PROVE  NoLostWakeup'
    BY <1>8 DEF WaiterChecks, TypeOK
<1>9. ASSUME NEW c \in Call, VerifyReturn(c)
      PROVE  NoLostWakeup'
    BY <1>9, ZenonT(30) DEF VerifyReturn, TypeOK
<1> QED
    BY <1>1, <1>2, <1>3, <1>4, <1>5, <1>6, <1>7, <1>8, <1>9
    DEF Next, Lnd, Main, Verify, StartFails, Crash, Exit, vars, LndAdd,
        LndAccept, LndSettle, LndCancel, Expire, LndDisconnect, NewSecret,
        EnterSelect, Interrupt, StopCancel, StopWait, TimerFires

\* No wake-up of the condition variable is lost, for any number of calls.
THEOREM NoLostWakeupHolds == Spec => []NoLostWakeup
<1>1. Init => NoLostWakeup
    BY DEF Init, NoLostWakeup
<1>2. Spec => [](Shape /\ NoLostWakeup)
    BY <1>1, ShapeInit, ShapeStep, NoLostWakeupStep, PTL DEF Spec
<1> QED
    BY <1>2, PTL

-----------------------------------------------------------------------------
(***************************************************************************)
(* PaidHasSettledAt and QuietAfterStop: the cache and the database.        *)
(***************************************************************************)

\* Invoice i lacks its settlement time only for one of the two known reasons.
Recorded(i) == settledAt[i] = "null" => i \in fromList \union dbFailed

\* The cache runs ahead of the database only under the mutex.
SettledIsRecorded ==
    /\ \A i \in Invoice :
           invoiceStates[i] = "SETTLED" =>
               Recorded(i) \/ (reader = "persist" /\ cur.inv = i)
    /\ \A c \in Call : read[c] = "SETTLED" => Recorded(arg[c])
    /\ PaidHasSettledAt

\* Every step preserves SettledIsRecorded.
LEMMA SettledIsRecordedStep ==
    Shape /\ SettledIsPaid /\ SettledIsRecorded /\ [Next]_vars
        => SettledIsRecorded'
<1> SUFFICES ASSUME TypeOK, CallsFit, MainFits, SettledIsPaid,
                    SettledIsRecorded, [Next]_vars
             PROVE  SettledIsRecorded'
    BY DEF Shape
<1> USE DEF SettledIsRecorded, PaidHasSettledAt, Recorded
<1>1. CASE /\ reader \notin {"persist", "lock"} /\ reader' # "persist"
           /\ UNCHANGED <<invoiceStates, settledAt, fromList, dbFailed, read,
                          caller, arg, want>>
    BY <1>1
<1>2. CASE UNCHANGED <<invoiceStates, settledAt, fromList, dbFailed, read,
                       caller, arg, want, reader, cur>>
    BY <1>2
<1>3. ASSUME NEW i \in Invoice, NewSecret(i)
      PROVE  SettledIsRecorded'
  <2>1. \A j \in Invoice : inv[j] = "SETTLED" => settledAt'[j] = settledAt[j]
      BY <1>3 DEF NewSecret, TypeOK
  <2>2. \A c \in Call : read[c] = "SETTLED" \/ caller[c] = "ok"
                            => arg[c] \in Invoice
      BY DEF CallsFit, Hash, None
  <2> QED
      BY <1>3, <2>1, <2>2, SMT DEF NewSecret, SettledIsPaid, VerifiedIsPaid
<1>4. CASE StartList
    BY <1>4 DEF StartList, MainFits, CallsFit, Hash, None
<1>5. CASE ProcessEnds
    BY <1>5 DEF ProcessEnds, None
<1>6. CASE ReadApply
  <2>1. cur.inv \in Invoice
      BY <1>6 DEF ReadApply, TypeOK, Update
  <2> QED
      BY <1>6, <2>1, SMT DEF ReadApply, Irrelevant, TypeOK, None
<1>7. CASE ReadPersist
  <2>1. cur.inv \in Invoice
      BY <1>7 DEF ReadPersist, TypeOK, Update
  <2>2. \A i \in Invoice : Recorded(i) => Recorded(i)'
      BY <1>7, <2>1, SMT DEF ReadPersist, TypeOK
  <2>3. Recorded(cur.inv)'
      BY <1>7, <2>1, SMT DEF ReadPersist, TypeOK
  <2>4. \A c \in Call : read[c] = "SETTLED" \/ caller[c] = "ok"
                            => arg[c] \in Invoice
      BY DEF CallsFit, Hash, None
  <2> QED
      BY <1>7, <2>2, <2>3, <2>4 DEF ReadPersist
<1>8. CASE ReadBroadcast
    BY <1>8 DEF ReadBroadcast
<1>9. ASSUME NEW c \in Call, NEW i \in Hash, NEW s \in WantState,
             VerifyBegin(c, i, s)
      PROVE  SettledIsRecorded'
    BY <1>9, SMT DEF VerifyBegin, TypeOK, CallsFit, None
<1>10. ASSUME NEW c \in Call, WaiterChecks(c)
       PROVE  SettledIsRecorded'
  <2>1. arg[c] \in Invoice
      BY <1>10 DEF WaiterChecks, TypeOK, CallsFit, Hash
  <2> QED
      BY <1>10, <2>1 DEF WaiterChecks, Locked, TypeOK
<1>11. ASSUME NEW c \in Call, VerifyReturn(c)
       PROVE  SettledIsRecorded'
    BY <1>11, SMT DEF VerifyReturn, Result, TypeOK, None
<1> QED
    BY <1>1, <1>2, <1>3, <1>4, <1>5, <1>6, <1>7, <1>8, <1>9, <1>10, <1>11
    DEF Next, Lnd, Main, Reader, Verify, StartFails, Crash, Exit, vars,
        LndAdd, LndAccept, LndSettle, LndCancel, Expire, LndDisconnect,
        StartSubscribe, EnterSelect, Interrupt, StopCancel, StopWait,
        ReadCheckQuit, ReadRecv, ReadCanceled, ReadBadHash, ReadFault,
        ReadSignal, TimerFires, TimerSignals, MainFits

\* A paid token has its settlement time, except for the two known reasons.
THEOREM PaidHasSettledAtHolds == Spec => []PaidHasSettledAt
<1>1. Init => SettledIsRecorded
    BY SMT DEF Init, SettledIsRecorded, PaidHasSettledAt, None
<1>2. Spec => [](Shape /\ SettledIsPaid /\ SettledIsRecorded)
    BY <1>1, ShapeInit, ShapeStep, SettledIsPaidInit, SettledIsPaidStep,
       SettledIsRecordedStep, PTL DEF Spec
<1>3. SettledIsRecorded => PaidHasSettledAt
    BY DEF SettledIsRecorded
<1> QED
    BY <1>2, <1>3, PTL

\* After Stop the challenger leaves cache and database alone: its reader has
\* ended, and calls only read.
THEOREM QuietAfterStopHolds == Spec => QuietAfterStop
<1>1. Shape /\ [Next]_vars =>
          (main = "stopped" /\ main' = "stopped" =>
               UNCHANGED <<settledAt, invoiceStates>>)
    BY DEF Shape, MainFits, Next, Lnd, Main, Reader, Verify, StartFails,
           Crash, Exit, vars, LndAdd, LndAccept, LndSettle, LndCancel, Expire,
           LndDisconnect, NewSecret, StartList, StartSubscribe, EnterSelect,
           Interrupt, StopCancel, StopWait, ProcessEnds, ReadCheckQuit,
           ReadRecv, ReadCanceled, ReadBadHash, ReadFault, ReadSignal,
           ReadApply, ReadPersist, ReadBroadcast, VerifyBegin, TimerFires,
           TimerSignals, WaiterChecks, VerifyReturn
<1>2. Spec => []Shape
    BY ShapeInit, ShapeStep, PTL DEF Spec
<1> QED
    BY <1>1, <1>2, PTL DEF Spec, QuietAfterStop

-----------------------------------------------------------------------------
(***************************************************************************)
(* SettledSticks and NoMissedSettlement: what the subscription announces   *)
(* comes in an order that the cache can follow, and nothing settles        *)
(* between the two halves of Start without being announced.                *)
(***************************************************************************)

\* What is still on its way about invoice i says that it is settled.
OnlySettled(i) ==
    \A n \in 1..Len(stream) :
        stream[n].inv = i => stream[n].state = "SETTLED"

\* Once an invoice is said to be settled, nothing that is read later says
\* otherwise.
InOrder ==
    /\ main \in {"down", "listed"} => stream = <<>>
    /\ \A m, n \in 1..Len(stream) :
           m < n /\ stream[m].inv = stream[n].inv
               /\ stream[m].state = "SETTLED" => stream[n].state = "SETTLED"
    /\ reader = "lock" /\ cur.state = "SETTLED" => OnlySettled(cur.inv)
    /\ \A i \in Invoice : invoiceStates[i] = "SETTLED" =>
           /\ OnlySettled(i)
           /\ reader = "lock" /\ cur.inv = i => cur.state = "SETTLED"

\* A settled invoice is in the cache or on its way there.
Noticed(i) ==
    \/ invoiceStates[i] = "SETTLED"
    \/ reader = "lock" /\ cur.inv = i /\ cur.state = "SETTLED"
    \/ \E n \in 1..Len(stream) :
           stream[n].inv = i /\ stream[n].state = "SETTLED"

\* Between ListInvoices and SubscribeInvoices it is in the cache or past the
\* index that the subscription starts from.
Listed(i) ==
    \/ invoiceStates[i] = "SETTLED"
    \/ \E n \in (settleIndex + 1)..Len(settleLog) : settleLog[n] = i

AllNoticed ==
    /\ main = "listed" =>
           /\ settleIndex <= Len(settleLog)
           /\ \A i \in Hash : inv[i] = "SETTLED" => Listed(i)
    /\ conn = "live" => \A i \in Hash : inv[i] = "SETTLED" => Noticed(i)

\* A step that reads nothing and announces nothing keeps the order.
LEMMA InOrderFrame ==
    ASSUME InOrder, UNCHANGED <<cur, invoiceStates>>,
           stream' \in {stream, <<>>}, reader' = "lock" => reader = "lock",
           main' \in {"down", "listed"} => main \in {"down", "listed"}
    PROVE  InOrder'
<1>1. CASE stream' = stream
    BY <1>1, SMT DEF InOrder, OnlySettled
<1>2. CASE stream' = <<>>
  <2>1. Len(stream') = 0
      BY <1>2
  <2> QED
      BY <1>2, <2>1, SMT DEF InOrder, OnlySettled
<1> QED
    BY <1>1, <1>2

\* lnd announces nothing but the settlement itself of a settled invoice.
LEMMA DeliverInOrder ==
    ASSUME Shape, SettledIsPaid, InOrder,
           NEW i \in Invoice, NEW s \in InvoiceState, Deliver(i, s),
           s = "SETTLED" \/ inv[i] # "SETTLED",
           UNCHANGED <<main, reader, cur, invoiceStates>>
    PROVE  InOrder'
<1>1. CASE stream' = stream
    BY <1>1, InOrderFrame
<1>2. CASE conn = "live" /\ stream' = Append(stream, [inv |-> i, state |-> s])
  <2>1. main \notin {"down", "listed"}
      BY <1>2 DEF Shape, MainFits
  <2>2. /\ stream \in Seq(Update) /\ Len(stream) \in Nat
        /\ Len(stream') = Len(stream) + 1
        /\ \A n \in 1..Len(stream) : stream'[n] = stream[n]
        /\ stream'[Len(stream) + 1] = [inv |-> i, state |-> s]
      BY <1>2, SMT DEF Shape, TypeOK
  <2>3. ASSUME NEW k \in Invoice, OnlySettled(k), inv[k] = "SETTLED"
        PROVE  OnlySettled(k)'
      BY <2>2, <2>3, SMT DEF OnlySettled
  <2>4. ASSUME NEW m \in 1..Len(stream'), NEW n \in 1..Len(stream'), m < n,
               stream'[m].inv = stream'[n].inv, stream'[m].state = "SETTLED"
        PROVE  stream'[n].state = "SETTLED"
    <3>1. m \in 1..Len(stream) /\ stream'[m] = stream[m]
        BY <2>2, <2>4, SMT
    <3>2. inv[stream[m].inv] = "SETTLED"
        BY <2>4, <3>1 DEF SettledIsPaid
    <3>3. CASE n \in 1..Len(stream)
        BY <2>2, <2>4, <3>1, <3>3 DEF InOrder
    <3>4. CASE n = Len(stream) + 1
        BY <2>2, <2>4, <3>1, <3>2, <3>4, SMT
    <3> QED
        BY <2>2, <3>3, <3>4, SMT
  <2>5. reader = "lock" /\ cur.state = "SETTLED" =>
            cur.inv \in Invoice /\ inv[cur.inv] = "SETTLED"
      BY DEF Shape, TypeOK, Update, SettledIsPaid
  <2>6. \A k \in Invoice : invoiceStates[k] = "SETTLED" => inv[k] = "SETTLED"
      BY DEF SettledIsPaid
  <2>7. reader = "lock" /\ cur.state = "SETTLED" => OnlySettled(cur.inv)'
      BY <2>3, <2>5 DEF InOrder
  <2>8. \A k \in Invoice : invoiceStates[k] = "SETTLED" => OnlySettled(k)'
      BY <2>3, <2>6 DEF InOrder
  <2> QED
      BY <2>1, <2>4, <2>7, <2>8 DEF InOrder
<1> QED
    BY <1>1, <1>2 DEF Deliver

\* The reader takes the oldest announcement and applies it to the cache.
LEMMA ReadInOrder ==
    ASSUME Shape, InOrder, ReadRecv \/ ReadApply
    PROVE  InOrder'
<1>1. CASE ReadRecv
  <2>1. /\ stream \in Seq(Update) /\ Len(stream') \in Nat
        /\ Len(stream) = Len(stream') + 1
        /\ \A n \in 1..Len(stream') : stream'[n] = stream[n + 1]
        /\ Head(stream) = stream[1]
      BY <1>1, SMT DEF ReadRecv, Shape, TypeOK
  <2>2. \A n \in 1..Len(stream') : n + 1 \in 1..Len(stream) /\ 1 < n + 1
      BY <2>1, SMT
  <2>3. \A k : OnlySettled(k) => OnlySettled(k)'
      BY <2>1, <2>2 DEF OnlySettled
  <2>4. ASSUME reader' = "lock"
        PROVE  /\ cur' = stream[1] /\ 1 \in 1..Len(stream)
               /\ cur'.state = "SETTLED" => OnlySettled(cur.inv)'
    <3>1. cur' = stream[1] /\ 1 \in 1..Len(stream)
        BY <1>1, <2>1, <2>4, SMTT(30) DEF ReadRecv
    <3>2. cur'.state = "SETTLED" =>
              \A n \in 1..Len(stream') :
                  stream'[n].inv = cur'.inv => stream'[n].state = "SETTLED"
        BY <2>1, <2>2, <3>1 DEF InOrder
    <3> QED
        BY <3>1, <3>2 DEF OnlySettled
  <2>5. ASSUME NEW m \in 1..Len(stream'), NEW n \in 1..Len(stream'), m < n,
               stream'[m].inv = stream'[n].inv, stream'[m].state = "SETTLED"
        PROVE  stream'[n].state = "SETTLED"
    <3>1. /\ m + 1 \in 1..Len(stream) /\ n + 1 \in 1..Len(stream)
          /\ m + 1 < n + 1
        BY <2>1, <2>2, <2>5, SMT
    <3>2. stream'[m] = stream[m + 1] /\ stream'[n] = stream[n + 1]
        BY <2>1
    <3> QED
        BY <2>5, <3>1, <3>2 DEF InOrder
  <2>6. ASSUME NEW i \in Invoice, invoiceStates'[i] = "SETTLED"
        PROVE  /\ OnlySettled(i)'
               /\ reader' = "lock" /\ cur'.inv = i => cur'.state = "SETTLED"
      BY <1>1, <2>3, <2>4, <2>6 DEF ReadRecv, InOrder, OnlySettled
  <2>7. main' \notin {"down", "listed"}
      BY <1>1 DEF ReadRecv, Shape, MainFits
  <2> QED
      BY <2>4, <2>5, <2>6, <2>7 DEF InOrder
<1>2. CASE ReadApply
  <2>1. /\ UNCHANGED <<stream, cur, main>> /\ reader' # "lock"
        /\ cur.inv \in Invoice
      BY <1>2 DEF ReadApply, Shape, TypeOK, Update
  <2>2. ASSUME NEW i \in Invoice, invoiceStates'[i] = "SETTLED"
        PROVE  OnlySettled(i)
    <3>1. CASE i = cur.inv
      <4>1. cur.state = "SETTLED"
          BY <1>2, <2>1, <2>2, <3>1, SMT DEF ReadApply, Shape, TypeOK, None
      <4> QED
          BY <1>2, <3>1, <4>1 DEF ReadApply, InOrder
    <3>2. CASE i # cur.inv
        BY <1>2, <2>2, <3>2, SMTT(30) DEF ReadApply, InOrder
    <3> QED
        BY <3>1, <3>2
  <2> QED
      BY <2>1, <2>2, SMT DEF InOrder, OnlySettled
<1> QED
    BY <1>1, <1>2

\* Nothing has been announced at the start.
LEMMA InOrderInit == Init => InOrder
BY SMT DEF Init, InOrder, OnlySettled, NoUpdate, None

\* Every step keeps the order.
LEMMA InOrderStep ==
    Shape /\ SettledIsPaid /\ InOrder /\ [Next]_vars => InOrder'
<1> SUFFICES ASSUME Shape, TypeOK, LogsFit, MainFits, SettledIsPaid, InOrder,
                    [Next]_vars
             PROVE  InOrder'
    BY DEF Shape
<1>1. ASSUME NEW i \in Invoice,
             LndAdd(i) \/ LndAccept(i) \/ LndSettle(i) \/ LndCancel(i)
      PROVE  InOrder'
  <2>1. UNCHANGED <<main, reader, cur, invoiceStates>>
      BY <1>1 DEF LndAdd, LndAccept, LndSettle, LndCancel
  <2>2. \/ UNCHANGED stream
        \/ \E s \in InvoiceState :
               Deliver(i, s) /\ (s = "SETTLED" \/ inv[i] # "SETTLED")
      BY <1>1 DEF LndAdd, LndAccept, LndSettle, LndCancel, InvoiceState, None
  <2> QED
      BY <2>1, <2>2, DeliverInOrder, InOrderFrame
<1>2. CASE StartList
  <2>1. stream' = <<>> /\ reader' = "off"
      BY <1>2 DEF StartList, InOrder, MainFits
  <2>2. Len(stream') = 0
      BY <2>1
  <2> QED
      BY <2>1, <2>2, SMT DEF InOrder, OnlySettled
<1>3. CASE StartSubscribe
  <2>1. \A n \in 1..Len(stream') : stream'[n].state = inv[stream'[n].inv]
      BY <1>3, SubscribedStates
  <2>2. UNCHANGED <<invoiceStates, inv>> /\ reader' = "check" /\ main' = "booting"
      BY <1>3 DEF StartSubscribe
  <2> QED
      BY <2>1, <2>2, SMT DEF InOrder, OnlySettled, SettledIsPaid
<1>4. CASE ProcessEnds
  <2>1. /\ stream' = <<>> /\ reader' = "off"
        /\ \A i \in Invoice : invoiceStates'[i] # "SETTLED"
      BY <1>4 DEF ProcessEnds, None
  <2>2. Len(stream') = 0
      BY <2>1
  <2> QED
      BY <2>1, <2>2, SMT DEF InOrder
<1>5. CASE ReadRecv \/ ReadApply
    BY <1>5, ReadInOrder
<1>6. CASE ReadBroadcast
    BY <1>6, SMT DEF ReadBroadcast, InOrder, OnlySettled
<1>7. CASE ReadCheckQuit \/ ReadCanceled \/ ReadBadHash \/ ReadFault
    BY <1>7, InOrderFrame DEF ReadCheckQuit, ReadCanceled, ReadBadHash,
       ReadFault
<1>8. CASE ReadSignal \/ ReadPersist
    BY <1>8, InOrderFrame DEF ReadSignal, ReadPersist
<1>9. CASE EnterSelect \/ Interrupt \/ StopCancel \/ StopWait
    BY <1>9, InOrderFrame DEF EnterSelect, Interrupt, StopCancel, StopWait
<1>10. ASSUME NEW i \in Invoice, Expire(i) \/ NewSecret(i)
       PROVE  InOrder'
    BY <1>10, InOrderFrame DEF Expire, NewSecret
<1>11. ASSUME NEW fault \in StreamFault, LndDisconnect(fault)
       PROVE  InOrder'
    BY <1>11, InOrderFrame DEF LndDisconnect
<1>12. ASSUME NEW c \in Call, Verify(c)
       PROVE  InOrder'
    BY <1>12, InOrderFrame DEF Verify, VerifyBegin, TimerFires, TimerSignals,
       WaiterChecks, VerifyReturn
<1>13. CASE UNCHANGED vars
    BY <1>13, InOrderFrame DEF vars
<1> QED
    BY <1>1, <1>2, <1>3, <1>4, <1>5, <1>6, <1>7, <1>8, <1>9, <1>10, <1>11,
       <1>12, <1>13 DEF Next, Lnd, Main, Reader, StartFails, Crash, Exit

\* Only Start, the reader's critical section, calls and the end of the process
\* touch the cache or a call; the others wake sleeping waiters at most.
LEMMA QuietSteps ==
    ASSUME \/ Lnd \/ \E i \in Invoice : NewSecret(i)
           \/ StartSubscribe \/ EnterSelect \/ Interrupt \/ StopCancel
           \/ StopWait \/ ReadCheckQuit \/ ReadRecv \/ ReadCanceled
           \/ ReadFault \/ ReadSignal \/ ReadPersist \/ ReadBroadcast
           \/ UNCHANGED vars
    PROVE  /\ UNCHANGED <<invoiceStates, caller, read, arg, want>>
           /\ waiter' \in {waiter, Broadcast}
<1>1. CASE Lnd
    BY <1>1 DEF Lnd, LndAdd, LndAccept, LndSettle, LndCancel, Expire,
        LndDisconnect, ReadBadHash
<1>2. CASE (\E i \in Invoice : NewSecret(i)) \/ UNCHANGED vars
    BY <1>2 DEF NewSecret, vars
<1>3. CASE \/ StartSubscribe \/ EnterSelect \/ Interrupt \/ StopCancel
           \/ StopWait
    BY <1>3 DEF StartSubscribe, EnterSelect, Interrupt, StopCancel, StopWait
<1>4. CASE \/ ReadCheckQuit \/ ReadRecv \/ ReadCanceled \/ ReadFault
           \/ ReadSignal \/ ReadPersist \/ ReadBroadcast
    BY <1>4 DEF ReadCheckQuit, ReadRecv, ReadCanceled, ReadFault, ReadSignal,
        ReadPersist, ReadBroadcast
<1> QED
    BY <1>1, <1>2, <1>3, <1>4

\* While the process lives a settled invoice stays settled in the cache, also
\* when it expires: no announcement that is still to be read says otherwise.
THEOREM SettledSticksHolds == Spec => SettledSticks
<1>1. Shape /\ InOrder /\ [Next]_vars =>
          \A i \in Invoice : invoiceStates[i] = "SETTLED" /\ main' # "down" =>
              invoiceStates'[i] = "SETTLED"
  <2> SUFFICES ASSUME Shape, InOrder, [Next]_vars, NEW i \in Invoice,
                      invoiceStates[i] = "SETTLED", main' # "down"
               PROVE  invoiceStates'[i] = "SETTLED"
      OBVIOUS
  <2>1. CASE ReadApply
      BY <2>1, SMT DEF ReadApply, Irrelevant, InOrder
  <2>2. CASE StartList
      BY <2>2 DEF StartList, Shape, MainFits, None
  <2>3. ASSUME NEW c \in Call, Verify(c)
        PROVE  UNCHANGED invoiceStates
      BY <2>3 DEF Verify, VerifyBegin, TimerFires, TimerSignals, WaiterChecks,
          VerifyReturn
  <2>4. ~StartFails /\ ~Crash /\ ~Exit
      BY DEF StartFails, Crash, Exit, ProcessEnds
  <2> QED
      BY <2>1, <2>2, <2>3, <2>4, QuietSteps DEF Next, Main, Reader
<1>2. Spec => [](Shape /\ SettledIsPaid /\ InOrder)
    BY ShapeInit, ShapeStep, SettledIsPaidInit, SettledIsPaidStep,
       InOrderInit, InOrderStep, PTL DEF Spec
<1> QED
    BY <1>1, <1>2, PTL DEF Spec, SettledSticks

\* A step that neither settles nor reads keeps what is known and announced.
LEMMA NoticedFrame ==
    ASSUME AllNoticed, UNCHANGED <<inv, settleLog, settleIndex, invoiceStates,
                                   stream, cur>>,
           main' = "listed" => main = "listed",
           conn' = "live" => conn = "live",
           reader = "lock" => reader' = "lock"
    PROVE  AllNoticed'
BY DEF AllNoticed, Listed, Noticed

\* Without a live subscription, and after ListInvoices, nothing is promised.
LEMMA NothingPromised ==
    ASSUME main' # "listed", conn' # "live"
    PROVE  AllNoticed'
BY DEF AllNoticed

\* lnd announces a settlement, or logs it past the index of a subscription
\* that is to come.
LEMMA LndNoticed ==
    ASSUME Shape, AllNoticed, NEW i \in Invoice,
           LndAdd(i) \/ LndAccept(i) \/ LndSettle(i) \/ LndCancel(i)
    PROVE  AllNoticed'
<1>1. /\ UNCHANGED <<main, conn, reader, cur, invoiceStates, settleIndex>>
      /\ \A k \in Invoice : inv'[k] = "SETTLED" =>
             inv[k] = "SETTLED" \/ (k = i /\ LndSettle(i))
    BY SMTT(30) DEF LndAdd, LndAccept, LndSettle, LndCancel, Shape, TypeOK
<1>2. /\ settleLog \in Seq(Invoice) /\ Len(settleLog) \in Nat
      /\ settleIndex \in Nat
      /\ stream \in Seq(Update) /\ Len(stream) \in Nat
    BY SMT DEF Shape, TypeOK
<1>3. \/ UNCHANGED stream
      \/ \E s \in InvoiceState : stream' = Append(stream, [inv |-> i, state |-> s])
    BY DEF LndAdd, LndAccept, LndSettle, LndCancel, Deliver, InvoiceState
<1>4. /\ Len(stream') >= Len(stream) /\ Len(stream') \in Nat
      /\ \A n \in 1..Len(stream) : stream'[n] = stream[n]
  <2>1. \A s \in InvoiceState : [inv |-> i, state |-> s] \in Update
      BY DEF Update
  <2>2. CASE UNCHANGED stream
      BY <1>2, <2>2, SMT
  <2>3. ASSUME NEW u \in Update, stream' = Append(stream, u)
        PROVE  /\ Len(stream') >= Len(stream) /\ Len(stream') \in Nat
               /\ \A n \in 1..Len(stream) : stream'[n] = stream[n]
      BY <1>2, <2>3, SMT
  <2> QED
      BY <1>3, <2>1, <2>2, <2>3
<1>5. \/ UNCHANGED settleLog
      \/ LndSettle(i) /\ settleLog' = Append(settleLog, i)
    BY DEF LndAdd, LndAccept, LndSettle, LndCancel
<1>6. /\ Len(settleLog') >= Len(settleLog) /\ Len(settleLog') \in Nat
      /\ \A n \in 1..Len(settleLog) : settleLog'[n] = settleLog[n]
    BY <1>2, <1>5, SMT
<1>7. ASSUME main = "listed", NEW k \in Hash, inv'[k] = "SETTLED"
      PROVE  Listed(k)' /\ settleIndex <= Len(settleLog')
  <2>1. settleIndex <= Len(settleLog)
      BY <1>7 DEF AllNoticed
  <2>2. CASE inv[k] = "SETTLED"
    <3>1. Listed(k)
        BY <1>7, <2>2 DEF AllNoticed
    <3>2. settleIndex <= Len(settleLog')
        BY <1>2, <1>6, <2>1, SMT
    <3>3. CASE invoiceStates[k] = "SETTLED"
        BY <1>1, <3>2, <3>3 DEF Listed
    <3>4. CASE \E n \in (settleIndex + 1)..Len(settleLog) : settleLog[n] = k
      <4>1. PICK n \in (settleIndex + 1)..Len(settleLog) : settleLog[n] = k
          BY <3>4
      <4>2. /\ n \in (settleIndex + 1)..Len(settleLog')
            /\ settleLog'[n] = k
          BY <1>2, <1>6, <4>1, SMT
      <4> QED
          BY <1>1, <3>2, <4>2 DEF Listed
    <3> QED
        BY <3>1, <3>3, <3>4 DEF Listed
  <2>3. CASE k = i /\ LndSettle(i)
    <3>1. /\ Len(settleLog') = Len(settleLog) + 1
          /\ settleLog'[Len(settleLog) + 1] = i
        BY <1>2, <2>3, SMT DEF LndSettle
    <3> QED
        BY <1>1, <1>2, <2>1, <2>3, <3>1, SMTT(30) DEF Listed
  <2> QED
      BY <1>1, <1>6, <1>7, <2>1, <2>2, <2>3 DEF Hash
<1>8. ASSUME conn = "live", NEW k \in Hash, inv'[k] = "SETTLED"
      PROVE  Noticed(k)'
  <2>1. CASE inv[k] = "SETTLED"
      BY <1>1, <1>2, <1>4, <1>8, <2>1, SMT DEF AllNoticed, Noticed
  <2>2. CASE k = i /\ LndSettle(i)
    <3>1. stream' = Append(stream, [inv |-> i, state |-> "SETTLED"])
        BY <1>8, <2>2 DEF LndSettle, Deliver
    <3>2. /\ Len(stream') = Len(stream) + 1
          /\ stream'[Len(stream) + 1] = [inv |-> i, state |-> "SETTLED"]
        BY <1>2, <3>1, SMT
    <3> QED
        BY <1>2, <2>2, <3>2, SMT DEF Noticed
  <2> QED
      BY <1>1, <1>8, <2>1, <2>2 DEF Hash
<1>9. main = "listed" => settleIndex <= Len(settleLog')
    BY <1>2, <1>6, SMT DEF AllNoticed
<1> QED
    BY <1>1, <1>7, <1>8, <1>9 DEF AllNoticed

\* SubscribeInvoices announces what settled past the index.
LEMMA SubscribeNoticed ==
    ASSUME Shape, AllNoticed, StartSubscribe
    PROVE  AllNoticed'
<1> DEFINE A == Since(addLog, addIndex)
           B == Since(settleLog, settleIndex)
<1>1. /\ main = "listed" /\ main' = "booting" /\ stream' = A \o B
      /\ UNCHANGED <<inv, invoiceStates>>
    BY DEF StartSubscribe
<1>2. A \in Seq(Update) /\ B \in Seq(Update)
    BY SinceType DEF Shape, TypeOK, LogsFit, None
<1>3. /\ settleLog \in Seq(Invoice) /\ Len(settleLog) \in Nat
      /\ settleIndex \in Nat /\ settleIndex <= Len(settleLog)
    BY <1>1, SMT DEF Shape, TypeOK, AllNoticed
<1>4. /\ Len(B) = Len(settleLog) - settleIndex
      /\ \A n \in 1..Len(B) :
             B[n] = [inv |-> settleLog[settleIndex + n],
                     state |-> inv[settleLog[settleIndex + n]]]
  <2>1. Len(settleLog) - settleIndex \in Nat
      BY <1>3, SMT
  <2>2. DOMAIN B = 1..(Len(settleLog) - settleIndex)
      BY DEF Since
  <2>3. DOMAIN B = 1..Len(B) /\ Len(B) \in Nat
      BY <1>2, SMT
  <2>4. Len(B) = Len(settleLog) - settleIndex
      BY <1>2, <2>1, <2>2, SMT
  <2> QED
      BY <2>4 DEF Since
<1> HIDE DEF A, B
<1>5. /\ Len(A) \in Nat /\ Len(B) \in Nat /\ Len(stream') = Len(A) + Len(B)
      /\ \A n \in 1..Len(B) : stream'[Len(A) + n] = B[n]
    BY <1>1, <1>2, SMT
<1>6. ASSUME NEW i \in Hash, inv[i] = "SETTLED"
      PROVE  Noticed(i)'
  <2>1. CASE invoiceStates[i] = "SETTLED"
      BY <1>1, <2>1 DEF Noticed
  <2>2. ASSUME NEW n \in (settleIndex + 1)..Len(settleLog), settleLog[n] = i
        PROVE  Noticed(i)'
    <3>1. n - settleIndex \in 1..Len(B) /\ settleIndex + (n - settleIndex) = n
        BY <1>3, <1>4, SMT
    <3>2. B[n - settleIndex] = [inv |-> i, state |-> "SETTLED"]
        BY <1>4, <1>6, <2>2, <3>1
    <3>3. /\ Len(A) + (n - settleIndex) \in 1..Len(stream')
          /\ stream'[Len(A) + (n - settleIndex)] =
                 [inv |-> i, state |-> "SETTLED"]
        BY <1>5, <3>1, <3>2, SMT
    <3> QED
        BY <3>3, SMT DEF Noticed
  <2> QED
      BY <1>1, <1>6, <2>1, <2>2 DEF AllNoticed, Listed
<1> QED
    BY <1>1, <1>6 DEF AllNoticed

\* The reader moves a settlement from the stream into the cache.
LEMMA ReadNoticed ==
    ASSUME Shape, InOrder, AllNoticed, ReadRecv \/ ReadApply \/ ReadBroadcast
    PROVE  AllNoticed'
<1>1. UNCHANGED <<main, conn, inv, settleLog, settleIndex>> /\ main # "listed"
    BY DEF ReadRecv, ReadApply, ReadBroadcast, Shape, MainFits
<1> SUFFICES ASSUME conn = "live", NEW i \in Hash, inv[i] = "SETTLED", Noticed(i)
             PROVE  Noticed(i)'
    BY <1>1 DEF AllNoticed
<1>2. CASE ReadRecv
  <2>1. /\ stream \in Seq(Update) /\ Len(stream') \in Nat
        /\ Len(stream) = Len(stream') + 1
        /\ \A n \in 1..Len(stream') : stream'[n] = stream[n + 1]
        /\ Head(stream) = stream[1]
      BY <1>2, SMTT(30) DEF ReadRecv, Shape, TypeOK
  <2>2. CASE invoiceStates[i] = "SETTLED"
      BY <1>2, <2>2 DEF ReadRecv, Noticed
  <2>3. ASSUME NEW n \in 1..Len(stream), stream[n].inv = i,
               stream[n].state = "SETTLED"
        PROVE  Noticed(i)'
    <3>1. CASE n = 1
        BY <1>2, <2>1, <2>3, <3>1 DEF ReadRecv, Noticed, Hash
    <3>2. CASE n # 1
      <4>1. n - 1 \in 1..Len(stream') /\ stream'[n - 1] = stream[n]
          BY <2>1, <3>2, SMT
      <4> QED
          BY <2>3, <4>1 DEF Noticed
    <3> QED
        BY <3>1, <3>2
  <2> QED
      BY <1>2, <2>2, <2>3 DEF ReadRecv, Noticed
<1>3. CASE ReadApply
    BY <1>3 DEF ReadApply, Irrelevant, Noticed, InOrder, Shape, TypeOK, Hash
<1>4. CASE ReadBroadcast
    BY <1>4 DEF ReadBroadcast, Noticed
<1> QED
    BY <1>2, <1>3, <1>4

\* Every step keeps what is known and announced.
LEMMA AllNoticedStep ==
    Shape /\ InOrder /\ AllNoticed /\ [Next]_vars => AllNoticed'
<1> SUFFICES ASSUME Shape, TypeOK, MainFits, InOrder, AllNoticed, [Next]_vars
             PROVE  AllNoticed'
    BY DEF Shape
<1>1. ASSUME NEW i \in Invoice,
             LndAdd(i) \/ LndAccept(i) \/ LndSettle(i) \/ LndCancel(i)
      PROVE  AllNoticed'
    BY <1>1, LndNoticed
<1>2. CASE StartList
  <2>1. settleIndex' \in 0..Len(settleLog) /\ Len(settleLog) \in Nat
      BY <1>2, LastHashIndexSpec, SMT DEF StartList, TypeOK
  <2>2. \A i \in Hash : inv'[i] = "SETTLED" => invoiceStates'[i] = "SETTLED"
      BY <1>2 DEF StartList, Irrelevant, Hash
  <2>3. conn' = "closed" /\ settleLog' = settleLog
      BY <1>2 DEF StartList, MainFits
  <2>4. settleIndex' <= Len(settleLog')
      BY <2>1, <2>3, SMT
  <2>5. \A i \in Hash : inv'[i] = "SETTLED" => Listed(i)'
      BY <2>2 DEF Listed
  <2> QED
      BY <2>3, <2>4, <2>5 DEF AllNoticed
<1>3. CASE StartSubscribe
    BY <1>3, SubscribeNoticed
<1>4. CASE ReadRecv \/ ReadApply \/ ReadBroadcast
    BY <1>4, ReadNoticed
<1>5. CASE ProcessEnds \/ ReadCanceled \/ ReadBadHash
    BY <1>5, NothingPromised DEF ProcessEnds, ReadCanceled, ReadBadHash,
       MainFits
<1>6. ASSUME NEW fault \in StreamFault, LndDisconnect(fault)
      PROVE  AllNoticed'
    BY <1>6, NothingPromised, ChallengerAssumption DEF LndDisconnect, MainFits
<1>7. CASE ReadCheckQuit \/ ReadFault \/ ReadSignal \/ ReadPersist
    BY <1>7, NoticedFrame DEF ReadCheckQuit, ReadFault, ReadSignal, ReadPersist
<1>8. CASE EnterSelect \/ Interrupt \/ StopCancel \/ StopWait
    BY <1>8, NoticedFrame DEF EnterSelect, Interrupt, StopCancel, StopWait
<1>9. ASSUME NEW i \in Invoice, Expire(i) \/ NewSecret(i)
      PROVE  AllNoticed'
    BY <1>9, NoticedFrame DEF Expire, NewSecret
<1>10. ASSUME NEW c \in Call, Verify(c)
       PROVE  AllNoticed'
    BY <1>10, NoticedFrame DEF Verify, VerifyBegin, TimerFires, TimerSignals,
       WaiterChecks, VerifyReturn
<1>11. CASE UNCHANGED vars
    BY <1>11, NoticedFrame DEF vars
<1> QED
    BY <1>1, <1>2, <1>3, <1>4, <1>5, <1>6, <1>7, <1>8, <1>9, <1>10, <1>11
       DEF Next, Lnd, Main, Reader, StartFails, Crash, Exit

\* Once the reader has drained a live subscription every settled invoice with
\* a payment hash is in the cache, whatever settled between ListInvoices and
\* SubscribeInvoices and however many invoices without a hash came between.
THEOREM NoMissedSettlementHolds == Spec => []NoMissedSettlement
<1>1. Init => AllNoticed
    BY DEF Init, AllNoticed
<1>2. Spec => [](Shape /\ SettledIsPaid /\ InOrder /\ AllNoticed)
    BY <1>1, ShapeInit, ShapeStep, SettledIsPaidInit, SettledIsPaidStep,
       InOrderInit, InOrderStep, AllNoticedStep, PTL DEF Spec
<1>3. AllNoticed => NoMissedSettlement
  <2> SUFFICES ASSUME AllNoticed, conn = "live", stream = <<>>,
                      reader # "lock", NEW i \in Hash, inv[i] = "SETTLED"
               PROVE  invoiceStates[i] = "SETTLED"
      BY DEF NoMissedSettlement
  <2>1. Len(stream) = 0
      OBVIOUS
  <2> QED
      BY <2>1, SMT DEF AllNoticed, Noticed
<1> QED
    BY <1>2, <1>3, PTL

-----------------------------------------------------------------------------
(***************************************************************************)
(* The goroutines of VerifyInvoiceStatus implement the InvoiceChecker.     *)
(***************************************************************************)

\* What the refinement mapping makes of a call and of the cache.
PhaseOf(c) ==
    CASE caller[c] = "idle" -> "idle"
      [] caller[c] = "waiting" /\ waiter[c] # "done" -> "pending"
      [] caller[c] = "waiting" /\ waiter[c] = "done" -> "decided"
      [] OTHER -> "returned"
AnswerOf(c) ==
    CASE caller[c] = "idle" -> None
      [] caller[c] = "waiting" /\ waiter[c] # "done" -> None
      [] caller[c] = "waiting" /\ waiter[c] = "done" -> Result(read[c], want[c])
      [] OTHER -> caller[c]
Phases == [c \in Call |-> PhaseOf(c)]
Answers == [c \in Call |-> AnswerOf(c)]
Table == [h \in Hash |-> invoiceStates[h]]

\* Nothing of a call that the checker could see has changed.
SameCall(c) == PhaseOf(c)' = PhaseOf(c) /\ AnswerOf(c)' = AnswerOf(c)

\* A step after which every call and the cache look the same is a stutter.
LEMMA CheckerStutters ==
    ASSUME UNCHANGED <<invoiceStates, arg, want>>,
           \A c \in Call : SameCall(c)
    PROVE  UNCHANGED Checker!vars
<1>1. Phases' = Phases /\ Answers' = Answers /\ Table' = Table
    BY DEF Phases, Answers, Table, SameCall
<1> QED
    BY <1>1 DEF Checker!vars, Phases, Answers, PhaseOf, AnswerOf

\* A step of one call changes its phase and its answer alone.
LEMMA OneCallMoves ==
    ASSUME NEW c \in Call, \A d \in Call : d # c => SameCall(d)
    PROVE  /\ Phases' = [Phases EXCEPT ![c] = PhaseOf(c)']
           /\ Answers' = [Answers EXCEPT ![c] = AnswerOf(c)']
BY DEF Phases, Answers, SameCall

\* VerifyInvoiceStatus begins.
LEMMA BeginIsBegin ==
    ASSUME Shape, NEW c \in Call, NEW i \in Hash, NEW s \in WantState,
           VerifyBegin(c, i, s)
    PROVE  Checker!Begin(c)
<1>1. \A d \in Call : d # c => SameCall(d)
    BY SMT DEF VerifyBegin, SameCall, PhaseOf, AnswerOf
<1>2. /\ Phases[c] \in {"idle", "returned"} /\ PhaseOf(c)' = "pending"
      /\ AnswerOf(c)' = None
    BY DEF VerifyBegin, Phases, PhaseOf, AnswerOf, Shape, TypeOK
<1>3. Table' = Table
    BY DEF VerifyBegin, Table
<1>4. /\ Phases' = [Phases EXCEPT ![c] = "pending"]
      /\ Answers' = [Answers EXCEPT ![c] = None]
    BY <1>1, <1>2, OneCallMoves
<1>5. \E h \in Hash, t \in WantState : /\ arg' = [arg EXCEPT ![c] = h]
                                       /\ want' = [want EXCEPT ![c] = t]
    BY DEF VerifyBegin
<1> QED
    BY <1>2, <1>3, <1>4, <1>5 DEF Checker!Begin, Table, Phases, Answers,
       PhaseOf, AnswerOf

\* The waiter's look at the cache decides, or it goes to sleep.
LEMMA CheckDecides ==
    ASSUME Shape, NEW c \in Call, WaiterChecks(c)
    PROVE  Checker!Decide(c) \/ UNCHANGED Checker!vars
<1>1. /\ \A d \in Call : d # c => SameCall(d)
      /\ UNCHANGED <<invoiceStates, arg, want, caller>>
    BY SMT DEF WaiterChecks, SameCall, PhaseOf, AnswerOf
<1>2. /\ caller[c] = "waiting" /\ waiter[c] # "done" /\ arg[c] \in Hash
      /\ read'[c] = invoiceStates[arg[c]] /\ waiter'[c] \in {"done", "wait"}
    BY SMT DEF WaiterChecks, Shape, TypeOK, CallsFit
<1>3. CASE waiter'[c] = "wait"
  <2>1. SameCall(c)
      BY <1>1, <1>2, <1>3 DEF SameCall, PhaseOf, AnswerOf
  <2> QED
      BY <1>1, <2>1, CheckerStutters
<1>4. CASE waiter'[c] = "done"
  <2>1. /\ Phases[c] = "pending" /\ PhaseOf(c)' = "decided"
        /\ AnswerOf(c)' = Result(invoiceStates[arg[c]], want[c])
      BY <1>1, <1>2, <1>4 DEF Phases, PhaseOf, AnswerOf
  <2>2. Result(invoiceStates[arg[c]], want[c]) =
            Checker!Answer(Table[arg[c]], want[c])
      BY <1>2 DEF Result, Checker!Answer, Table
  <2>3. /\ Phases' = [Phases EXCEPT ![c] = "decided"]
        /\ Answers' = [Answers EXCEPT ![c] = Checker!Answer(Table[arg[c]], want[c])]
        /\ Table' = Table
      BY <1>1, <2>1, <2>2, OneCallMoves DEF Table
  <2> QED
      BY <1>1, <2>1, <2>3 DEF Checker!Decide, Table, Phases, Answers, PhaseOf,
         AnswerOf
<1> QED
    BY <1>2, <1>3, <1>4

\* VerifyInvoiceStatus returns what the last look found.
LEMMA ReturnIsReturn ==
    ASSUME Shape, NEW c \in Call, VerifyReturn(c)
    PROVE  Checker!Return(c)
<1>1. \A d \in Call : d # c => SameCall(d)
    BY SMT DEF VerifyReturn, SameCall, PhaseOf, AnswerOf
<1>2. caller[c] = "waiting" /\ waiter[c] = "done"
    BY DEF VerifyReturn, Shape, CallsFit
<1>3. /\ caller'[c] = Result(read[c], want[c])
      /\ caller'[c] \in {"ok", "noInvoice", "wrongState"}
    BY DEF VerifyReturn, Result, Shape, TypeOK
<1>4. /\ Phases[c] = "decided" /\ PhaseOf(c)' = "returned"
      /\ AnswerOf(c)' = AnswerOf(c)
    BY <1>2, <1>3 DEF Phases, PhaseOf, AnswerOf
<1>5. /\ Phases' = [Phases EXCEPT ![c] = "returned"]
      /\ Answers' = Answers /\ Table' = Table
    BY <1>1, <1>4, OneCallMoves DEF VerifyReturn, Table, Answers
<1>6. UNCHANGED <<arg, want>>
    BY DEF VerifyReturn
<1> QED
    BY <1>4, <1>5, <1>6 DEF Checker!Return, Table, Phases, Answers, PhaseOf,
       AnswerOf

\* A new state in the cache is a change of the table.
LEMMA CacheChanges ==
    ASSUME Shape, Shape', ReadApply \/ StartList
    PROVE  Checker!Change
<1>1. UNCHANGED <<caller, waiter, read, arg, want>>
    BY DEF ReadApply, StartList
<1>2. Phases' = Phases /\ Answers' = Answers
    BY <1>1 DEF Phases, Answers, PhaseOf, AnswerOf
<1>3. Table' \in [Hash -> InvoiceState \union {None}]
    BY DEF Shape, TypeOK, Table, Hash
<1> QED
    BY <1>1, <1>2, <1>3 DEF Checker!Change, Table

\* The process ends, and with it every call.
LEMMA EndIsEnd ==
    ASSUME ProcessEnds
    PROVE  Checker!ProcessEnds
BY DEF ProcessEnds, Checker!ProcessEnds, Checker!Init, Hash

\* Every step of the challenger is a step of the checker or a stutter.
LEMMA StepIsChecked ==
    Shape /\ [Next]_vars => [Checker!Next]_(Checker!vars)
<1> SUFFICES ASSUME Shape, [Next]_vars PROVE [Checker!Next]_(Checker!vars)
    OBVIOUS
<1>1. ASSUME NEW c \in Call, NEW i \in Hash, NEW s \in WantState,
             VerifyBegin(c, i, s)
      PROVE  Checker!Next
    BY <1>1, BeginIsBegin DEF Checker!Next
<1>2. ASSUME NEW c \in Call, WaiterChecks(c)
      PROVE  [Checker!Next]_(Checker!vars)
    BY <1>2, CheckDecides DEF Checker!Next
<1>3. ASSUME NEW c \in Call, VerifyReturn(c)
      PROVE  Checker!Next
    BY <1>3, ReturnIsReturn DEF Checker!Next
<1>4. CASE ReadApply \/ StartList
    BY <1>4, ShapeStep, CacheChanges DEF Checker!Next
<1>5. CASE ProcessEnds
    BY <1>5, EndIsEnd DEF Checker!Next
<1>6. CASE UNCHANGED <<invoiceStates, caller, waiter, read, arg, want>>
  <2>1. \A c \in Call : SameCall(c)
      BY <1>6 DEF SameCall, PhaseOf, AnswerOf
  <2> QED
      BY <1>6, <2>1, CheckerStutters
<1>7. ASSUME UNCHANGED <<invoiceStates, caller, read, arg, want>>,
             waiter' = Broadcast
      PROVE  UNCHANGED Checker!vars
  <2>1. \A c \in Call : SameCall(c)
      BY <1>7, SMT DEF SameCall, PhaseOf, AnswerOf
  <2> QED
      BY <1>7, <2>1, CheckerStutters
<1>8. ASSUME NEW c \in Call, TimerFires(c) \/ TimerSignals(c)
      PROVE  [Checker!Next]_(Checker!vars)
    BY <1>6, <1>7, <1>8 DEF TimerFires, TimerSignals
<1>9. ASSUME NEW c \in Call, Verify(c)
      PROVE  [Checker!Next]_(Checker!vars)
    BY <1>1, <1>2, <1>3, <1>8, <1>9 DEF Verify
<1>10. CASE StartFails \/ Crash \/ Exit
    BY <1>5, <1>10 DEF StartFails, Crash, Exit
<1> QED
    BY <1>4, <1>6, <1>7, <1>9, <1>10, QuietSteps DEF Next, Main, Reader

\* VerifyInvoiceStatus, with its two goroutines, mutex, condition variable and
\* timer, implements one atomic look at the cache, for any number of calls.
THEOREM ChallengerChecks == Spec => ImplementsChecker
<1>1. Init => Checker!Init
    BY SMT DEF Init, Checker!Init, Hash
<1>2. Spec => []Shape
    BY ShapeInit, ShapeStep, PTL DEF Spec
<1> QED
    BY <1>1, <1>2, StepIsChecked, PTL
    DEF Spec, ImplementsChecker, Checker!Spec
=============================================================================
