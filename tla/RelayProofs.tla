---------------------------- MODULE RelayProofs ----------------------------
(***************************************************************************)
(* The relay is an atomic swap, for any number of circuits and processes,  *)
(* any time locks and any delay MaxLag of less than half of CltvDeltaAlpha. *)
(* The invariant relates three things the code keeps apart: where a        *)
(* circuit is in circuitSwitch, what lnd says of its invoice and its       *)
(* payment, and how far the chain is from the two time locks.              *)
(***************************************************************************)
EXTENDS Relay, TLAPS

\* Most steps are first-order and go to Zenon; the others name their prover.
USE Zenon

Over == {"killed", "crashed", "panicked"}

\* Which process a circuit belongs to, and that it lives as long as the
\* circuit does: main does not leave before the circuits it waits for.
Owned(h) ==
    /\ wrapped[h] = None => circuit[h] = None /\ owner[h] = None
    /\ circuit[h] # None => owner[h] \in Process
    /\ circuit[h] \in Running => Live(owner[h])
    /\ circuit[h] = "added" => proc[owner[h]] \in {"serving", "shutdown"}
    /\ owner[h] \in Process /\ circuit[h] = None => proc[owner[h]] \in Over

\* What a circuit's place in circuitSwitch says of the invoice and the payment.
Money(h) ==
    /\ circuit[h] \in {None, "added", "watching", "pay"} => payment[h] = None
    /\ circuit[h] \in {None, "added"} => wrapped[h] # "ACCEPTED"
    /\ circuit[h] = "pay" => wrapped[h] = "ACCEPTED"
    /\ circuit[h] = "paying" => payment[h] # None
    /\ circuit[h] = "cancel" => payment[h] \in {None, "FAILED"}
    /\ circuit[h] = "settle" => payment[h] = "SUCCEEDED"
    /\ circuit[h] = "done" =>
           /\ wrapped[h] \in {"SETTLED", "CANCELED"} \/ h \in uncanceled
           /\ payment[h] = "SUCCEEDED" => wrapped[h] = "SETTLED"
    /\ payment[h] = "IN_FLIGHT" =>
           circuit[h] \in {"paying", "dead"} /\ wrapped[h] = "ACCEPTED"
    /\ payment[h] # None => wrapped[h] \notin {None, "OPEN"}
    /\ wrapped[h] = "SETTLED" =>
           /\ payment[h] = "SUCCEEDED"
           /\ circuit[h] \in {"settle", "done", "dead"}
    /\ payment[h] = "SUCCEEDED" /\ wrapped[h] = "CANCELED" =>
           circuit[h] = "dead"

\* The blocks that are left of the two time locks.
Timing(h) ==
    /\ circuit[h] \in {None, "added"} => lag[h] = 0
    /\ circuit[h] = "watching" /\ wrapped[h] = "OPEN" => lag[h] = 0
    /\ circuit[h] = "paying" /\ payment[h] = "IN_FLIGHT" => lag[h] = 0
    /\ wrapped[h] = "ACCEPTED" /\ circuit[h] \in {"watching", "pay"} =>
           height + CltvExpiry <= heldUntil[h] + lag[h]
    /\ payment[h] = "IN_FLIGHT" =>
           /\ height <= payUntil[h]
           /\ payUntil[h] + CltvDeltaAlpha <= heldUntil[h] + MaxLag
    /\ /\ wrapped[h] = "ACCEPTED"
       /\ \/ circuit[h] \in {"cancel", "settle"}
          \/ circuit[h] = "paying" /\ payment[h] # "IN_FLIGHT"
       => height + CltvDeltaAlpha <= heldUntil[h] + MaxLag + lag[h]

Sound(h) == Owned(h) /\ Money(h) /\ Timing(h)

IInv == TypeOK /\ \A h \in Hash : Sound(h)

-----------------------------------------------------------------------------
\* A step that leaves a circuit, its invoice and its payment alone, and the
\* processes and the chain too, leaves what is known of it.
LEMMA Untouched ==
    ASSUME NEW g \in Hash, Sound(g), UNCHANGED <<height, proc>>,
           uncanceled \subseteq uncanceled',
           wrapped'[g] = wrapped[g], heldUntil'[g] = heldUntil[g],
           payment'[g] = payment[g], payUntil'[g] = payUntil[g],
           circuit'[g] = circuit[g], owner'[g] = owner[g], lag'[g] = lag[g]
    PROVE  Sound(g)'
BY SMT DEF Sound, Owned, Money, Timing, Live

\* PayerPays: a circuit that watches is not late when the payment is accepted,
\* so the whole of the time lock is left.
LEMMA PayerPaysKeeps ==
    ASSUME IInv, NEW h \in Hash, PayerPays(h)
    PROVE  IInv'
<1>1. TypeOK'
      BY RelayAssumption, SMT DEF IInv, TypeOK, PayerPays
<1>2. \A g \in Hash : g # h => Sound(g)'
      BY Untouched, SMT DEF IInv, PayerPays
<1>3. Owned(h)'
      BY SMT DEF IInv, Sound, Owned, PayerPays, Live, None
<1>4. Money(h)'
      BY SMT DEF IInv, Sound, Money, PayerPays
<1>5. Timing(h)'
      BY RelayAssumption, SMT DEF IInv, Sound, TypeOK, Money, Timing, PayerPays
<1> QED BY <1>1, <1>2, <1>3, <1>4, <1>5 DEF IInv, Sound

\* InvoiceExpires: an invoice that is still open has not been paid for.
LEMMA InvoiceExpiresKeeps ==
    ASSUME IInv, NEW h \in Hash, InvoiceExpires(h)
    PROVE  IInv'
<1>1. TypeOK'
      BY DEF IInv, TypeOK, InvoiceExpires
<1>2. \A g \in Hash : g # h => Sound(g)'
      BY Untouched, SMT DEF IInv, InvoiceExpires
<1>3. Owned(h)'
      BY SMT DEF IInv, Sound, Owned, InvoiceExpires, Live, None
<1>4. Money(h)'
      BY SMT DEF IInv, Sound, Money, InvoiceExpires, None
<1>5. Timing(h)'
      BY SMT DEF IInv, Sound, Timing, InvoiceExpires
<1> QED BY <1>1, <1>2, <1>3, <1>4, <1>5 DEF IInv, Sound

\* HoldTimesOut: the lock of a held payment runs out on a circuit only when it
\* is dead or has done with the invoice.
LEMMA HoldTimesOutKeeps ==
    ASSUME IInv, NEW h \in Hash, HoldTimesOut(h)
    PROVE  IInv'
<1>1. TypeOK'
      BY DEF IInv, TypeOK, HoldTimesOut
<1>2. \A g \in Hash : g # h => Sound(g)'
      BY Untouched, SMT DEF IInv, HoldTimesOut
<1>3. Owned(h)'
      BY SMT DEF IInv, Sound, Owned, HoldTimesOut, Live, None
<1>4. Money(h)'
      BY RelayAssumption, SMT DEF IInv, Sound, TypeOK, Money, Timing,
         HoldTimesOut, Running, None
<1>5. Timing(h)'
      BY SMT DEF IInv, Sound, Timing, HoldTimesOut
<1> QED BY <1>1, <1>2, <1>3, <1>4, <1>5 DEF IInv, Sound

\* StartCircuit: the goroutine starts on an invoice nobody has paid.
LEMMA StartCircuitKeeps ==
    ASSUME IInv, NEW h \in Hash, StartCircuit(h)
    PROVE  IInv'
<1>1. TypeOK'
      BY DEF IInv, TypeOK, StartCircuit, lndVars, Running
<1>2. \A g \in Hash : g # h => Sound(g)'
      BY Untouched, SMT DEF IInv, StartCircuit, lndVars
<1>3. Owned(h)'
      BY SMT DEF IInv, Sound, Owned, StartCircuit, lndVars, Live, None
<1>4. Money(h)'
      BY SMT DEF IInv, Sound, Money, StartCircuit, lndVars
<1>5. Timing(h)'
      BY DEF IInv, Sound, Money, Timing, StartCircuit, lndVars
<1> QED BY <1>1, <1>2, <1>3, <1>4, <1>5 DEF IInv, Sound

\* WatchInvoice: pay is reached with a held payment, and in time.
LEMMA WatchInvoiceKeeps ==
    ASSUME IInv, NEW h \in Hash, WatchInvoice(h)
    PROVE  IInv'
<1>1. TypeOK'
      BY RelayAssumption, SMT DEF IInv, TypeOK, WatchInvoice, lndVars, Running
<1>2. \A g \in Hash : g # h => Sound(g)'
      BY Untouched DEF IInv, TypeOK, WatchInvoice, lndVars
<1>3. Owned(h)'
      BY SMT DEF IInv, Sound, TypeOK, Owned, WatchInvoice, lndVars, Live, None
<1>4. Money(h)'
      BY DEF IInv, Sound, TypeOK, Money, WatchInvoice, lndVars, None
<1>5. Timing(h)'
      BY RelayAssumption, SMT DEF IInv, Sound, TypeOK, Timing, WatchInvoice,
         lndVars, None
<1> QED BY <1>1, <1>2, <1>3, <1>4, <1>5 DEF IInv, Sound

\* PayInvoice: the payment sent ends CltvDeltaAlpha blocks before the one held,
\* but for the blocks that the circuit was late.
LEMMA PayInvoiceKeeps ==
    ASSUME IInv, NEW h \in Hash, PayInvoice(h)
    PROVE  IInv'
<1>1. TypeOK'
      BY RelayAssumption, SMT DEF IInv, TypeOK, PayInvoice, Running
<1>2. \A g \in Hash : g # h => Sound(g)'
      BY Untouched, SMT DEF IInv, PayInvoice
<1>3. Owned(h)'
      BY SMT DEF IInv, Sound, Owned, PayInvoice, Running, Live, None
<1>4. Money(h)'
      BY DEF IInv, Sound, TypeOK, Money, PayInvoice, None
<1>5. Timing(h)'
      BY RelayAssumption, SMT DEF IInv, Sound, TypeOK, Money, Timing,
         PayInvoice
<1> QED BY <1>1, <1>2, <1>3, <1>4, <1>5 DEF IInv, Sound

\* PayReturns: settle is reached with a payment that succeeded, cancel with
\* one that failed.
LEMMA PayReturnsKeeps ==
    ASSUME IInv, NEW h \in Hash, PayReturns(h)
    PROVE  IInv'
<1>1. TypeOK'
      BY DEF IInv, TypeOK, PayReturns, lndVars, Running
<1>2. \A g \in Hash : g # h => Sound(g)'
      BY Untouched DEF IInv, TypeOK, PayReturns, lndVars
<1>3. Owned(h)'
      BY SMT DEF IInv, Sound, TypeOK, Owned, PayReturns, lndVars, Live, None
<1>4. Money(h)'
      BY DEF IInv, Sound, TypeOK, Money, PayReturns, lndVars, None
<1>5. Timing(h)'
      BY DEF IInv, Sound, TypeOK, Timing, PayReturns, lndVars, None
<1> QED BY <1>1, <1>2, <1>3, <1>4, <1>5 DEF IInv, Sound

\* CancelInvoice: what is cancelled, or left behind with an error in the log,
\* was not paid for.
LEMMA CancelInvoiceKeeps ==
    ASSUME IInv, NEW h \in Hash, CancelInvoice(h)
    PROVE  IInv'
<1>1. TypeOK'
      BY RelayAssumption, SMT DEF IInv, TypeOK, CancelInvoice
<1>2. \A g \in Hash : g # h => Sound(g)'
      BY Untouched DEF IInv, TypeOK, CancelInvoice
<1>3. Owned(h)'
      BY SMT DEF IInv, Sound, TypeOK, Owned, CancelInvoice, Live, None
<1>4. Money(h)'
      BY DEF IInv, Sound, TypeOK, Money, CancelInvoice, None
<1>5. Timing(h)'
      BY DEF IInv, Sound, TypeOK, Timing, CancelInvoice
<1> QED BY <1>1, <1>2, <1>3, <1>4, <1>5 DEF IInv, Sound

\* PaymentEnds: a payment is over by payUntil, and the held one is still there.
LEMMA PaymentEndsKeeps ==
    ASSUME IInv, NEW h \in Hash, NEW r \in {"SUCCEEDED", "FAILED"},
           PaymentEnds(h, r)
    PROVE  IInv'
<1>1. TypeOK'
      BY DEF IInv, TypeOK, PaymentEnds
<1>2. \A g \in Hash : g # h => Sound(g)'
      BY Untouched, SMT DEF IInv, PaymentEnds
<1>3. Owned(h)'
      BY DEF IInv, Sound, Owned, PaymentEnds, Live
<1>4. Money(h)'
      BY SMT DEF IInv, Sound, Money, PaymentEnds, None
<1>5. Timing(h)'
      BY RelayAssumption, SMT DEF IInv, Sound, TypeOK, Timing, PaymentEnds
<1> QED BY <1>1, <1>2, <1>3, <1>4, <1>5 DEF IInv, Sound

\* Block: the locks come closer by the block that a busy circuit gets later.
LEMMA BlockKeeps ==
    ASSUME IInv, Block
    PROVE  IInv'
<1>1. TypeOK'
      BY RelayAssumption, SMT DEF IInv, TypeOK, Block
<1>2. ASSUME NEW g \in Hash
      PROVE  Sound(g)'
  <2>1. Owned(g)' /\ Money(g)'
        BY DEF IInv, Sound, Owned, Money, Live, Block
  <2>2. Timing(g)'
        BY RelayAssumption, SMT DEF IInv, Sound, TypeOK, Timing, Block, Busy,
           None
  <2> QED BY <2>1, <2>2 DEF Sound
<1> QED BY <1>1, <1>2 DEF IInv

\* OpenCircuit: a new invoice has no circuit and no payment yet.
LEMMA OpenCircuitKeeps ==
    ASSUME IInv, NEW p \in Process, NEW h \in Hash, OpenCircuit(p, h)
    PROVE  IInv'
<1>1. TypeOK'
      BY SMT DEF IInv, TypeOK, OpenCircuit
<1>2. \A g \in Hash : g # h => Sound(g)'
      BY Untouched DEF IInv, TypeOK, OpenCircuit
<1>3. Owned(h)'
      BY SMT DEF IInv, Sound, TypeOK, Owned, OpenCircuit, Live, None
<1>4. Money(h)'
      BY DEF IInv, Sound, TypeOK, Money, OpenCircuit, None
<1>5. Timing(h)'
      BY SMT DEF IInv, Sound, Owned, Timing, OpenCircuit, None
<1> QED BY <1>1, <1>2, <1>3, <1>4, <1>5 DEF IInv, Sound

\* The end of a process, however it comes: its circuits are dead and lnd is
\* where it was.
LEMMA DiesKeeps ==
    ASSUME IInv, NEW p \in Process, NEW how \in Over, Dies(p, how),
           UNCHANGED lndVars
    PROVE  IInv'
<1>1. TypeOK'
      BY RelayAssumption, SMT DEF IInv, TypeOK, Dies, lndVars, Over
<1>2. ASSUME NEW g \in Hash
      PROVE  Sound(g)'
  <2>1. CASE owner[g] = p
    <3>1. /\ circuit[g] \in Running => circuit'[g] = "dead"
          /\ circuit[g] = "added" => circuit'[g] = None
          /\ circuit[g] \in {None, "done", "dead"} => circuit'[g] = circuit[g]
          /\ lag'[g] = 0
          BY <2>1 DEF Dies, Running, None
    <3>2. circuit[g] \in {None, "added", "done", "dead"} \union Running
          BY DEF IInv, TypeOK
    <3>3. owner'[g] = p /\ proc'[p] = how /\ UNCHANGED <<lndVars, uncanceled>>
          BY <2>1 DEF IInv, TypeOK, Dies
    <3>4. Owned(g)'
          BY <2>1, <3>1, <3>2, <3>3 DEF IInv, Sound, Owned, Running, None,
             lndVars
    <3>5. Money(g)'
          BY <2>1, <3>1, <3>2, <3>3 DEF IInv, Sound, Money, None, lndVars
    <3>6. Timing(g)'
          BY <2>1, <3>1, <3>2, <3>3 DEF IInv, Sound, Timing, None, lndVars
    <3> QED BY <3>4, <3>5, <3>6 DEF Sound
  <2>2. CASE owner[g] # p
    <3>1. circuit'[g] = circuit[g] /\ lag'[g] = lag[g]
          BY <2>2 DEF Dies
    <3>2. owner'[g] = owner[g] /\ proc'[owner[g]] = proc[owner[g]]
          /\ UNCHANGED <<lndVars, uncanceled>>
          BY <2>2, SMT DEF Dies
    <3> QED BY <3>1, <3>2, SMT DEF IInv, Sound, Owned, Money, Timing, Live,
               lndVars
  <2> QED BY <2>1, <2>2
<1> QED BY <1>1, <1>2 DEF IInv

\* SettleInvoice: what is collected was paid for; or the process panics.
LEMMA SettleInvoiceKeeps ==
    ASSUME IInv, NEW h \in Hash, SettleInvoice(h)
    PROVE  IInv'
<1>1. CASE wrapped' = wrapped /\ Dies(owner[h], "panicked")
      BY <1>1, DiesKeeps DEF IInv, Sound, Owned, SettleInvoice, Over, lndVars,
         None
<1>2. CASE /\ wrapped[h] = "ACCEPTED"
           /\ wrapped' = [wrapped EXCEPT ![h] = "SETTLED"]
           /\ \/ circuit' = [circuit EXCEPT ![h] = "done"]
              \/ UNCHANGED circuit
           /\ lag' = [lag EXCEPT ![h] = 0]
           /\ UNCHANGED <<proc, owner, uncanceled>>
  <2>1. TypeOK'
        BY <1>2, RelayAssumption, SMT DEF IInv, TypeOK, SettleInvoice
  <2>2. \A g \in Hash : g # h => Sound(g)'
        BY <1>2, Untouched DEF IInv, TypeOK, SettleInvoice
  <2>3. Owned(h)'
        BY <1>2, SMT DEF IInv, Sound, TypeOK, Owned, SettleInvoice, Live, None
  <2>4. Money(h)'
        BY <1>2 DEF IInv, Sound, TypeOK, Money, SettleInvoice, None
  <2>5. Timing(h)'
        BY <1>2 DEF IInv, Sound, TypeOK, Timing, SettleInvoice
  <2> QED BY <2>1, <2>2, <2>3, <2>4, <2>5 DEF IInv, Sound
<1> QED BY <1>1, <1>2 DEF SettleInvoice

\* PayUnknown: the process panics, whether or not the payment was sent.
LEMMA PayUnknownKeeps ==
    ASSUME IInv, NEW h \in Hash, PayUnknown(h)
    PROVE  IInv'
BY DiesKeeps DEF IInv, Sound, Owned, PayUnknown, Over, None

\* The steps of main: a process that leaves has no circuit left, because none
\* is added after server.Shutdown and WaitGroup.Wait waits for the others.
LEMMA MainKeeps ==
    ASSUME IInv, NEW p \in Process, Main(p)
    PROVE  IInv'
<1>1. CASE Crash(p) \/ SecondSigint(p)
      BY <1>1, DiesKeeps DEF Crash, SecondSigint, Over
<1>2. CASE Start(p) \/ Sigint(p) \/ ShutdownReturns(p) \/ WaitReturns(p)
  <2>1. TypeOK'
        BY <1>2 DEF IInv, TypeOK, Start, Sigint, ShutdownReturns, WaitReturns,
           lndVars
  <2>2. ASSUME NEW g \in Hash
        PROVE  Sound(g)'
    <3>1. Money(g)' /\ Timing(g)'
          BY <1>2 DEF IInv, Sound, Money, Timing, Start, Sigint,
             ShutdownReturns, WaitReturns, lndVars
    <3>2. Owned(g)'
          BY <1>2, SMT DEF IInv, TypeOK, Sound, Owned, Running, Live, Over,
             None, Start, Sigint, ShutdownReturns, WaitReturns, lndVars
    <3> QED BY <3>1, <3>2 DEF Sound
  <2> QED BY <2>1, <2>2 DEF IInv
<1> QED BY <1>1, <1>2 DEF Main

\* Every step of the relay, of lnd and of the chain keeps the invariant.
LEMMA Inductive == IInv /\ [Next]_vars => IInv'
<1> SUFFICES ASSUME IInv, [Next]_vars
             PROVE  IInv'
    OBVIOUS
<1>1. CASE UNCHANGED vars
      BY <1>1, SMT DEF IInv, Sound, TypeOK, Owned, Money, Timing, Live, vars
<1>2. ASSUME NEW h \in Hash,
             PayerPays(h) \/ InvoiceExpires(h) \/ HoldTimesOut(h)
                 \/ \E r \in {"SUCCEEDED", "FAILED"} : PaymentEnds(h, r)
      PROVE  IInv'
      BY <1>2, PayerPaysKeeps, InvoiceExpiresKeeps, HoldTimesOutKeeps,
         PaymentEndsKeeps
<1>3. ASSUME NEW h \in Hash, Circuit(h) \/ PayUnknown(h)
      PROVE  IInv'
      BY <1>3, StartCircuitKeeps, WatchInvoiceKeeps, PayInvoiceKeeps,
         PayReturnsKeeps, SettleInvoiceKeeps, CancelInvoiceKeeps,
         PayUnknownKeeps DEF Circuit
<1> QED BY <1>1, <1>2, <1>3, BlockKeeps, OpenCircuitKeeps, MainKeeps DEF Next,
           Lnd

\* The invariant holds of the relay.
THEOREM Invariant == Spec => []IInv
<1>1. Init => IInv
      BY RelayAssumption, SMT DEF Init, IInv, Sound, TypeOK, Owned, Money,
         Timing, Running, None
<1> QED BY <1>1, Inductive, PTL DEF Spec

-----------------------------------------------------------------------------
\* While circuitSwitch's payment is on its way the payer's is held, also after
\* the process has died.
THEOREM HeldWhilePayingHolds == Spec => []HeldWhilePaying
<1>1. IInv => HeldWhilePaying
      BY DEF IInv, Sound, Money, HeldWhilePaying
<1> QED BY <1>1, Invariant, PTL

\* circuitSwitch never leaves a payment to its time lock, unless it died or
\* CancelInvoice failed.
THEOREM LocksHold == Spec => []LocksRunOutOnlyIfAbandoned
<1>1. IInv => LocksRunOutOnlyIfAbandoned
      BY RelayAssumption, SMT DEF IInv, Sound, TypeOK, Money, Timing, Running,
         LocksRunOutOnlyIfAbandoned
<1> QED BY <1>1, Invariant, PTL

\* A process that returns from main after one SIGINT has settled or canceled
\* the invoices of all its circuits, but for failed cancellations.
THEOREM GracefulExitHolds == Spec => []GracefulExit
<1>1. IInv => GracefulExit
      BY DEF IInv, Sound, TypeOK, Owned, Money, Live, Over, GracefulExit
<1> QED BY <1>1, Invariant, PTL

\* When the payee is paid, CltvDeltaAlpha - MaxLag blocks are left to settle.
THEOREM RecoveryWindowHolds == Spec => RecoveryWindow
<1>1. IInv /\ [Next]_vars =>
          [\A h \in Hash :
               payment[h] = "IN_FLIGHT" /\ payment'[h] = "SUCCEEDED" =>
                   height + CltvDeltaAlpha <= heldUntil[h] + MaxLag]_vars
      BY RelayAssumption, SMT DEF IInv, Sound, TypeOK, Timing
<1> QED BY <1>1, Invariant, PTL DEF Spec, RecoveryWindow

\* circuitSwitch collects only what it paid for, and gives back what it paid
\* for only when it is dead.
THEOREM AtomicSwapHolds == Spec => []AtomicSwap
<1>1. IInv => AtomicSwap
      BY DEF IInv, Sound, TypeOK, Money, None, AtomicSwap, Swapping!Atomic
<1> QED BY <1>1, Invariant, PTL

-----------------------------------------------------------------------------
\* No swap is under way at the start.
LEMMA SwapStart == Init => Swapping!Init
<1> SUFFICES ASSUME Init PROVE Swapping!Init
    OBVIOUS
<1>1. \A h \in Hash : wrapped[h] = None /\ payment[h] = None
      BY DEF Init
<1>2. \A h \in Hash : (circuit[h] = "dead") = FALSE
      BY DEF Init, None
<1> QED BY <1>1, <1>2 DEF Swapping!Init, None

\* AddInvoice offers the swap, whether or not its answer arrives.
LEMMA OpenIsOffer ==
    ASSUME IInv, NEW p \in Process, NEW h \in Hash, OpenCircuit(p, h)
    PROVE  Swapping!Offer(h)
<1>1. \A g \in Hash : (circuit'[g] = "dead") = (circuit[g] = "dead")
      BY SMT DEF IInv, Sound, TypeOK, Owned, OpenCircuit, None
<1>2. [g \in Hash |-> circuit'[g] = "dead"]
          = [g \in Hash |-> circuit[g] = "dead"]
      BY <1>1
<1>3. /\ wrapped \in [Hash -> {None, "OPEN", "ACCEPTED", "SETTLED",
                                 "CANCELED"}]
      /\ wrapped[h] = None /\ wrapped' = [wrapped EXCEPT ![h] = "OPEN"]
      /\ payment' = payment
      BY DEF IInv, TypeOK, OpenCircuit
<1> QED BY <1>2, <1>3 DEF Swapping!Offer, None

\* The payer's payment is held.
LEMMA PayerPaysIsHold ==
    ASSUME IInv, NEW h \in Hash, PayerPays(h)
    PROVE  Swapping!Hold(h)
BY DEF IInv, TypeOK, PayerPays, Swapping!Hold, None

\* PayInvoice pays once, while the payer's payment is held.
LEMMA PayIsPay ==
    ASSUME IInv, NEW h \in Hash, PayInvoice(h)
    PROVE  Swapping!Pay(h)
BY DEF IInv, Sound, TypeOK, Money, PayInvoice, Swapping!Pay, None

\* The end of a process abandons the swaps of its circuits, and no other.
LEMMA DiesIsAbandon ==
    ASSUME IInv, NEW p, NEW how, Dies(p, how), UNCHANGED lndVars
    PROVE  Swapping!Abandon
<1> DEFINE H == {g \in Hash : owner[g] = p /\ circuit[g] \in Running}
<1>1. \A g \in Hash : (circuit'[g] = "dead") = (circuit[g] = "dead" \/ g \in H)
      BY DEF Dies, None, Running
<1>2. [g \in Hash |-> circuit'[g] = "dead"] =
          [g \in Hash |-> [k \in Hash |-> circuit[k] = "dead"][g] \/ g \in H]
      BY <1>1
<1>3. H \in SUBSET Hash
      OBVIOUS
<1> HIDE DEF H
<1> QED BY <1>2, <1>3 DEF lndVars, Swapping!Abandon

\* A circuit that goes on or comes to its end does not die.
LEMMA NoneGone ==
    ASSUME IInv, NEW h \in Hash, circuit[h] # "dead",
           NEW to, to # "dead", circuit' = [circuit EXCEPT ![h] = to]
    PROVE  [g \in Hash |-> circuit'[g] = "dead"]
               = [g \in Hash |-> circuit[g] = "dead"]
<1>1. \A g \in Hash : (circuit'[g] = "dead") = (circuit[g] = "dead")
      BY DEF IInv, TypeOK
<1> QED BY <1>1

\* An invoice whose payment was not sent or has failed may be canceled.
LEMMA GoesBack ==
    ASSUME IInv, NEW h \in Hash, wrapped[h] \in {"OPEN", "ACCEPTED"},
           payment[h] \in {None, "FAILED"},
           wrapped' = [wrapped EXCEPT ![h] = "CANCELED"], payment' = payment,
           [g \in Hash |-> circuit'[g] = "dead"]
               = [g \in Hash |-> circuit[g] = "dead"]
    PROVE  Swapping!Return(h)
BY DEF IInv, TypeOK, Swapping!Return, None

\* An invoice that expires returns the offer.
LEMMA ExpiryIsReturn ==
    ASSUME IInv, NEW h \in Hash, InvoiceExpires(h)
    PROVE  Swapping!Return(h)
<1>1. payment[h] = None
      BY DEF IInv, Sound, Money, InvoiceExpires
<1> QED BY <1>1, GoesBack DEF InvoiceExpires

\* A time lock that runs out returns the payment, or ends a swap that was paid
\* for and abandoned.
LEMMA TimeoutReturnsOrLapses ==
    ASSUME IInv, NEW h \in Hash, HoldTimesOut(h)
    PROVE  Swapping!Return(h) \/ Swapping!Lapse(h)
<1>1. payment[h] # "IN_FLIGHT"
      BY RelayAssumption, SMT DEF IInv, Sound, TypeOK, Timing, HoldTimesOut
<1>2. CASE payment[h] \in {None, "FAILED"}
      BY <1>2, GoesBack DEF HoldTimesOut
<1>3. CASE payment[h] = "SUCCEEDED"
  <2>1. circuit[h] = "dead"
        BY <1>3, RelayAssumption, SMT DEF IInv, Sound, TypeOK, Money, Timing,
           HoldTimesOut, Running
  <2> QED BY <1>3, <2>1 DEF IInv, TypeOK, HoldTimesOut, Swapping!Lapse, None
<1> QED BY <1>1, <1>2, <1>3 DEF IInv, TypeOK

\* The payment to the payee ends.
LEMMA EndIsEnd ==
    ASSUME IInv, NEW h \in Hash, NEW r \in {"SUCCEEDED", "FAILED"},
           PaymentEnds(h, r)
    PROVE  Swapping!PaymentEnds(h)
<1>1. CASE r = "SUCCEEDED"
      BY <1>1 DEF IInv, TypeOK, PaymentEnds, Swapping!PaymentEnds, None
<1>2. CASE r = "FAILED"
      BY <1>2 DEF IInv, TypeOK, PaymentEnds, Swapping!PaymentEnds, None
<1> QED BY <1>1, <1>2

\* SettleInvoice takes the payer's payment after the payee's, or panics.
LEMMA SettleTakes ==
    ASSUME IInv, NEW h \in Hash, SettleInvoice(h)
    PROVE  Swapping!Take(h) \/ Swapping!Abandon
<1>1. CASE wrapped' = wrapped /\ Dies(owner[h], "panicked")
      BY <1>1, DiesIsAbandon DEF SettleInvoice, lndVars
<1>2. CASE /\ wrapped[h] = "ACCEPTED"
           /\ wrapped' = [wrapped EXCEPT ![h] = "SETTLED"]
           /\ \/ circuit' = [circuit EXCEPT ![h] = "done"]
              \/ UNCHANGED circuit
  <2>1. payment[h] = "SUCCEEDED" /\ payment' = payment
        BY DEF IInv, Sound, Money, SettleInvoice
  <2>2. [g \in Hash |-> circuit'[g] = "dead"]
            = [g \in Hash |-> circuit[g] = "dead"]
        BY <1>2, NoneGone DEF SettleInvoice
  <2> QED BY <1>2, <2>1, <2>2 DEF IInv, TypeOK, Swapping!Take, None
<1> QED BY <1>1, <1>2 DEF SettleInvoice

\* CancelInvoice returns the payment, or finds nothing to return.
LEMMA CancelReturns ==
    ASSUME IInv, NEW h \in Hash, CancelInvoice(h)
    PROVE  Swapping!Return(h) \/ UNCHANGED Swapping!vars
<1>1. [g \in Hash |-> circuit'[g] = "dead"]
          = [g \in Hash |-> circuit[g] = "dead"]
      BY NoneGone DEF CancelInvoice
<1>2. payment[h] \in {None, "FAILED"} /\ payment' = payment
      BY DEF IInv, Sound, Money, CancelInvoice
<1>3. wrapped[h] \in {"OPEN", "ACCEPTED", "CANCELED"}
      BY SMT DEF IInv, Sound, TypeOK, Owned, Money, CancelInvoice, None
<1>4. CASE wrapped' = wrapped
      BY <1>1, <1>2, <1>4 DEF Swapping!vars
<1>5. CASE wrapped' = [wrapped EXCEPT ![h] = "CANCELED"]
  <2>1. CASE wrapped[h] = "CANCELED"
        BY <1>1, <1>2, <1>5, <2>1, SMT DEF Swapping!vars
  <2>2. CASE wrapped[h] # "CANCELED"
        BY <1>1, <1>2, <1>3, <1>5, <2>2, GoesBack
  <2> QED BY <2>1, <2>2
<1> QED BY <1>4, <1>5 DEF CancelInvoice

\* The other steps of a circuit are steps inside the swap.
LEMMA InsideSteps ==
    ASSUME IInv, NEW h \in Hash,
           StartCircuit(h) \/ WatchInvoice(h) \/ PayReturns(h)
    PROVE  UNCHANGED Swapping!vars
<1>1. [g \in Hash |-> circuit'[g] = "dead"]
          = [g \in Hash |-> circuit[g] = "dead"]
      BY NoneGone DEF StartCircuit, WatchInvoice, PayReturns
<1>2. UNCHANGED <<wrapped, payment>>
      BY DEF StartCircuit, WatchInvoice, PayReturns, lndVars
<1> QED BY <1>1, <1>2 DEF Swapping!vars

\* Blocks, starts, signals and a graceful exit are no steps of a swap.
LEMMA OutsideSteps ==
    ASSUME UNCHANGED vars \/ Block
               \/ \E p \in Process : Start(p) \/ Sigint(p)
                      \/ ShutdownReturns(p) \/ WaitReturns(p)
    PROVE  UNCHANGED Swapping!vars
BY DEF vars, Block, Start, Sigint, ShutdownReturns, WaitReturns, lndVars,
   Swapping!vars

\* Every step of the relay is a step of the atomic swap, or none.
LEMMA StepIsSwap == IInv /\ [Next]_vars => [Swapping!Next]_(Swapping!vars)
<1> SUFFICES ASSUME IInv, [Next]_vars
             PROVE  Swapping!Next \/ UNCHANGED Swapping!vars
    OBVIOUS
<1> USE DEF Swapping!Next
<1>1. CASE UNCHANGED vars \/ Block
      BY <1>1, OutsideSteps
<1>2. ASSUME NEW h \in Hash,
             PayerPays(h) \/ InvoiceExpires(h) \/ HoldTimesOut(h)
                 \/ \E r \in {"SUCCEEDED", "FAILED"} : PaymentEnds(h, r)
      PROVE  Swapping!Next
      BY <1>2, PayerPaysIsHold, ExpiryIsReturn, TimeoutReturnsOrLapses,
         EndIsEnd
<1>3. ASSUME NEW p \in Process, NEW h \in Hash, OpenCircuit(p, h)
      PROVE  Swapping!Next
      BY <1>3, OpenIsOffer
<1>4. ASSUME NEW h \in Hash, Circuit(h)
      PROVE  Swapping!Next \/ UNCHANGED Swapping!vars
      BY <1>4, PayIsPay, SettleTakes, CancelReturns, InsideSteps DEF Circuit
<1>5. ASSUME NEW h \in Hash, PayUnknown(h)
      PROVE  Swapping!Next
      BY <1>5, DiesIsAbandon DEF PayUnknown
<1>6. ASSUME NEW p \in Process, Main(p)
      PROVE  Swapping!Next \/ UNCHANGED Swapping!vars
      BY <1>6, DiesIsAbandon, OutsideSteps DEF Main, SecondSigint, Crash
<1> QED BY <1>1, <1>2, <1>3, <1>4, <1>5, <1>6 DEF Next, Lnd

\* The circuits implement the atomic swap, whatever lnd's errors, signals and
\* crashes do.
THEOREM RelaySwaps == Spec => ImplementsSwap
<1> QED BY SwapStart, StepIsSwap, Invariant, PTL
        DEF Spec, ImplementsSwap, Swapping!Spec
=============================================================================
