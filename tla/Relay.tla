------------------------------- MODULE Relay -------------------------------
(***************************************************************************)
(* The circuits of the lnproxy relay (lnproxy/relay.go) and the life of    *)
(* the processes that run them (lnproxy/cmd/http-relay/main.go).           *)
(*                                                                         *)
(* A request to wrap an invoice adds a hold invoice with the same payment  *)
(* hash to lnd and starts a goroutine, the circuit: it waits until the     *)
(* wrapped invoice is accepted, pays the original invoice, and settles the *)
(* wrapped one with the preimage, or cancels it.  lnd, its invoices and    *)
(* payments outlive the process; a circuit does not, and no later process  *)
(* takes it up again.                                                      *)
(*                                                                         *)
(* Time is the block height.  A held payment times out CltvExpiry blocks   *)
(* after it was accepted, the payment to the original invoice at most      *)
(* CltvExpiry - CltvDeltaAlpha blocks after it was sent, and a live        *)
(* circuit is never more than MaxLag blocks late with its next step.       *)
(***************************************************************************)
EXTENDS Naturals, FiniteSets

CONSTANTS Hash,            \* payment hashes, one circuit each
          Process,         \* successive processes of the relay
          CltvExpiry,      \* q.CltvExpiry of a wrapped invoice, in blocks
          CltvDeltaAlpha,  \* the margin kept between the two payments
          MaxLag,          \* how late a live circuit may be, in blocks
          MaxHeight,       \* bound on the block height
          LndMayFail       \* can a call to lnd end in an unexpected error?

None == "none"

ASSUME RelayAssumption ==
    /\ None \notin Process
    /\ CltvExpiry \in Nat /\ CltvDeltaAlpha \in Nat
    /\ MaxLag \in Nat /\ MaxHeight \in Nat
    /\ 2 * MaxLag < CltvDeltaAlpha
    /\ CltvDeltaAlpha <= CltvExpiry
    /\ LndMayFail \in BOOLEAN

VARIABLES
    \* lnd
    height,      \* block height
    wrapped,     \* state of the wrapped invoice
    heldUntil,   \* height at which a held payment times out
    payment,     \* state of the payment to the original invoice
    payUntil,    \* height by which that payment is over
    \* the relay
    proc,        \* state of each process
    circuit,     \* state of the circuit of each hash
    owner,       \* the process it runs in
    lag,         \* blocks since its next step became possible
    uncanceled   \* history: CancelInvoice failed and was only logged

lndVars == <<height, wrapped, heldUntil, payment, payUntil>>

vars == <<height, wrapped, heldUntil, payment, payUntil, proc, circuit,
          owner, lag, uncanceled>>

\* A circuit's goroutine exists ("added": its HTTP handler has added the
\* invoice and has not yet started it).
Running == {"watching", "pay", "paying", "cancel", "settle"}

Live(p) == proc[p] \in {"serving", "deaf", "shutdown", "waiting"}

-----------------------------------------------------------------------------
(***************************************************************************)
(* lnd, the payer, the payee and the chain (external).                     *)
(***************************************************************************)

\* The payer pays the wrapped invoice it was given; lnd holds the payment.
PayerPays(h) ==
    /\ wrapped[h] = "OPEN"
    /\ circuit[h] \notin {None, "added"}
    /\ height + CltvExpiry <= MaxHeight
    /\ wrapped' = [wrapped EXCEPT ![h] = "ACCEPTED"]
    /\ heldUntil' = [heldUntil EXCEPT ![h] = height + CltvExpiry]
    /\ UNCHANGED <<height, payment, payUntil, proc, circuit, owner, lag,
                   uncanceled>>

\* lnd cancels an open invoice when its expiry passes.
InvoiceExpires(h) ==
    /\ wrapped[h] = "OPEN"
    /\ wrapped' = [wrapped EXCEPT ![h] = "CANCELED"]
    /\ UNCHANGED <<height, heldUntil, payment, payUntil, proc, circuit, owner,
                   lag, uncanceled>>

\* lnd gives a held payment back when its time lock runs out.
HoldTimesOut(h) ==
    /\ wrapped[h] = "ACCEPTED"
    /\ height >= heldUntil[h]
    /\ wrapped' = [wrapped EXCEPT ![h] = "CANCELED"]
    /\ UNCHANGED <<height, heldUntil, payment, payUntil, proc, circuit, owner,
                   lag, uncanceled>>

PaymentEnds(h, result) ==
    /\ payment[h] = "IN_FLIGHT"
    /\ payment' = [payment EXCEPT ![h] = result]
    /\ UNCHANGED <<height, wrapped, heldUntil, payUntil, proc, circuit, owner,
                   lag, uncanceled>>

\* A circuit whose next step is possible.
Busy(h) ==
    \/ circuit[h] = "watching" /\ wrapped[h] # "OPEN"
    \/ circuit[h] \in {"pay", "cancel", "settle"}
    \/ circuit[h] = "paying" /\ payment[h] # "IN_FLIGHT"

\* A block is found.  Payments in flight are over by their time lock.
Block ==
    /\ height < MaxHeight
    /\ \A h \in Hash : /\ payment[h] = "IN_FLIGHT" => height < payUntil[h]
                       /\ Busy(h) => lag[h] < MaxLag
    /\ height' = height + 1
    /\ lag' = [h \in Hash |-> IF Busy(h) THEN lag[h] + 1 ELSE lag[h]]
    /\ UNCHANGED <<wrapped, heldUntil, payment, payUntil, proc, circuit,
                   owner, uncanceled>>

-----------------------------------------------------------------------------
(***************************************************************************)
(* OpenCircuit, in the HTTP handler.                                       *)
(***************************************************************************)

\* AddInvoice succeeds, or it adds the invoice and reports an error (then
\* nobody learns of the invoice).  A hash lnd knows already is refused with
\* PaymentHashExists, a request that wrap refuses changes nothing.
OpenCircuit(p, h) ==
    /\ proc[p] = "serving"
    /\ wrapped[h] = None
    /\ wrapped' = [wrapped EXCEPT ![h] = "OPEN"]
    /\ \/ /\ circuit' = [circuit EXCEPT ![h] = "added"]
          /\ owner' = [owner EXCEPT ![h] = p]
       \/ /\ LndMayFail
          /\ UNCHANGED <<circuit, owner>>
    /\ UNCHANGED <<height, heldUntil, payment, payUntil, proc, lag,
                   uncanceled>>

\* WaitGroup.Add, go circuitSwitch, and the answer to the client.
StartCircuit(h) ==
    /\ circuit[h] = "added"
    /\ circuit' = [circuit EXCEPT ![h] = "watching"]
    /\ UNCHANGED <<lndVars, proc, owner, lag, uncanceled>>

(***************************************************************************)
(* circuitSwitch.                                                          *)
(***************************************************************************)

\* Deviation: an error of WatchInvoice is ignored.
WatchInvoiceIgnoresError(h) ==
    /\ circuit[h] = "watching"
    /\ \/ /\ wrapped[h] = "ACCEPTED" \/ LndMayFail
          /\ circuit' = [circuit EXCEPT ![h] = "pay"]
       \/ /\ wrapped[h] = "CANCELED"
          /\ circuit' = [circuit EXCEPT ![h] = "done"]
    /\ UNCHANGED <<lndVars, proc, owner, lag, uncanceled>>

\* Deviation: wait for the invoice to be accepted, and for nothing else.
WatchInvoiceAcceptedOnly(h) ==
    /\ circuit[h] = "watching"
    /\ wrapped[h] = "ACCEPTED"
    /\ circuit' = [circuit EXCEPT ![h] = "pay"]
    /\ UNCHANGED <<lndVars, proc, owner, lag, uncanceled>>

\* WatchInvoice returns the invoice's state or an error.
WatchInvoice(h) ==
    /\ circuit[h] = "watching"
    /\ \/ /\ wrapped[h] = "ACCEPTED"
          /\ circuit' = [circuit EXCEPT ![h] = "pay"]
          /\ UNCHANGED lag
       \/ /\ wrapped[h] = "CANCELED"
          /\ circuit' = [circuit EXCEPT ![h] = "done"]
          /\ lag' = [lag EXCEPT ![h] = 0]
       \/ /\ LndMayFail
          /\ circuit' = [circuit EXCEPT ![h] = "cancel"]
          /\ UNCHANGED lag
    /\ UNCHANGED <<lndVars, proc, owner, uncanceled>>

\* Deviation: the margin is one block short.
PayInvoiceShortMargin(h) ==
    /\ circuit[h] = "pay"
    /\ circuit' = [circuit EXCEPT ![h] = "paying"]
    /\ payment' = [payment EXCEPT ![h] = "IN_FLIGHT"]
    /\ payUntil' = [payUntil EXCEPT ![h] =
                        height + (CltvExpiry - CltvDeltaAlpha) + 1]
    /\ lag' = [lag EXCEPT ![h] = 0]
    /\ UNCHANGED <<height, wrapped, heldUntil, proc, owner, uncanceled>>

\* PayInvoice sends the payment, with a time lock CltvDeltaAlpha blocks short
\* of the wrapped invoice's.
PayInvoice(h) ==
    /\ circuit[h] = "pay"
    /\ circuit' = [circuit EXCEPT ![h] = "paying"]
    /\ payment' = [payment EXCEPT ![h] = "IN_FLIGHT"]
    /\ payUntil' = [payUntil EXCEPT ![h] =
                        height + (CltvExpiry - CltvDeltaAlpha)]
    /\ lag' = [lag EXCEPT ![h] = 0]
    /\ UNCHANGED <<height, wrapped, heldUntil, proc, owner, uncanceled>>

\* Deviation: only a success ends the wait for the payment.
PayReturnsSuccessOnly(h) ==
    /\ circuit[h] = "paying"
    /\ payment[h] = "SUCCEEDED"
    /\ circuit' = [circuit EXCEPT ![h] = "settle"]
    /\ UNCHANGED <<lndVars, proc, owner, lag, uncanceled>>

\* PayInvoice returns the preimage or PaymentFailed.
PayReturns(h) ==
    /\ circuit[h] = "paying"
    /\ \/ /\ payment[h] = "SUCCEEDED"
          /\ circuit' = [circuit EXCEPT ![h] = "settle"]
       \/ /\ payment[h] = "FAILED"
          /\ circuit' = [circuit EXCEPT ![h] = "cancel"]
    /\ UNCHANGED <<lndVars, proc, owner, lag, uncanceled>>

\* The process ends at once, with all its circuits.  A handler that has not
\* answered yet never hands out its invoice.
Dies(p, how) ==
    /\ proc' = [proc EXCEPT ![p] = how]
    /\ circuit' = [h \in Hash |->
           CASE owner[h] = p /\ circuit[h] \in Running -> "dead"
             [] owner[h] = p /\ circuit[h] = "added" -> None
             [] OTHER -> circuit[h]]
    /\ lag' = [h \in Hash |-> IF owner[h] = p THEN 0 ELSE lag[h]]
    /\ UNCHANGED <<owner, uncanceled>>

\* Deviation: an unknown error is taken for a failed payment.
PayUnknownCancels(h) ==
    /\ LndMayFail
    /\ circuit[h] \in {"pay", "paying"}
    /\ circuit' = [circuit EXCEPT ![h] = "cancel"]
    /\ UNCHANGED <<lndVars, proc, owner, lag, uncanceled>>

\* PayInvoice returns any other error, whether or not the payment was sent:
\* log.Panicln ends the process.
PayUnknown(h) ==
    /\ LndMayFail
    /\ circuit[h] \in {"pay", "paying"}
    /\ Dies(owner[h], "panicked")
    /\ UNCHANGED lndVars

\* SettleInvoice succeeds on a held invoice, and its answer may be lost.  An
\* error, because the invoice is no longer held or because lnd cannot be
\* reached, is a panic.
SettleInvoice(h) ==
    /\ circuit[h] = "settle"
    /\ \/ /\ wrapped[h] = "ACCEPTED"
          /\ wrapped' = [wrapped EXCEPT ![h] = "SETTLED"]
          /\ \/ circuit' = [circuit EXCEPT ![h] = "done"]
             \/ LndMayFail /\ UNCHANGED circuit
          /\ lag' = [lag EXCEPT ![h] = 0]
          /\ UNCHANGED <<proc, owner, uncanceled>>
       \/ /\ wrapped[h] # "ACCEPTED" \/ LndMayFail
          /\ Dies(owner[h], "panicked")
          /\ UNCHANGED wrapped
    /\ UNCHANGED <<height, heldUntil, payment, payUntil>>

\* CancelInvoice; an error is only logged.
CancelInvoice(h) ==
    /\ circuit[h] = "cancel"
    /\ circuit' = [circuit EXCEPT ![h] = "done"]
    /\ lag' = [lag EXCEPT ![h] = 0]
    /\ \/ /\ wrapped' = [wrapped EXCEPT ![h] = "CANCELED"]
          /\ UNCHANGED uncanceled
       \/ /\ LndMayFail
          /\ uncanceled' = uncanceled \union {h}
          /\ UNCHANGED wrapped
    /\ UNCHANGED <<height, heldUntil, payment, payUntil, proc, owner>>

Circuit(h) ==
    \/ StartCircuit(h) \/ WatchInvoice(h) \/ PayInvoice(h) \/ PayReturns(h)
    \/ SettleInvoice(h) \/ CancelInvoice(h)

-----------------------------------------------------------------------------
(***************************************************************************)
(* The process: main.                                                      *)
(***************************************************************************)

\* A second process cannot listen on the port of one that serves; it stays
\* up, without an HTTP server, until it is interrupted.
Start(p) ==
    /\ proc[p] = "off"
    /\ proc' = [proc EXCEPT ![p] =
           IF \E q \in Process : proc[q] = "serving" THEN "deaf" ELSE "serving"]
    /\ UNCHANGED <<lndVars, circuit, owner, lag, uncanceled>>

\* The first SIGINT: server.Shutdown closes the listener ...
Sigint(p) ==
    /\ proc[p] \in {"serving", "deaf"}
    /\ proc' = [proc EXCEPT ![p] = "shutdown"]
    /\ UNCHANGED <<lndVars, circuit, owner, lag, uncanceled>>

\* Deviation: Close instead of Shutdown, active handlers go on.
ShutdownReturnsAtOnce(p) ==
    /\ proc[p] = "shutdown"
    /\ proc' = [proc EXCEPT ![p] = "waiting"]
    /\ UNCHANGED <<lndVars, circuit, owner, lag, uncanceled>>

\* ... and returns once no handler is active; signal.Reset.
ShutdownReturns(p) ==
    /\ proc[p] = "shutdown"
    /\ \A h \in Hash : owner[h] = p => circuit[h] # "added"
    /\ proc' = [proc EXCEPT ![p] = "waiting"]
    /\ UNCHANGED <<lndVars, circuit, owner, lag, uncanceled>>

\* WaitGroup.Wait returns and main ends.
WaitReturns(p) ==
    /\ proc[p] = "waiting"
    /\ \A h \in Hash : owner[h] = p => circuit[h] \notin Running
    /\ proc' = [proc EXCEPT ![p] = "exited"]
    /\ UNCHANGED <<lndVars, circuit, owner, lag, uncanceled>>

\* A second SIGINT, after signal.Reset, has its default effect.  (Before, it
\* is left in the channel's buffer and nobody reads it.)
SecondSigint(p) ==
    /\ proc[p] = "waiting"
    /\ Dies(p, "killed")
    /\ UNCHANGED lndVars

Crash(p) ==
    /\ Live(p)
    /\ Dies(p, "crashed")
    /\ UNCHANGED lndVars

-----------------------------------------------------------------------------
Init ==
    /\ height = 0
    /\ wrapped = [h \in Hash |-> None]
    /\ heldUntil = [h \in Hash |-> 0]
    /\ payment = [h \in Hash |-> None]
    /\ payUntil = [h \in Hash |-> 0]
    /\ proc = [p \in Process |-> "off"]
    /\ circuit = [h \in Hash |-> None]
    /\ owner = [h \in Hash |-> None]
    /\ lag = [h \in Hash |-> 0]
    /\ uncanceled = {}

Lnd ==
    \/ \E h \in Hash :
           \/ PayerPays(h) \/ InvoiceExpires(h) \/ HoldTimesOut(h)
           \/ \E result \in {"SUCCEEDED", "FAILED"} : PaymentEnds(h, result)
    \/ Block

Main(p) ==
    \/ Start(p) \/ Sigint(p) \/ ShutdownReturns(p) \/ WaitReturns(p)
    \/ SecondSigint(p) \/ Crash(p)

Next ==
    \/ Lnd
    \/ \E p \in Process, h \in Hash : OpenCircuit(p, h)
    \/ \E h \in Hash : Circuit(h) \/ PayUnknown(h)
    \/ \E p \in Process : Main(p)

Spec == Init /\ [][Next]_vars

\* Goroutines run, blocks are found, and lnd ends payments, held payments and
\* open invoices when their time is up.  Nobody has to pay, to send a request
\* or a signal, or to start a process, and no call has to fail.
Fairness ==
    /\ WF_vars(Block)
    /\ \A h \in Hash :
           /\ WF_vars(Circuit(h)) /\ WF_vars(InvoiceExpires(h))
           /\ WF_vars(HoldTimesOut(h))
           /\ WF_vars(\E r \in {"SUCCEEDED", "FAILED"} : PaymentEnds(h, r))
    /\ \A p \in Process :
           WF_vars(ShutdownReturns(p)) /\ WF_vars(WaitReturns(p))

FairSpec == Spec /\ Fairness

-----------------------------------------------------------------------------
\* Every variable has its type.
TypeOK ==
    /\ height \in 0..MaxHeight
    /\ wrapped \in [Hash -> {None, "OPEN", "ACCEPTED", "SETTLED", "CANCELED"}]
    /\ heldUntil \in [Hash -> Nat]
    /\ payment \in [Hash -> {None, "IN_FLIGHT", "SUCCEEDED", "FAILED"}]
    /\ payUntil \in [Hash -> Nat]
    /\ proc \in [Process -> {"off", "serving", "deaf", "shutdown", "waiting",
                             "exited", "killed", "crashed", "panicked"}]
    /\ circuit \in [Hash -> {None, "added", "done", "dead"} \union Running]
    /\ owner \in [Hash -> Process \union {None}]
    /\ lag \in [Hash -> 0..MaxLag]
    /\ uncanceled \in SUBSET Hash

\* While a payment to an original invoice is on its way the payer's payment
\* is still held, even when the process that sent it has died: the time lock
\* of what circuitSwitch pays out runs out before that of what it collects.
HeldWhilePaying ==
    \A h \in Hash : payment[h] = "IN_FLIGHT" => wrapped[h] = "ACCEPTED"

\* When a payment succeeds, circuitSwitch or, after a panic, the operator has
\* CltvDeltaAlpha blocks, less the delay with which it was sent, to settle
\* the wrapped invoice.
RecoveryWindow ==
    [][\A h \in Hash :
           payment[h] = "IN_FLIGHT" /\ payment'[h] = "SUCCEEDED" =>
               height + CltvDeltaAlpha <= heldUntil[h] + MaxLag]_vars

\* A process that ends gracefully after one SIGINT leaves no wrapped invoice
\* of its circuits open or held, except where CancelInvoice failed.
GracefulExit ==
    \A h \in Hash :
        owner[h] \in Process =>
            (proc[owner[h]] = "exited" /\ circuit[h] # "dead" =>
                wrapped[h] \in {"SETTLED", "CANCELED"} \/ h \in uncanceled)

\* The relay as a swap: a wrapped invoice is the payer's side, the payment to
\* the original invoice the payee's, and a dead circuit is not attended to.
Swapping == INSTANCE Swap WITH
    payer <- [h \in Hash |->
        CASE wrapped[h] = "OPEN" -> "offered"
          [] wrapped[h] = "ACCEPTED" -> "held"
          [] wrapped[h] = "SETTLED" -> "taken"
          [] wrapped[h] = "CANCELED" -> "returned"
          [] OTHER -> "none"],
    payee <- [h \in Hash |->
        CASE payment[h] = "IN_FLIGHT" -> "paying"
          [] payment[h] = "SUCCEEDED" -> "paid"
          [] payment[h] = "FAILED" -> "failed"
          [] OTHER -> "unpaid"],
    gone <- [h \in Hash |-> circuit[h] = "dead"]

\* circuitSwitch never cancels a wrapped invoice it has paid for or may yet
\* have to pay for, and never collects without having paid.
AtomicSwap == Swapping!Atomic

\* The circuits implement the atomic swap, whatever lnd's errors, signals and
\* crashes do.
ImplementsSwap == Swapping!Spec

\* A held payment is left to its time lock only when its circuit died or
\* failed to cancel it: circuitSwitch settles or cancels every other one in
\* good time.
LocksRunOutOnlyIfAbandoned ==
    \A h \in Hash :
        wrapped[h] = "ACCEPTED" /\ height >= heldUntil[h] =>
            circuit[h] = "dead" \/ h \in uncanceled

\* Every circuit comes to an end: the goroutine returns, or dies with its
\* process.
CircuitEnds ==
    \A h \in Hash : circuit[h] \in Running ~> circuit[h] \notin Running

\* After a SIGINT the process ends: its circuits come to an end because open
\* invoices expire and payments are over in bounded time.
DrainEnds ==
    \A p \in Process :
        proc[p] = "shutdown" ~>
            proc[p] \in {"exited", "killed", "crashed", "panicked"}

\* The relay's README, on a circuit that does not complete as expected:
\* "at most MaxAmountMsat Bitcoin will be in a limbo state at any one time",
\* that is, at most one circuit has paid out, holds the payer's money, and
\* has nobody to settle it.
LimboAtMostOne ==
    Cardinality({h \in Hash : /\ circuit[h] = "dead"
                              /\ payment[h] = "SUCCEEDED"
                              /\ wrapped[h] = "ACCEPTED"}) <= 1

\* The relay's README: "A second SIGINT will cancel all open invoices and
\* cause the relay to shutdown immediately."
SecondSigintCancels ==
    \A h \in Hash :
        owner[h] \in Process =>
            (proc[owner[h]] = "killed" => wrapped[h] # "OPEN")
=============================================================================
