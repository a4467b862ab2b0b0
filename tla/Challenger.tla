----------------------------- MODULE Challenger -----------------------------
(***************************************************************************)
(* The LnproxyChallenger of aperture/challenger/lnproxy.go: the cache of   *)
(* invoice states, the goroutine that keeps it up to date from lnd's       *)
(* invoice subscription, the callers of VerifyInvoiceStatus that wait on   *)
(* it with a condition variable and a timer goroutine, and its start and   *)
(* stop within aperture's main goroutine.                                  *)
(*                                                                         *)
(* lnd and the secrets table survive the aperture process; everything else *)
(* is volatile and is lost when the process ends.                          *)
(***************************************************************************)
EXTENDS Naturals, Sequences

CONSTANTS Invoice,      \* the invoices of the lnd node
          NoHash,       \* those without a payment hash (AMP invoices)
          Call,         \* concurrent calls of VerifyInvoiceStatus
          WantState,    \* the states callers ask for
          StreamFault,  \* how the subscription can fail: eof, err, badHash
          DbMayFail     \* can the database refuse to write settled_at?

InvoiceState == {"OPEN", "ACCEPTED", "SETTLED", "CANCELED"}

None == "none"

ASSUME ChallengerAssumption ==
    /\ NoHash \subseteq Invoice
    /\ WantState \subseteq InvoiceState
    /\ StreamFault \subseteq {"eof", "err", "badHash"}
    /\ DbMayFail \in BOOLEAN

VARIABLES
    \* lnd
    inv,            \* state of each invoice, None before it is added
    expired,        \* has the invoice's expiry passed?
    addLog,         \* the invoices in the order of their AddIndex
    settleLog,      \* the invoices in the order of their SettleIndex
    \* the secrets table: "noRow", "null" (no settled_at) or "valid"
    settledAt,
    \* aperture's main goroutine and the challenger's fields
    main, quit, invoiceStates, addIndex, settleIndex,
    \* the subscription and the goroutine of readInvoiceStream
    conn, stream, reader, cur,
    \* one VerifyInvoiceStatus call: its caller, its two goroutines, the
    \* variables they share
    caller, arg, want, timer, waiter, timeoutReached, read,
    \* history: settled invoices that Start learned from ListInvoices, and
    \* those whose settled_at the database refused to write
    fromList, dbFailed

lndVars     == <<inv, expired, addLog, settleLog>>
fieldVars   == <<quit, invoiceStates, addIndex, settleIndex>>
callVars    == <<caller, arg, want, timer, waiter, timeoutReached, read>>
historyVars == <<fromList, dbFailed>>

vars == <<inv, expired, addLog, settleLog, settledAt, main, quit,
          invoiceStates, addIndex, settleIndex, conn, stream, reader, cur,
          caller, arg, want, timer, waiter, timeoutReached, read,
          fromList, dbFailed>>

Hash == Invoice \ NoHash

Update == [inv : Invoice, state : InvoiceState]

\* An update message; before the first one the reader has none.
NoUpdate == [inv |-> None, state |-> None]

-----------------------------------------------------------------------------
(***************************************************************************)
(* lnd's invoices (external).  The subscription announces every added and  *)
(* every settled invoice; the challenger also handles updates of held and  *)
(* canceled invoices, which lnd may or may not send.                       *)
(***************************************************************************)

Deliver(i, s) ==
    stream' = IF conn = "live"
              THEN Append(stream, [inv |-> i, state |-> s])
              ELSE stream

LndAdd(i) ==
    /\ inv[i] = None
    /\ inv' = [inv EXCEPT ![i] = "OPEN"]
    /\ addLog' = Append(addLog, i)
    /\ Deliver(i, "OPEN")
    /\ UNCHANGED <<expired, settleLog, settledAt, main, fieldVars, conn,
                   reader, cur, callVars, historyVars>>

LndAccept(i) ==
    /\ inv[i] = "OPEN"
    /\ ~expired[i]
    /\ inv' = [inv EXCEPT ![i] = "ACCEPTED"]
    /\ Deliver(i, "ACCEPTED") \/ UNCHANGED stream
    /\ UNCHANGED <<expired, addLog, settleLog, settledAt, main, fieldVars,
                   conn, reader, cur, callVars, historyVars>>

LndSettle(i) ==
    /\ inv[i] = "ACCEPTED"
    /\ inv' = [inv EXCEPT ![i] = "SETTLED"]
    /\ settleLog' = Append(settleLog, i)
    /\ Deliver(i, "SETTLED")
    /\ UNCHANGED <<expired, addLog, settledAt, main, fieldVars, conn,
                   reader, cur, callVars, historyVars>>

LndCancel(i) ==
    /\ inv[i] \in {"OPEN", "ACCEPTED"}
    /\ inv' = [inv EXCEPT ![i] = "CANCELED"]
    /\ Deliver(i, "CANCELED") \/ UNCHANGED stream
    /\ UNCHANGED <<expired, addLog, settleLog, settledAt, main, fieldVars,
                   conn, reader, cur, callVars, historyVars>>

Expire(i) ==
    /\ inv[i] # None
    /\ ~expired[i]
    /\ expired' = [expired EXCEPT ![i] = TRUE]
    /\ UNCHANGED <<inv, addLog, settleLog, settledAt, main, fieldVars, conn,
                   stream, reader, cur, callVars, historyVars>>

\* The connection to lnd breaks; updates not yet received are lost.
LndDisconnect(fault) ==
    /\ conn = "live"
    /\ fault \in StreamFault \ {"badHash"}
    /\ conn' = fault
    /\ stream' = <<>>
    /\ UNCHANGED <<lndVars, settledAt, main, fieldVars, reader, cur,
                   callVars, historyVars>>

\* The mint stores the secret of a challenge before it hands the invoice
\* out, so before the invoice can be paid.
NewSecret(i) ==
    /\ main \in {"booting", "serving"}
    /\ i \in Hash
    /\ inv[i] = "OPEN"
    /\ settledAt[i] = "noRow"
    /\ settledAt' = [settledAt EXCEPT ![i] = "null"]
    /\ UNCHANGED <<lndVars, main, fieldVars, conn, stream, reader, cur,
                   callVars, historyVars>>

-----------------------------------------------------------------------------
(***************************************************************************)
(* Start, Stop and the end of the process.                                 *)
(***************************************************************************)

\* invoiceIrrelevant, given the invoice's state and whether it expired.
Irrelevant(state, isExpired) ==
    \/ state = "CANCELED"
    \/ isExpired /\ state \in {"OPEN", "ACCEPTED"}

\* The index of the last invoice of a log that carries a payment hash.
LastHashIndex(log) ==
    CHOOSE n \in 0..Len(log) :
        /\ n > 0 => log[n] \notin NoHash
        /\ \A m \in (n + 1)..Len(log) : log[m] \in NoHash

\* ListInvoices: cache the state of every relevant invoice and advance the
\* indices to the latest known invoices.
StartList ==
    /\ main = "down"
    /\ main' = "listed"
    /\ addIndex' = LastHashIndex(addLog)
    /\ settleIndex' = LastHashIndex(settleLog)
    /\ invoiceStates' = [i \in Invoice |->
           IF i \in NoHash \/ Irrelevant(inv[i], expired[i])
           THEN None ELSE inv[i]]
    /\ fromList' = {i \in Hash : inv[i] = "SETTLED"}
    /\ UNCHANGED <<lndVars, settledAt, quit, conn, stream, reader, cur,
                   callVars, dbFailed>>

\* The invoices of a log past an index, each with its current state.
Since(log, index) ==
    [n \in 1..(Len(log) - index) |->
        [inv |-> log[index + n], state |-> inv[log[index + n]]]]

\* Deviation: subscribe to live updates only, without the indices.
StartSubscribeLiveOnly ==
    /\ main = "listed"
    /\ main' = "booting"
    /\ conn' = "live"
    /\ stream' = <<>>
    /\ reader' = "check"
    /\ UNCHANGED <<lndVars, settledAt, fieldVars, cur, callVars, historyVars>>

\* SubscribeInvoices from the indices (lnd sends the invoices added and then
\* those settled since), and the reader goroutine.
StartSubscribe ==
    /\ main = "listed"
    /\ main' = "booting"
    /\ conn' = "live"
    /\ stream' = Since(addLog, addIndex) \o Since(settleLog, settleIndex)
    /\ reader' = "check"
    /\ UNCHANGED <<lndVars, settledAt, fieldVars, cur, callVars, historyVars>>

\* The rest of Aperture.Start has run: main blocks in its select.
EnterSelect ==
    /\ main = "booting"
    /\ main' = "serving"
    /\ UNCHANGED <<lndVars, settledAt, fieldVars, conn, stream, reader, cur,
                   callVars, historyVars>>

Interrupt ==
    /\ main = "serving"
    /\ main' = "interrupted"
    /\ UNCHANGED <<lndVars, settledAt, fieldVars, conn, stream, reader, cur,
                   callVars, historyVars>>

\* Deviation: close quit but leave the subscription open.
StopQuitOnly ==
    /\ main = "interrupted"
    /\ main' = "stopping"
    /\ quit' = TRUE
    /\ UNCHANGED <<lndVars, settledAt, invoiceStates, addIndex, settleIndex,
                   conn, stream, reader, cur, callVars, historyVars>>

\* Stop: cancel the subscription's context and close the quit channel ...
StopCancel ==
    /\ main = "interrupted"
    /\ main' = "stopping"
    /\ quit' = TRUE
    /\ conn' = IF conn = "live" THEN "canceled" ELSE conn
    /\ UNCHANGED <<lndVars, settledAt, invoiceStates, addIndex, settleIndex,
                   stream, reader, cur, callVars, historyVars>>

\* Deviation: the reader is not part of the WaitGroup.
StopWaitCallsOnly ==
    /\ main = "stopping"
    /\ \A c \in Call : caller[c] # "waiting"
    /\ main' = "stopped"
    /\ UNCHANGED <<lndVars, settledAt, fieldVars, conn, stream, reader, cur,
                   callVars, historyVars>>

\* ... then wait for the reader and for every call to finish.
StopWait ==
    /\ main = "stopping"
    /\ reader = "done"
    /\ \A c \in Call : caller[c] # "waiting"
    /\ main' = "stopped"
    /\ UNCHANGED <<lndVars, settledAt, fieldVars, conn, stream, reader, cur,
                   callVars, historyVars>>

\* Everything volatile is gone.
ProcessEnds ==
    /\ main' = "down"
    /\ quit' = FALSE
    /\ invoiceStates' = [i \in Invoice |-> None]
    /\ addIndex' = 0 /\ settleIndex' = 0
    /\ conn' = "closed"
    /\ stream' = <<>>
    /\ reader' = "off"
    /\ cur' = NoUpdate
    /\ caller' = [c \in Call |-> "idle"]
    /\ arg' = [c \in Call |-> None]
    /\ want' = [c \in Call |-> None]
    /\ timer' = [c \in Call |-> "off"]
    /\ waiter' = [c \in Call |-> "off"]
    /\ timeoutReached' = [c \in Call |-> FALSE]
    /\ read' = [c \in Call |-> None]
    /\ fromList' = {}
    /\ UNCHANGED <<lndVars, settledAt, dbFailed>>

\* SubscribeInvoices or a later step of Aperture.Start returns an error, and
\* run returns it.
StartFails == main \in {"listed", "booting"} /\ ProcessEnds

\* The process dies without Stop.
Crash == main \in {"serving", "interrupted", "stopping"} /\ ProcessEnds

\* Aperture.Stop closes the database and the servers, and run returns.
Exit == main = "stopped" /\ ProcessEnds

-----------------------------------------------------------------------------
(***************************************************************************)
(* The goroutine of readInvoiceStream.  It holds invoicesMtx from          *)
(* ReadApply to ReadBroadcast; the other critical sections are one step.   *)
(***************************************************************************)

\* Deviation: the mutex is released before settled_at is written.
LockedAfterPersist == reader = "broadcast"

Locked == reader \in {"persist", "broadcast"}

\* The sync.Cond's Broadcast moves every waiting goroutine to the mutex.
Broadcast == [c \in Call |-> IF waiter[c] = "wait" THEN "woken" ELSE waiter[c]]

ReadCheckQuit ==
    /\ reader = "check"
    /\ reader' = IF quit THEN "done" ELSE "recv"
    /\ conn' = IF quit THEN "closed" ELSE conn
    /\ UNCHANGED <<lndVars, settledAt, main, fieldVars, stream, cur, callVars,
                   historyVars>>

ReadRecv ==
    /\ reader = "recv"
    /\ stream # <<>>
    /\ stream' = Tail(stream)
    /\ IF Head(stream).inv \in NoHash
       THEN reader' = "check" /\ UNCHANGED cur
       ELSE reader' = "lock" /\ cur' = Head(stream)
    /\ UNCHANGED <<lndVars, settledAt, main, fieldVars, conn, callVars,
                   historyVars>>

\* Recv reports that the subscription's context was canceled by Stop; the
\* goroutine's deferred cancel releases the subscription.
ReadCanceled ==
    /\ reader = "recv"
    /\ conn = "canceled"
    /\ reader' = "done"
    /\ conn' = "closed"
    /\ stream' = <<>>
    /\ UNCHANGED <<lndVars, settledAt, main, fieldVars, cur, callVars,
                   historyVars>>

\* An update whose hash does not parse ends the goroutine.
ReadBadHash ==
    /\ "badHash" \in StreamFault
    /\ reader = "recv"
    /\ conn = "live"
    /\ reader' = "done"
    /\ conn' = "closed"
    /\ stream' = <<>>
    /\ UNCHANGED <<lndVars, settledAt, main, fieldVars, cur, callVars,
                   historyVars>>

\* Deviation: a broken connection is taken for a canceled context.
ReadFaultSilent ==
    /\ reader = "recv"
    /\ conn \in {"eof", "err"}
    /\ reader' = "done"
    /\ UNCHANGED <<lndVars, settledAt, main, fieldVars, conn, stream, cur,
                   callVars, historyVars>>

ReadFault ==
    /\ reader = "recv"
    /\ conn \in {"eof", "err"}
    /\ reader' = "signal"
    /\ UNCHANGED <<lndVars, settledAt, main, fieldVars, conn, stream, cur,
                   callVars, historyVars>>

\* The non-blocking send on errChan: main takes the error only when it is
\* already blocked in its select; otherwise the default case drops it.
ReadSignal ==
    /\ reader = "signal"
    /\ reader' = "done"
    /\ conn' = "closed"
    /\ main' = IF main = "serving" THEN "interrupted" ELSE main
    /\ UNCHANGED <<lndVars, settledAt, fieldVars, stream, cur, callVars,
                   historyVars>>

\* Lock the mutex and update the cache.
ReadApply ==
    /\ reader = "lock"
    /\ LET irrelevant == Irrelevant(cur.state, expired[cur.inv])
       IN  /\ invoiceStates' = [invoiceStates EXCEPT
                  ![cur.inv] = IF irrelevant THEN None ELSE cur.state]
           /\ reader' = IF ~irrelevant /\ cur.state = "SETTLED"
                        THEN "persist" ELSE "broadcast"
    /\ UNCHANGED <<lndVars, settledAt, main, quit, addIndex, settleIndex,
                   conn, stream, cur, callVars, historyVars>>

\* SetSettledAtByPaymentHash updates the rows with that hash, if any; its
\* error is only logged.
ReadPersist ==
    /\ reader = "persist"
    /\ reader' = "broadcast"
    /\ \/ /\ settledAt' = [settledAt EXCEPT
                 ![cur.inv] = IF @ = "noRow" THEN @ ELSE "valid"]
          /\ UNCHANGED dbFailed
       \/ /\ DbMayFail
          /\ dbFailed' = dbFailed \union {cur.inv}
          /\ UNCHANGED settledAt
    /\ UNCHANGED <<lndVars, main, fieldVars, conn, stream, cur, callVars,
                   fromList>>

\* Deviation: unlock without Broadcast.
ReadUnlockOnly ==
    /\ reader = "broadcast"
    /\ reader' = "check"
    /\ cur' = NoUpdate
    /\ UNCHANGED <<lndVars, settledAt, main, fieldVars, conn, stream,
                   callVars, historyVars>>

\* Broadcast and unlock the mutex.
ReadBroadcast ==
    /\ reader = "broadcast"
    /\ reader' = "check"
    /\ cur' = NoUpdate
    /\ waiter' = Broadcast
    /\ UNCHANGED <<lndVars, settledAt, main, fieldVars, conn, stream, caller,
                   arg, want, timer, timeoutReached, read, historyVars>>

Reader ==
    \/ ReadCheckQuit \/ ReadRecv \/ ReadCanceled \/ ReadFault \/ ReadSignal
    \/ ReadApply \/ ReadPersist \/ ReadBroadcast

-----------------------------------------------------------------------------
(***************************************************************************)
(* VerifyInvoiceStatus(hash, state, timeout).                              *)
(***************************************************************************)

otherThanCall == <<lndVars, settledAt, main, fieldVars, conn, stream, reader,
                   cur, historyVars>>

\* wg.Add, and the two goroutines.  The HTTP server runs from the end of
\* Aperture.Start until after the challenger has been stopped.
VerifyBegin(c, i, s) ==
    /\ main \in {"booting", "serving", "interrupted", "stopping", "stopped"}
    /\ caller[c] # "waiting"
    /\ caller' = [caller EXCEPT ![c] = "waiting"]
    /\ arg' = [arg EXCEPT ![c] = i]
    /\ want' = [want EXCEPT ![c] = s]
    /\ timer' = [timer EXCEPT ![c] = "armed"]
    /\ waiter' = [waiter EXCEPT ![c] = "start"]
    /\ UNCHANGED <<timeoutReached, read, otherThanCall>>

\* The select of the timer goroutine: the waiter is done, quit is closed, or
\* the timeout passes (at any time).
TimerFires(c) ==
    /\ timer[c] = "armed"
    /\ timer' = [timer EXCEPT ![c] = "fired"]
    /\ UNCHANGED <<caller, arg, want, waiter, timeoutReached, read,
                   otherThanCall>>

\* Deviation: report the timeout without waking the waiter.
TimerSignalsQuietly(c) ==
    /\ timer[c] = "fired"
    /\ ~Locked
    /\ timer' = [timer EXCEPT ![c] = "done"]
    /\ timeoutReached' = [timeoutReached EXCEPT ![c] = TRUE]
    /\ UNCHANGED <<caller, arg, want, waiter, read, otherThanCall>>

TimerSignals(c) ==
    /\ timer[c] = "fired"
    /\ ~Locked
    /\ timer' = [timer EXCEPT ![c] = "done"]
    /\ timeoutReached' = [timeoutReached EXCEPT ![c] = TRUE]
    /\ waiter' = Broadcast
    /\ UNCHANGED <<caller, arg, want, read, otherThanCall>>

\* One evaluation of the waiter's loop condition, with the mutex held: it
\* waits on the condition or leaves the loop and closes doneChan.
WaiterChecks(c) ==
    /\ waiter[c] \in {"start", "woken"}
    /\ ~Locked
    /\ read' = [read EXCEPT ![c] = invoiceStates[arg[c]]]
    /\ waiter' = [waiter EXCEPT ![c] =
           IF invoiceStates[arg[c]] = want[c] \/ timeoutReached[c]
           THEN "done" ELSE "wait"]
    /\ UNCHANGED <<caller, arg, want, timer, timeoutReached, otherThanCall>>

\* Deviation: any tracked invoice passes.
ResultAnyState(r, s) == IF r = None THEN "noInvoice" ELSE "ok"

\* The result of a call whose last look at the cache read r.
Result(r, s) ==
    CASE r = None -> "noInvoice"
      [] r # None /\ r # s -> "wrongState"
      [] OTHER -> "ok"

\* Deviation: the result is read from the cache once more, without the
\* mutex.
VerifyReturnRereads(c) ==
    /\ timer[c] = "done"
    /\ waiter[c] = "done"
    /\ caller' = [caller EXCEPT ![c] =
                      Result(invoiceStates[arg[c]], want[c])]
    /\ timer' = [timer EXCEPT ![c] = "off"]
    /\ waiter' = [waiter EXCEPT ![c] = "off"]
    /\ timeoutReached' = [timeoutReached EXCEPT ![c] = FALSE]
    /\ read' = [read EXCEPT ![c] = None]
    /\ UNCHANGED <<arg, want, otherThanCall>>

VerifyReturn(c) ==
    /\ timer[c] = "done"
    /\ waiter[c] = "done"
    /\ caller' = [caller EXCEPT ![c] = Result(read[c], want[c])]
    /\ timer' = [timer EXCEPT ![c] = "off"]
    /\ waiter' = [waiter EXCEPT ![c] = "off"]
    /\ timeoutReached' = [timeoutReached EXCEPT ![c] = FALSE]
    /\ read' = [read EXCEPT ![c] = None]
    /\ UNCHANGED <<arg, want, otherThanCall>>

-----------------------------------------------------------------------------
Init ==
    /\ inv = [i \in Invoice |-> None]
    /\ expired = [i \in Invoice |-> FALSE]
    /\ addLog = <<>>
    /\ settleLog = <<>>
    /\ settledAt = [i \in Invoice |-> "noRow"]
    /\ main = "down"
    /\ quit = FALSE
    /\ invoiceStates = [i \in Invoice |-> None]
    /\ addIndex = 0 /\ settleIndex = 0
    /\ conn = "closed"
    /\ stream = <<>>
    /\ reader = "off"
    /\ cur = NoUpdate
    /\ caller = [c \in Call |-> "idle"]
    /\ arg = [c \in Call |-> None]
    /\ want = [c \in Call |-> None]
    /\ timer = [c \in Call |-> "off"]
    /\ waiter = [c \in Call |-> "off"]
    /\ timeoutReached = [c \in Call |-> FALSE]
    /\ read = [c \in Call |-> None]
    /\ fromList = {}
    /\ dbFailed = {}

Lnd ==
    \/ \E i \in Invoice :
           \/ LndAdd(i) \/ LndAccept(i) \/ LndSettle(i) \/ LndCancel(i)
           \/ Expire(i)
    \/ \E fault \in StreamFault : LndDisconnect(fault)
    \/ ReadBadHash

Main ==
    \/ StartList \/ StartSubscribe \/ EnterSelect \/ Interrupt
    \/ StopCancel \/ StopWait \/ StartFails \/ Crash \/ Exit

Verify(c) ==
    \/ \E i \in Hash, s \in WantState : VerifyBegin(c, i, s)
    \/ TimerFires(c) \/ TimerSignals(c) \/ WaiterChecks(c) \/ VerifyReturn(c)

Next ==
    \/ Lnd
    \/ \E i \in Invoice : NewSecret(i)
    \/ Main
    \/ Reader
    \/ \E c \in Call : Verify(c)

Spec == Init /\ [][Next]_vars

\* Goroutines that can run do run, timers go off, and Stop's steps follow one
\* another.  Stop's wait is released for good by the Done that brings the
\* WaitGroup to zero, even when a new call raises it again at once, hence the
\* strong fairness.  Nothing is assumed of lnd, of callers or of a restart.
Fairness ==
    /\ WF_vars(Reader)
    /\ WF_vars(StopCancel) /\ SF_vars(StopWait)
    /\ \A c \in Call : /\ WF_vars(TimerFires(c)) /\ WF_vars(TimerSignals(c))
                       /\ WF_vars(WaiterChecks(c)) /\ WF_vars(VerifyReturn(c))

FairSpec == Spec /\ Fairness

-----------------------------------------------------------------------------
\* Every variable has its type, and the goroutines' positions fit together.
TypeOK ==
    /\ inv \in [Invoice -> InvoiceState \union {None}]
    /\ expired \in [Invoice -> BOOLEAN]
    /\ addLog \in Seq(Invoice)
    /\ settleLog \in Seq(Invoice)
    /\ settledAt \in [Invoice -> {"noRow", "null", "valid"}]
    /\ main \in {"down", "listed", "booting", "serving", "interrupted",
                 "stopping", "stopped"}
    /\ quit \in BOOLEAN
    /\ invoiceStates \in [Invoice -> InvoiceState \union {None}]
    /\ addIndex \in Nat
    /\ settleIndex \in Nat
    /\ conn \in {"closed", "live", "eof", "err", "canceled"}
    /\ stream \in Seq(Update)
    /\ reader \in {"off", "check", "recv", "signal", "lock", "persist",
                   "broadcast", "done"}
    /\ cur \in Update \union {NoUpdate}
    /\ reader \in {"lock", "persist", "broadcast"} => cur \in Update
    /\ caller \in [Call -> {"idle", "waiting", "ok", "noInvoice",
                            "wrongState"}]
    /\ arg \in [Call -> Hash \union {None}]
    /\ want \in [Call -> WantState \union {None}]
    /\ timer \in [Call -> {"off", "armed", "fired", "done"}]
    /\ waiter \in [Call -> {"off", "start", "wait", "woken", "done"}]
    /\ timeoutReached \in [Call -> BOOLEAN]
    /\ read \in [Call -> InvoiceState \union {None}]
    /\ fromList \in SUBSET Invoice
    /\ dbFailed \in SUBSET Invoice

\* A call of VerifyInvoiceStatus that asked for SETTLED and returned without
\* an error is about an invoice that lnd has settled, whatever the order of
\* updates, wake-ups, timeouts and restarts.
VerifiedIsPaid ==
    \A c \in Call :
        caller[c] = "ok" /\ want[c] = "SETTLED" => inv[arg[c]] = "SETTLED"

\* No wake-up is lost: a goroutine that sleeps in invoicesCond.Wait while the
\* mutex is free has nothing to wake up for.  Its invoice is not in the state
\* it waits for and its timeout has not been reported.
NoLostWakeup ==
    \A c \in Call :
        waiter[c] = "wait" /\ ~Locked =>
            /\ invoiceStates[arg[c]] # want[c]
            /\ ~timeoutReached[c]

\* Nothing settles unnoticed between ListInvoices and SubscribeInvoices: when
\* the reader has drained a live subscription, every settled invoice with a
\* payment hash is cached as settled.
NoMissedSettlement ==
    conn = "live" /\ stream = <<>> /\ reader \in {"check", "recv"} =>
        \A i \in Hash : inv[i] = "SETTLED" => invoiceStates[i] = "SETTLED"

\* A paid token that VerifyInvoiceStatus lets pass has its settlement time in
\* the database, which VerifyRightsWithinExpiry reads next, except when the
\* database refused the write or the settlement was first seen by Start.
PaidHasSettledAt ==
    \A c \in Call :
        caller[c] = "ok" /\ want[c] = "SETTLED" /\ settledAt[arg[c]] = "null"
            => arg[c] \in fromList \union dbFailed

\* While the process lives, a settled invoice never leaves the cache and
\* never falls back to another state, even after its expiry.
SettledSticks ==
    [][\A i \in Invoice :
           invoiceStates[i] = "SETTLED" /\ main' # "down" =>
               invoiceStates'[i] = "SETTLED"]_vars

\* After Stop has returned the challenger neither writes to the database,
\* which Aperture.Stop closes next, nor changes its cache.
QuietAfterStop ==
    [][main = "stopped" /\ main' = "stopped" =>
           UNCHANGED <<settledAt, invoiceStates>>]_vars

\* The promise of VerifyInvoiceStatus: the waiter's last look at the cache,
\* under the mutex, is the atomic look of the InvoiceChecker.
Checker == INSTANCE InvoiceChecker WITH
    State <- InvoiceState,
    cache <- [h \in Hash |-> invoiceStates[h]],
    hash <- arg,
    phase <- [c \in Call |->
        CASE caller[c] = "idle" -> "idle"
          [] caller[c] = "waiting" /\ waiter[c] # "done" -> "pending"
          [] caller[c] = "waiting" /\ waiter[c] = "done" -> "decided"
          [] OTHER -> "returned"],
    answer <- [c \in Call |->
        CASE caller[c] = "idle" -> None
          [] caller[c] = "waiting" /\ waiter[c] # "done" -> None
          [] caller[c] = "waiting" /\ waiter[c] = "done" ->
                 Result(read[c], want[c])
          [] OTHER -> caller[c]]

\* The goroutines of VerifyInvoiceStatus implement the InvoiceChecker: what a
\* call returns is one atomic look at the cache between call and return.
ImplementsChecker == Checker!Spec

\* A connection to lnd that fails while main is blocked in its select makes
\* aperture leave it: the error reaches main, which shuts down.
FaultStopsServing ==
    conn \in {"eof", "err"} /\ main = "serving" ~> main # "serving"

\* Every call of VerifyInvoiceStatus returns (or dies with the process).
CallReturns ==
    \A c \in Call : caller[c] = "waiting" ~> caller[c] # "waiting"

\* Stop returns: neither the reader nor a call that is asleep holds it up for
\* ever.  The HTTP server still hands requests to VerifyInvoiceStatus at this
\* point, so it takes a moment without a call, again and again, for Stop's
\* wg.Wait to see the counter at zero.
StopReturns ==
    []<>(\A c \in Call : caller[c] # "waiting") =>
        (main = "stopping" ~> main # "stopping")

\* The comment in Start: "We need to keep track of all invoices, even quite
\* old ones to make sure tokens are valid."  A paid token that passes
\* VerifyInvoiceStatus has the settlement time that VerifyRightsWithinExpiry
\* asks for, also when the invoice was settled while aperture was down.
TokensStayValid ==
    \A c \in Call :
        caller[c] = "ok" /\ want[c] = "SETTLED" => settledAt[arg[c]] # "null"

\* The comments in readInvoiceStream: "Signal the error to the main goroutine
\* to force a shutdown/restart."  With a connection that fails as the only
\* fault, aperture never serves requests without its reader.
FaultForcesRestart == main = "serving" => reader # "done"
=============================================================================
