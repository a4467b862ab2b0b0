---------------------------- MODULE QuoteProofs -----------------------------
(***************************************************************************)
(* Proofs about Quote, for any parameters of the relay, any prices and any *)
(* invoices and estimates.                                                 *)
(***************************************************************************)
EXTENDS Quote, TLAPS

Invoice == [msat : Nat, stamp : Nat, expiry : Nat]
Wrapped == [value : Int, expiry : Int, cltv : Nat, at : Nat, until : Int]

Shape ==
    /\ now \in Nat /\ price \in Nat /\ inv \in Invoice /\ inv.stamp <= now
    /\ routing \in Nat \union {NoRouting} /\ q \in Wrapped
    /\ est \in Nat /\ budget \in Int /\ limit \in Int /\ spent \in Int

\* The amounts of a wrapped invoice: the budget is covered, and not negative.
Covered == budget >= 0 /\ q.value >= inv.msat + budget + RoutingFee(inv.msat)

\* Its time lock: room for the estimated route and both margins.
Locked == q.cltv >= est + CltvDeltaBeta + CltvDeltaAlpha

IInv ==
    /\ Shape
    /\ pc \in {"add", "hold", "pay"} => Covered /\ Locked
    /\ RouteFits
    /\ RelayNeverLoses

\* The relay's own fee is a natural number.
LEMMA RoutingFeeNat == \A m \in Nat : RoutingFee(m) \in Nat
  <1> TAKE m \in Nat
  <1>1. m * RoutingFeePPM \in Nat  BY QuoteAssumption
  <1>2. (m * RoutingFeePPM) \div Million \in Nat  BY <1>1, QuoteAssumption
  <1> QED  BY <1>2, QuoteAssumption DEF RoutingFee

\* With a fee of the client's or without, the payer pays what the payment may
\* cost and the relay's fee, when the request passes the checks.
LEMMA FeesCovered ==
    ASSUME Shape, NEW fee \in Fees, NEW cltv \in Cltvs, Acceptable(cltv)
    PROVE  /\ FeeBudget(fee) \in Nat /\ ValueMsat(fee) \in Nat
           /\ ValueMsat(fee) >= inv.msat + FeeBudget(fee) + RoutingFee(inv.msat)
  <1>1. inv.msat \in Nat /\ RoutingFee(inv.msat) \in Nat
    BY RoutingFeeNat DEF Shape, Invoice
  <1>2. fee \in Nat  BY QuoteAssumption
  <1>3. CASE Custom
    BY <1>1, <1>3, QuoteAssumption
    DEF Shape, Custom, FeeBudget, ValueMsat, Acceptable, NoRouting
  <1>4. CASE ~Custom
    <2>1. fee * RoutingBudgetBeta \in Nat  BY <1>2, QuoteAssumption
    <2>2. (fee * RoutingBudgetBeta) \div Million \in Nat
      BY <2>1, QuoteAssumption
    <2> QED  BY <1>1, <1>2, <1>4, <2>2, QuoteAssumption DEF FeeBudget, ValueMsat
  <1> QED  BY <1>3, <1>4

\* Before the first request there is nothing to cover.
LEMMA InitIInv == Init => IInv
  BY DEF Init, IInv, Shape, Invoice, Wrapped, NoInvoice, NoWrapped, NoRouting,
         RouteFits, RelayNeverLoses

\* A step that changes pc alone, to one that claims nothing.
LEMMA RefuseKeeps == IInv /\ (Refuse \/ CancelInvoice) => IInv'
  BY DEF IInv, Refuse, CancelInvoice, Shape, RouteFits, RelayNeverLoses

\* wrap computes an invoice that is covered and locked.
LEMMA WrapKeeps == ASSUME IInv, wrap PROVE IInv'
  <1>1. CASE Refuse  BY <1>1, RefuseKeeps
  <1>2. CASE ~Refuse
    <2>1. PICK fee \in Fees, cltv \in Cltvs :
              /\ Acceptable(cltv)
              /\ q' = [value |-> ValueMsat(fee), expiry |-> Expiry,
                       cltv |-> CltvExpiry(cltv), at |-> now, until |-> 0]
              /\ est' = cltv /\ budget' = FeeBudget(fee) /\ pc' = "add"
              /\ UNCHANGED <<now, price, inv, routing, limit, spent>>
      BY <1>2 DEF wrap
    <2>2. /\ FeeBudget(fee) \in Nat /\ ValueMsat(fee) \in Nat
          /\ ValueMsat(fee) >= inv.msat + FeeBudget(fee) + RoutingFee(inv.msat)
      BY <2>1, FeesCovered DEF IInv
    <2>3. /\ cltv \in Nat /\ CltvExpiry(cltv) \in Nat
          /\ CltvExpiry(cltv) >= cltv + CltvDeltaBeta + CltvDeltaAlpha
      BY QuoteAssumption DEF CltvExpiry, Max
    <2>4. Expiry \in Int
      BY QuoteAssumption DEF Expiry, Min, IInv, Shape, Invoice
    <2> QED
      BY <2>1, <2>2, <2>3, <2>4
      DEF IInv, Shape, Wrapped, Covered, Locked, RoutingFee, RouteFits,
          RelayNeverLoses
  <1> QED  BY <1>1, <1>2

\* Every step keeps the invariant.
LEMMA NextKeeps == IInv /\ [Next]_vars => IInv'
  <1> SUFFICES ASSUME IInv, [Next]_vars PROVE IInv'  OBVIOUS
  <1> USE DEF IInv, Shape
  <1>1. CASE Tick
    BY <1>1, QuoteAssumption
    DEF Tick, Invoice, RouteFits, RelayNeverLoses, Covered, Locked
  <1>2. CASE NewChallenge \/ specApiHandler
    <2>1. ASSUME NEW p \in Nat, NEW to \in {"lnurl", "wrap"},
                 NEW i \in Invoice, i.stamp <= now, Ask(p, to, i, NoRouting)
          PROVE  IInv'
      BY <2>1 DEF Ask, Wrapped, NoWrapped, RouteFits, RelayNeverLoses
    <2>2. CASE NewChallenge
      <3>1. NoInvoice \in Invoice /\ NoInvoice.stamp <= now
        BY DEF NoInvoice, Invoice
      <3> QED  BY <2>1, <2>2, <3>1, QuoteAssumption DEF NewChallenge
    <2>3. CASE specApiHandler
      <3>1. PICK m \in Amounts, e \in Expiries,
                 s \in {now} \union {now - d : d \in Steps} :
                /\ s >= 0
                /\ Ask(0, "wrap", [msat |-> m, stamp |-> s, expiry |-> e],
                       NoRouting)
        BY <2>3 DEF specApiHandler
      <3>2. s \in Nat /\ s <= now /\ m \in Nat /\ e \in Nat
        BY <3>1, QuoteAssumption
      <3>3. [msat |-> m, stamp |-> s, expiry |-> e] \in Invoice
        BY <3>2 DEF Invoice
      <3> QED  BY <2>1, <3>1, <3>2, <3>3
    <2> QED  BY <1>2, <2>2, <2>3
  <1>3. CASE GetCallback
    BY <1>3, RefuseKeeps DEF GetCallback, RouteFits, RelayNeverLoses
  <1>4. CASE GetInvoice
    <2>1. CASE pc' = "request"
      BY <1>4, <2>1, QuoteAssumption
      DEF GetInvoice, Invoice, Refuse, RouteFits, RelayNeverLoses
    <2> QED  BY <1>4, <2>1, RefuseKeeps DEF GetInvoice
  <1>11. CASE requestWrappedInvoice
    <2>1. getRoutingMsat(price) \in Nat
      BY DEF getRoutingMsat, Max
    <2>2. CASE pc' = "wrap"
      BY <1>11, <2>1, <2>2, QuoteAssumption
      DEF requestWrappedInvoice, Invoice, Refuse, RouteFits, RelayNeverLoses
    <2> QED  BY <1>11, <2>2, RefuseKeeps DEF requestWrappedInvoice
  <1>5. CASE wrap  BY <1>5, WrapKeeps
  <1>6. CASE AddInvoice
    BY <1>6, RefuseKeeps
    DEF AddInvoice, Wrapped, Covered, Locked, RouteFits, RelayNeverLoses
  <1>7. CASE Accepted
    BY <1>7, QuoteAssumption
    DEF Accepted, Wrapped, Covered, Locked, RouteFits, RelayNeverLoses
  <1>8. CASE CancelInvoice  BY <1>8, RefuseKeeps
  <1>9. CASE PayInvoice
    <2>1. inv.msat \in Nat /\ RoutingFee(inv.msat) \in Nat
      BY RoutingFeeNat DEF Invoice
    <2> QED  BY <1>9, <2>1
      DEF PayInvoice, Wrapped, Covered, RouteFits, RelayNeverLoses, RoutingFee
  <1>10. CASE UNCHANGED vars
    BY <1>10 DEF vars, Covered, Locked, RouteFits, RelayNeverLoses, RoutingFee
  <1> QED  BY <1>1, <1>2, <1>3, <1>4, <1>5, <1>6, <1>7, <1>8, <1>9, <1>10,
              <1>11 DEF Next

\* No circuit costs the relay, for any parameters and amounts.
THEOREM NeverLoses == Spec => []RelayNeverLoses
  <1>1. IInv => RelayNeverLoses  BY DEF IInv
  <1> QED  BY InitIInv, NextKeeps, <1>1, PTL DEF Spec

\* The payment that was estimated always fits into the lock that is left.
THEOREM AlwaysFits == Spec => []RouteFits
  <1>1. IInv => RouteFits  BY DEF IInv
  <1> QED  BY InitIInv, NextKeeps, <1>1, PTL DEF Spec

-----------------------------------------------------------------------------
\* What is left of the original invoice when the wrapped one is computed,
\* added and paid.
TInv ==
    /\ now <= MaxTime
    /\ pc = "add" =>
           /\ now <= q.at + MaxLag
           /\ q.at + q.expiry + ExpiryBuffer <= inv.stamp + inv.expiry
    /\ pc = "hold" => q.until <= inv.stamp + inv.expiry

\* A remainder is not above what it is the remainder of.
LEMMA RemainderBelow ==
    \A x \in Nat, w \in Nat \ {0} : x % w \in Nat /\ x % w <= x
  OBVIOUS

\* When a wrapped invoice is paid the original can still be, if no invoice is
\* older than MaxExpiry less the buffer when it is wrapped.
THEOREM InTime ==
    ASSUME MaxTime + ExpiryBuffer <= MaxExpiry
    PROVE  Spec => AcceptedInTime
  <1>1. Init => TInv  BY QuoteAssumption DEF Init, TInv
  <1>2. IInv /\ TInv /\ [Next]_vars => TInv'
    <2> SUFFICES ASSUME IInv, TInv, [Next]_vars PROVE TInv'  OBVIOUS
    <2> USE QuoteAssumption DEF IInv, Shape, Invoice, Wrapped, TInv
    <2>1. CASE wrap /\ pc' = "add"
      <3> DEFINE left == inv.stamp + Min(inv.expiry, MaxExpiry) - now
                         - ExpiryBuffer
      <3>1. /\ inv.stamp + inv.expiry >= now + ExpiryBuffer
            /\ q'.expiry = Expiry /\ q'.at = now /\ now' = now /\ inv' = inv
        BY <2>1 DEF wrap, Refuse, Acceptable
      <3>2. /\ left \in Nat
            /\ now + left + ExpiryBuffer <= inv.stamp + inv.expiry
        BY <3>1 DEF Min
      <3>3. Expiry \in Nat /\ Expiry <= left
        BY <3>2, RemainderBelow DEF Expiry
      <3> HIDE DEF left
      <3> QED  BY <2>1, <3>1, <3>2, <3>3
    <2>2. CASE wrap /\ pc' # "add"  BY <2>2 DEF wrap, Refuse
    <2>3. CASE AddInvoice  BY <2>3 DEF AddInvoice, Refuse
    <2>4. CASE Tick  BY <2>4 DEF Tick
    <2>5. CASE NewChallenge \/ specApiHandler
      BY <2>5 DEF NewChallenge, specApiHandler, Ask
    <2>6. CASE \/ GetCallback \/ GetInvoice \/ requestWrappedInvoice
               \/ Accepted \/ CancelInvoice \/ PayInvoice \/ UNCHANGED vars
      BY <2>6 DEF GetCallback, GetInvoice, requestWrappedInvoice, Accepted,
                  CancelInvoice, PayInvoice, Refuse, vars
    <2> QED  BY <2>1, <2>2, <2>3, <2>4, <2>5, <2>6 DEF Next
  <1>3. IInv /\ TInv /\ [Next]_vars =>
            [pc = "hold" /\ pc' = "pay" => now <= inv.stamp + inv.expiry]_vars
    BY DEF IInv, Shape, Invoice, Wrapped, TInv, Next, Tick, NewChallenge, Ask,
           GetCallback, GetInvoice, requestWrappedInvoice,
           specApiHandler, wrap, AddInvoice, Accepted, CancelInvoice, PayInvoice, Refuse
  <1> QED  BY <1>1, <1>2, <1>3, InitIInv, NextKeeps, PTL DEF Spec, AcceptedInTime
=============================================================================
