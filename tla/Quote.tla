------------------------------- MODULE Quote --------------------------------
(***************************************************************************)
(* How a price becomes an invoice and the invoice a payment: NewChallenge  *)
(* asks the creator's LNURL server for an invoice and the lnproxy relay to *)
(* wrap it, wrap computes amount, fee budget, expiry and time lock of the  *)
(* wrapped invoice, and the circuit pays the original one within the       *)
(* budget and the lock that are left.  Other clients of the relay may send *)
(* an invoice without a fee of their own.  Time is in seconds.             *)
(***************************************************************************)
EXTENDS Integers

CONSTANTS Prices,     \* prices in satoshis
          Amounts,    \* what else a creator's server may ask for, in msat
          Expiries, Fees, Cltvs, Steps, \* invoices, estimates, time steps
          \* the RelayParameters
          MinAmountMsat, MaxAmountMsat, ExpiryBuffer, MaxExpiry,
          MinFeeBudgetMsat, RoutingBudgetAlpha, RoutingBudgetBeta,
          RoutingFeeBaseMsat, RoutingFeePPM, CltvDeltaAlpha, CltvDeltaBeta,
          MaxCltvExpiry, MinCltvExpiry,
          Million,    \* what PPM and RoutingBudgetBeta are parts of
          Width,      \* 2^64
          MaxLag,     \* the time that lnd may take to add an invoice
          MaxTime     \* bound on the clock

ASSUME QuoteAssumption ==
    /\ Prices \subseteq Nat /\ Amounts \subseteq Nat /\ Expiries \subseteq Nat
    /\ Fees \subseteq Nat /\ Cltvs \subseteq Nat /\ Steps \subseteq Nat
    /\ MinAmountMsat \in Nat \ {0} /\ MaxAmountMsat \in Nat
    /\ ExpiryBuffer \in Nat /\ MaxExpiry \in Nat /\ MinFeeBudgetMsat \in Nat
    /\ RoutingBudgetAlpha \in Nat /\ RoutingBudgetBeta \in Nat
    /\ RoutingFeeBaseMsat \in Nat /\ RoutingFeePPM \in Nat
    /\ CltvDeltaAlpha \in Nat /\ CltvDeltaBeta \in Nat
    /\ MaxCltvExpiry \in Nat /\ MinCltvExpiry \in Nat
    /\ Million \in Nat \ {0} /\ Width \in Nat \ {0}
    /\ MaxLag \in 0..ExpiryBuffer /\ MaxTime \in Nat

VARIABLES now, pc, price,
          inv,     \* the creator's invoice: msat, stamp, expiry
          routing, \* routing_msat of the request, NoRouting if it has none
          q,       \* the wrapped invoice: value, expiry, cltv and when it
                   \* was computed (at) and runs out (until)
          est,     \* the time lock of the route that was estimated
          budget,  \* fee_budget_msat
          limit,   \* CltvLimit of the payment
          spent    \* what the payment has cost

vars == <<now, pc, price, inv, routing, q, est, budget, limit, spent>>

NoRouting == -1
NoInvoice == [msat |-> 0, stamp |-> 0, expiry |-> 0]
NoWrapped == [value |-> 0, expiry |-> 0, cltv |-> 0, at |-> 0, until |-> 0]

Init ==
    /\ now = 0 /\ pc = "idle" /\ price = 0 /\ inv = NoInvoice
    /\ routing = NoRouting /\ q = NoWrapped
    /\ est = 0 /\ budget = 0 /\ limit = 0 /\ spent = 0

Refuse ==
    /\ pc' = "refused"
    /\ UNCHANGED <<now, price, inv, routing, q, est, budget, limit, spent>>

\* Time passes; lnd takes at most MaxLag to add the wrapped invoice.
Tick ==
    /\ \E d \in Steps :
           /\ now + d <= MaxTime
           /\ pc = "add" => now + d <= q.at + MaxLag
           /\ now' = now + d
    /\ UNCHANGED <<pc, price, inv, routing, q, est, budget, limit, spent>>

-----------------------------------------------------------------------------
(* NewChallenge                                                             *)

\* A new quote; what there was of the last one is forgotten.
Ask(p, to, i, r) ==
    /\ pc \in {"idle", "refused", "cancelled", "settled"}
    /\ pc' = to /\ price' = p /\ inv' = i /\ routing' = r
    /\ q' = NoWrapped /\ est' = 0 /\ budget' = 0 /\ limit' = 0 /\ spent' = 0
    /\ UNCHANGED now

NewChallenge == \E p \in Prices : Ask(p, "lnurl", NoInvoice, NoRouting)

\* GetInvoice: the LNURL's server names its callback, or there is an error.
GetCallback ==
    /\ pc = "lnurl"
    /\ \/ Refuse
       \/ /\ pc' = "callback"
          /\ UNCHANGED <<now, price, inv, routing, q, est, budget, limit, spent>>

Max(a, b) == IF a > b THEN a ELSE b
getRoutingMsat(sats) == Max((sats * 3) \div 100, 10000)

\* The callback answers with an invoice, which is not compared with the price.
GetInvoice ==
    /\ pc = "callback"
    /\ \/ Refuse
       \/ /\ \E m \in {price * 1000} \union Amounts, e \in Expiries :
                 inv' = [msat |-> m, stamp |-> now, expiry |-> e]
          /\ pc' = "request"
          /\ UNCHANGED <<now, price, routing, q, est, budget, limit, spent>>

\* The relay is asked to wrap it.
requestWrappedInvoice ==
    /\ pc = "request"
    /\ \/ Refuse
       \/ /\ routing' = getRoutingMsat(price)
          /\ pc' = "wrap"
          /\ UNCHANGED <<now, price, inv, q, est, budget, limit, spent>>

\* A request of another client of the relay.
specApiHandler ==
    \E m \in Amounts, e \in Expiries, s \in {now} \union {now - d : d \in Steps} :
        /\ s >= 0
        /\ Ask(0, "wrap", [msat |-> m, stamp |-> s, expiry |-> e], NoRouting)

-----------------------------------------------------------------------------
(* wrap                                                                     *)

Min(a, b) == IF a < b THEN a ELSE b
RoutingFee(m) == RoutingFeeBaseMsat + (m * RoutingFeePPM) \div Million
Custom == routing # NoRouting

\* Deviation: the whole of routing_msat may be spent on the payment.
FeeBudgetWhole(fee) ==
    IF Custom THEN routing
    ELSE fee + RoutingBudgetAlpha + (fee * RoutingBudgetBeta) \div Million

\* What the payment may cost.  fee is what lnd expects it to.
FeeBudget(fee) ==
    IF Custom THEN routing - RoutingFee(inv.msat)
    ELSE fee + RoutingBudgetAlpha + (fee * RoutingBudgetBeta) \div Million
ValueMsat(fee) ==
    IF Custom THEN inv.msat + routing
    ELSE inv.msat + FeeBudget(fee) + RoutingFee(inv.msat)

\* Deviation: no buffer is kept.
ExpiryNoBuffer == inv.stamp + Min(inv.expiry, MaxExpiry) - now

\* The seconds that are left of the original invoice, but for the buffer.
Expiry ==
    (inv.stamp + Min(inv.expiry, MaxExpiry) - now - ExpiryBuffer) % Width

\* Deviation: nothing is added for a route that is longer in the end.
CltvExpiryTight(cltv) == Max(cltv + CltvDeltaAlpha, MinCltvExpiry)

CltvExpiry(cltv) == Max(cltv + CltvDeltaBeta + CltvDeltaAlpha, MinCltvExpiry)

Acceptable(cltv) ==
    /\ inv.msat >= MinAmountMsat /\ inv.msat <= MaxAmountMsat
    /\ inv.stamp + inv.expiry >= now + ExpiryBuffer
    /\ cltv + CltvDeltaBeta + CltvDeltaAlpha < MaxCltvExpiry
    /\ Custom => routing >= MinFeeBudgetMsat + RoutingFee(inv.msat)

\* No route, an unknown feature, or one of the checks; else the parameters of
\* the wrapped invoice.
wrap ==
    /\ pc = "wrap"
    /\ \/ Refuse
       \/ \E fee \in Fees, cltv \in Cltvs :
              /\ Acceptable(cltv)
              /\ q' = [value |-> ValueMsat(fee), expiry |-> Expiry,
                       cltv |-> CltvExpiry(cltv), at |-> now, until |-> 0]
              /\ est' = cltv /\ budget' = FeeBudget(fee)
              /\ pc' = "add"
              /\ UNCHANGED <<now, price, inv, routing, limit, spent>>

\* OpenCircuit: lnd counts the expiry from when it adds the invoice.
AddInvoice ==
    /\ pc = "add"
    /\ \/ Refuse
       \/ /\ q' = [q EXCEPT !.until = now + q.expiry]
          /\ pc' = "hold"
          /\ UNCHANGED <<now, price, inv, routing, est, budget, limit, spent>>

-----------------------------------------------------------------------------
(* circuitSwitch                                                            *)

\* The wrapped invoice is paid, with at least the lock it asks for.
Accepted ==
    /\ pc = "hold" /\ now <= q.until
    /\ \E delta \in {q.cltv, q.cltv + 1} : limit' = delta - CltvDeltaAlpha
    /\ pc' = "pay"
    /\ UNCHANGED <<now, price, inv, routing, q, est, budget, spent>>

\* It is not, or the payment of the original fails.
CancelInvoice ==
    /\ pc \in {"hold", "pay"} /\ pc' = "cancelled"
    /\ UNCHANGED <<now, price, inv, routing, q, est, budget, limit, spent>>

\* lnd pays the original at a cost of at most the budget.
PayInvoice ==
    /\ pc = "pay"
    /\ \E fee \in {0, budget} : spent' = inv.msat + fee
    /\ pc' = "settled"
    /\ UNCHANGED <<now, price, inv, routing, q, est, budget, limit>>

Next ==
    \/ Tick \/ NewChallenge \/ GetCallback \/ GetInvoice
    \/ requestWrappedInvoice \/ specApiHandler \/ wrap \/ AddInvoice
    \/ Accepted \/ CancelInvoice \/ PayInvoice

Spec == Init /\ [][Next]_vars

-----------------------------------------------------------------------------
\* A circuit never costs the relay: what it is paid covers the original
\* invoice, the fees of the payment and its own routing fee, whoever set the
\* fee and whatever amount the creator's server asked for.
RelayNeverLoses == pc = "settled" => q.value >= spent + RoutingFee(inv.msat)

\* When the wrapped invoice is paid, the original one can still be: it has not
\* expired, although lnd counts from when it added the wrapped invoice.
AcceptedInTime ==
    [][pc = "hold" /\ pc' = "pay" => now <= inv.stamp + inv.expiry]_vars

\* The payment that was estimated fits into the lock that the payer left, with
\* CltvDeltaBeta blocks for another route and CltvDeltaAlpha for the relay.
RouteFits == pc = "pay" => limit >= est + CltvDeltaBeta /\ limit >= 0

\* A price within the amounts that the relay takes ("a Relay with with sane
\* defaults") is not refused on account of the fee that aperture offers.
PriceSells ==
    pc = "wrap" /\ Custom /\ inv.msat <= MaxAmountMsat =>
        routing >= MinFeeBudgetMsat + RoutingFee(inv.msat)
=============================================================================
