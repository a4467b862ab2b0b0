------------------------------- MODULE Swap -------------------------------
(***************************************************************************)
(* What the lnproxy relay promises: relaying a payment is an atomic swap.  *)
(* The payer's money is held, the payee is paid with the relay's own       *)
(* money, and only then does the relay take the payer's money; if the      *)
(* payee cannot be paid the payer's money is returned.  The payer's money  *)
(* can be lost to the relay only when nobody attends to the swap any more. *)
(***************************************************************************)
CONSTANT Hash

VARIABLES payer,   \* "none", "offered", "held", "taken" or "returned"
          payee,   \* "unpaid", "paying", "failed" or "paid"
          gone     \* has the relay stopped attending to the swap?

vars == <<payer, payee, gone>>

Init ==
    /\ payer = [h \in Hash |-> "none"]
    /\ payee = [h \in Hash |-> "unpaid"]
    /\ gone = [h \in Hash |-> FALSE]

Offer(h) ==
    /\ payer[h] = "none"
    /\ payer' = [payer EXCEPT ![h] = "offered"]
    /\ UNCHANGED <<payee, gone>>

Hold(h) ==
    /\ payer[h] = "offered"
    /\ payer' = [payer EXCEPT ![h] = "held"]
    /\ UNCHANGED <<payee, gone>>

\* The relay pays only while it holds the payer's money, and only once.
Pay(h) ==
    /\ payer[h] = "held"
    /\ payee[h] = "unpaid"
    /\ ~gone[h]
    /\ payee' = [payee EXCEPT ![h] = "paying"]
    /\ UNCHANGED <<payer, gone>>

PaymentEnds(h) ==
    /\ payee[h] = "paying"
    /\ \E r \in {"failed", "paid"} : payee' = [payee EXCEPT ![h] = r]
    /\ UNCHANGED <<payer, gone>>

\* The payer is charged only for a payment the payee has received.
Take(h) ==
    /\ payer[h] = "held"
    /\ payee[h] = "paid"
    /\ payer' = [payer EXCEPT ![h] = "taken"]
    /\ UNCHANGED <<payee, gone>>

\* The money goes back only when no payment is on its way or arrived.
Return(h) ==
    /\ payer[h] \in {"offered", "held"}
    /\ payee[h] \in {"unpaid", "failed"}
    /\ payer' = [payer EXCEPT ![h] = "returned"]
    /\ UNCHANGED <<payee, gone>>

\* The relay dies with swaps in progress ...
Abandon ==
    /\ \E H \in SUBSET Hash : gone' = [h \in Hash |-> gone[h] \/ h \in H]
    /\ UNCHANGED <<payer, payee>>

\* ... and a swap it has paid for is not claimed in time.
Lapse(h) ==
    /\ gone[h]
    /\ payer[h] = "held"
    /\ payee[h] = "paid"
    /\ payer' = [payer EXCEPT ![h] = "returned"]
    /\ UNCHANGED <<payee, gone>>

Next ==
    \/ \E h \in Hash : \/ Offer(h) \/ Hold(h) \/ Pay(h) \/ PaymentEnds(h)
                       \/ Take(h) \/ Return(h) \/ Lapse(h)
    \/ Abandon

Spec == Init /\ [][Next]_vars

-----------------------------------------------------------------------------
\* The swap is atomic as long as somebody attends to it: the payer is charged
\* only if the payee is paid, and a payee is paid only at the payer's expense.
Atomic ==
    \A h \in Hash :
        /\ payer[h] = "taken" => payee[h] = "paid"
        /\ payee[h] = "paid" /\ payer[h] = "returned" => gone[h]
=============================================================================
