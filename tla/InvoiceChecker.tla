--------------------------- MODULE InvoiceChecker ---------------------------
(***************************************************************************)
(* What auth.InvoiceChecker promises its caller, without goroutines,       *)
(* mutex, condition variable or timer: VerifyInvoiceStatus behaves as one  *)
(* atomic look at a table of invoice states, taken at some moment between  *)
(* the call and its return.  The table may change at any time, and when    *)
(* the process ends the pending calls are gone.                            *)
(***************************************************************************)
CONSTANTS Hash, Call, State, WantState, None

VARIABLES cache,   \* the table: the state of each hash, or None
          phase,   \* "idle", "pending", "decided" or "returned"
          hash,    \* the hash a call is about
          want,    \* the state it asks for
          answer   \* its result, once decided

vars == <<cache, phase, hash, want, answer>>

Init ==
    /\ cache = [h \in Hash |-> None]
    /\ phase = [c \in Call |-> "idle"]
    /\ hash = [c \in Call |-> None]
    /\ want = [c \in Call |-> None]
    /\ answer = [c \in Call |-> None]

Change ==
    /\ cache' \in [Hash -> State \union {None}]
    /\ UNCHANGED <<phase, hash, want, answer>>

Begin(c) ==
    /\ phase[c] \in {"idle", "returned"}
    /\ phase' = [phase EXCEPT ![c] = "pending"]
    /\ \E h \in Hash, s \in WantState :
           /\ hash' = [hash EXCEPT ![c] = h]
           /\ want' = [want EXCEPT ![c] = s]
    /\ answer' = [answer EXCEPT ![c] = None]
    /\ UNCHANGED cache

\* The answer to a call that asks for state s and finds r in the table.
Answer(r, s) == IF r = None THEN "noInvoice"
                ELSE IF r = s THEN "ok" ELSE "wrongState"

Decide(c) ==
    /\ phase[c] = "pending"
    /\ phase' = [phase EXCEPT ![c] = "decided"]
    /\ answer' = [answer EXCEPT ![c] = Answer(cache[hash[c]], want[c])]
    /\ UNCHANGED <<cache, hash, want>>

Return(c) ==
    /\ phase[c] = "decided"
    /\ phase' = [phase EXCEPT ![c] = "returned"]
    /\ UNCHANGED <<cache, hash, want, answer>>

ProcessEnds == Init'

Next ==
    \/ Change
    \/ \E c \in Call : Begin(c) \/ Decide(c) \/ Return(c)
    \/ ProcessEnds

Spec == Init /\ [][Next]_vars
=============================================================================
