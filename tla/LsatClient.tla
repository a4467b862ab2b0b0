----------------------------- MODULE LsatClient -----------------------------
(***************************************************************************)
(* A client that buys its access token by itself: ClientInterceptor of     *)
(* aperture/lsat/client_interceptor.go with the FileStore of lsat/store.go, *)
(* the client's lnd, which carries payments on whether or not the client   *)
(* waits for them, and the server, which answers a call that it refuses    *)
(* with a fresh challenge.                                                 *)
(*                                                                         *)
(* The interceptor's lock is held for the whole of a call, so there is one *)
(* call at a time.  A token is the payment hash of its invoice, with or    *)
(* without the preimage.  os.WriteFile is two steps, because it truncates  *)
(* the file before it writes: a file in between is Broken.                 *)
(***************************************************************************)
EXTENDS Naturals, FiniteSets

CONSTANTS Hash,        \* payment hashes of the server's invoices
          MayCrash,    \* can the client crash?
          MayFail,     \* can file writes and calls of lnd fail?
          MayExpire    \* can the rights of a token expire?

None   == "none"
Broken == "broken"

ASSUME LsatClientAssumption ==
    /\ None \notin Hash /\ Broken \notin Hash
    /\ MayCrash \in BOOLEAN /\ MayFail \in BOOLEAN /\ MayExpire \in BOOLEAN

VARIABLES
    paidFile,     \* lsat.token: None, Broken or a paid token
    pendingFile,  \* lsat.token.pending: None, Broken or a pending token
    payment,      \* lnd: the state of the payment of each hash
    expired,      \* the hashes whose rights have expired at the server
    pc,           \* where the call is
    token,        \* iCtx.token
    paid,         \* does it have its preimage?
    challenge     \* the invoice in the server's refusal

vars == <<paidFile, pendingFile, payment, expired, pc, token, paid, challenge>>

files == <<paidFile, pendingFile>>
call  == <<token, paid, challenge>>

\* currentToken of the store: the paid file comes first.
CurrentToken == IF paidFile # None THEN paidFile ELSE pendingFile

Return == pc' = "idle" /\ token' = None /\ paid' = FALSE /\ challenge' = None

\* An invoice made just now: hashes that nothing refers to are used again.
Fresh(h) ==
    /\ payment[h] \notin {"inflight", "succeeded"}
    /\ h \notin {paidFile, pendingFile, token}

-----------------------------------------------------------------------------
(***************************************************************************)
(* The call and the server.                                                *)
(***************************************************************************)

\* newInterceptContext: an unreadable token file fails the call.
Begin ==
    /\ pc = "idle"
    /\ CurrentToken # Broken
    /\ pc' = "invoke"
    /\ token' = CurrentToken
    /\ paid' = (paidFile # None)
    /\ UNCHANGED <<files, payment, expired, challenge>>

\* The call succeeds, or fails for another reason.  A second answer is final.
Answered ==
    /\ pc \in {"invoke", "again"}
    /\ Return
    /\ UNCHANGED <<files, payment, expired>>

\* The server accepts the token.
Accepts == paid /\ token \notin expired

\* The server wants to be paid.
PaymentRequired(h) ==
    /\ pc = "invoke"
    /\ ~Accepts
    /\ Fresh(h)
    /\ pc' = "handle"
    /\ challenge' = h
    /\ payment' = [payment EXCEPT ![h] = "none"]
    /\ expired' = expired \ {h}
    /\ UNCHANGED <<files, token, paid>>

\* Deviation: a pending token is not looked at.
HandlePaymentAlwaysPays ==
    /\ pc = "handle"
    /\ pc' = IF paid THEN "again" ELSE "pay"
    /\ UNCHANGED <<files, payment, expired, call>>

\* handlePayment.
HandlePayment ==
    /\ pc = "handle"
    /\ pc' = CASE paid         -> "again"
               [] token = None -> "pay"
               [] OTHER        -> "track"
    /\ UNCHANGED <<files, payment, expired, call>>

-----------------------------------------------------------------------------
(***************************************************************************)
(* payLsatToken.                                                           *)
(***************************************************************************)

\* The header cannot be read or the price is too high, or the store holds a
\* token and will not replace it.
PayRefused ==
    /\ pc = "pay"
    /\ Return
    /\ UNCHANGED <<files, payment, expired>>

\* StoreToken of the pending token: the file is truncated and written.
StorePending ==
    /\ pc = "pay"
    /\ CurrentToken = None
    /\ token' = challenge
    /\ pendingFile' = Broken
    /\ pc' = "storePending"
    /\ UNCHANGED <<paidFile, payment, expired, paid, challenge>>

PendingStored ==
    /\ pc = "storePending"
    /\ pendingFile' = token
    /\ pc' = "send"
    /\ UNCHANGED <<paidFile, payment, expired, call>>

\* PayInvoice reaches lnd.
SendPayment ==
    /\ pc = "send"
    /\ payment' = [payment EXCEPT ![token] = "inflight"]
    /\ pc' = "wait"
    /\ UNCHANGED <<files, expired, call>>

\* PayInvoice does not, or a token file cannot be opened or written.
StepFails ==
    /\ MayFail
    /\ pc \in {"storePending", "send", "store", "storePaid"}
    /\ Return
    /\ UNCHANGED <<files, payment, expired>>

\* lnd reports the preimage.
PayResult ==
    /\ pc = "wait"
    /\ payment[token] = "succeeded"
    /\ paid' = TRUE
    /\ pc' = "store"
    /\ UNCHANGED <<files, payment, expired, token, challenge>>

\* lnd reports an error, the payment times out or the caller gives up.
PayEnds ==
    /\ pc = "wait"
    /\ Return
    /\ UNCHANGED <<files, payment, expired>>

-----------------------------------------------------------------------------
(***************************************************************************)
(* trackPayment, and storing a paid token.                                 *)
(***************************************************************************)

TrackSucceeded ==
    /\ pc = "track"
    /\ payment[token] = "succeeded"
    /\ paid' = TRUE
    /\ pc' = "store"
    /\ UNCHANGED <<files, payment, expired, token, challenge>>

\* Deviation: a payment that has not succeeded yet is given up.
TrackFailedEarly ==
    /\ pc = "track"
    /\ payment[token] \in {"failed", "inflight"}
    /\ pendingFile' = None
    /\ token' = None
    /\ pc' = "pay"
    /\ UNCHANGED <<paidFile, payment, expired, paid, challenge>>

\* The payment failed for good: remove the pending token and pay anew.
TrackFailed ==
    /\ pc = "track"
    /\ payment[token] = "failed"
    /\ pendingFile' = None
    /\ token' = None
    /\ pc' = "pay"
    /\ UNCHANGED <<paidFile, payment, expired, paid, challenge>>

\* Tracking fails, because lnd does not know the payment or for another
\* reason, or it times out.
TrackEnds ==
    /\ pc = "track"
    /\ Return
    /\ UNCHANGED <<files, payment, expired>>

\* Deviation: the pending token makes way before the paid one is written.
StorePaidRenames ==
    /\ pc = "store"
    /\ CurrentToken = token
    /\ paidFile' = Broken
    /\ pendingFile' = None
    /\ pc' = "storePaid"
    /\ UNCHANGED <<payment, expired, call>>

\* StoreToken of the paid token, in the place of the pending one with the same
\* hash: write the one ...
StorePaid ==
    /\ pc = "store"
    /\ CurrentToken = token
    /\ paidFile' = Broken
    /\ pc' = "storePaid"
    /\ UNCHANGED <<pendingFile, payment, expired, call>>

PaidStored ==
    /\ pc = "storePaid"
    /\ paidFile' = token
    /\ pc' = "remove"
    /\ UNCHANGED <<pendingFile, payment, expired, call>>

\* ... and remove the other, with best effort.
RemovePending ==
    /\ pc = "remove"
    /\ \/ pendingFile' = None
       \/ MayFail /\ pendingFile' = pendingFile
    /\ pc' = "again"
    /\ UNCHANGED <<paidFile, payment, expired, call>>

-----------------------------------------------------------------------------
(***************************************************************************)
(* lnd, time and crashes.                                                  *)
(***************************************************************************)

\* lnd concludes a payment.
Conclude(h) ==
    /\ payment[h] = "inflight"
    /\ \E result \in {"succeeded", "failed"} :
           payment' = [payment EXCEPT ![h] = result]
    /\ UNCHANGED <<files, expired, pc, call>>

\* The rights bought with a token run out.
Expire(h) ==
    /\ MayExpire
    /\ payment[h] = "succeeded"
    /\ h \notin expired
    /\ expired' = expired \union {h}
    /\ UNCHANGED <<files, payment, pc, call>>

Crash ==
    /\ MayCrash
    /\ pc # "idle"
    /\ Return
    /\ UNCHANGED <<files, payment, expired>>

-----------------------------------------------------------------------------
Init ==
    /\ paidFile = None
    /\ pendingFile = None
    /\ payment = [h \in Hash |-> "none"]
    /\ expired = {}
    /\ pc = "idle"
    /\ token = None
    /\ paid = FALSE
    /\ challenge = None

Next ==
    \/ Begin \/ Answered \/ HandlePayment
    \/ PayRefused \/ StorePending \/ PendingStored \/ SendPayment \/ StepFails
    \/ PayResult \/ PayEnds
    \/ TrackSucceeded \/ TrackFailed \/ TrackEnds
    \/ StorePaid \/ PaidStored \/ RemovePending
    \/ \E h \in Hash : PaymentRequired(h) \/ Conclude(h) \/ Expire(h)
    \/ Crash

Spec == Init /\ [][Next]_vars

\* The application goes on calling, the server wants to be paid, lnd concludes
\* payments, and neither a crash nor a failure nor a time-out hits the same
\* step of every call.
Fairness ==
    /\ WF_vars(Begin) /\ WF_vars(Answered)
    /\ SF_vars(\E h \in Hash : PaymentRequired(h)) /\ SF_vars(HandlePayment)
    /\ SF_vars(TrackSucceeded) /\ SF_vars(StorePaid)
    /\ WF_vars(PayRefused) /\ WF_vars(PendingStored) /\ WF_vars(SendPayment)
    /\ WF_vars(PayEnds) /\ WF_vars(TrackEnds)
    /\ WF_vars(PaidStored) /\ WF_vars(RemovePending)
    /\ \A h \in Hash : WF_vars(Conclude(h))

FairSpec == Spec /\ Fairness

-----------------------------------------------------------------------------
\* Every variable has its type.
TypeOK ==
    /\ paidFile \in Hash \union {None, Broken}
    /\ pendingFile \in Hash \union {None, Broken}
    /\ payment \in [Hash -> {"none", "inflight", "succeeded", "failed"}]
    /\ expired \subseteq Hash
    /\ pc \in {"idle", "invoke", "again", "handle", "pay", "storePending",
               "send", "wait", "track", "store", "storePaid", "remove"}
    /\ token \in Hash \union {None}
    /\ paid \in BOOLEAN
    /\ challenge \in Hash \union {None}

\* The money of a payment may be gone.
Spent(h) == payment[h] \in {"inflight", "succeeded"}

\* "To avoid paying for a token twice": whatever crashes, fails or times out,
\* the client has never paid, or is paying, two invoices.
PayOnce == \A g, h \in Hash : Spent(g) /\ Spent(h) => g = h

\* A payment is never forgotten: the token it pays for is in one of the files,
\* also while the paid one is being written and after a crash then.
Remembered == \A h \in Hash : Spent(h) => h \in {paidFile, pendingFile}

\* What the client shows as paid is paid.
PaidIsPaid ==
    /\ paidFile \in Hash => payment[paidFile] = "succeeded"
    /\ paid => token \in Hash /\ payment[token] = "succeeded"

\* A payment that went through without the client's noticing, because it had
\* crashed or stopped waiting, is picked up, unless a crash or an error in the
\* middle of writing the paid token leaves a file that cannot be read.
PaidIsPickedUp ==
    \A h \in Hash : payment[h] = "succeeded" ~> paidFile \in {h, Broken}

\* "Create and store the pending token so we can resume the payment in case
\* the payment is interrupted somehow": a pending token does not stay for ever
\* without a payment.
PendingIsResumed ==
    \A h \in Hash : ~<>[](pendingFile = h /\ payment[h] = "none")

\* "Write the new token first, so we still have the pending around if something
\* goes wrong", and "the valid one will be read by the store if both exist":
\* with a pending token in place an idle client can read a token.
ValidIsRead == pc = "idle" /\ pendingFile \in Hash => CurrentToken # Broken

\* "We have a token and it's valid, nothing more to do here."
FoundTokenIsValid == pc = "handle" /\ paid => Accepts
=============================================================================
