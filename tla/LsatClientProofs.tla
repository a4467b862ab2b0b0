-------------------------- MODULE LsatClientProofs --------------------------
(***************************************************************************)
(* The client pays at most one invoice and forgets no payment, for any set *)
(* of payment hashes and whatever crashes, fails or times out.             *)
(***************************************************************************)
EXTENDS LsatClient, TLAPS

\* A pending token is being paid for: it is in the pending file and there is
\* no paid one.
Pending == token \in Hash /\ pendingFile = token /\ paidFile = None

\* What a call has in hand agrees with the token files: nobody else writes
\* them while the call holds the interceptor's lock.
HandFits ==
    /\ pc = "idle" => token = None /\ ~paid
    /\ pc \in {"invoke", "handle"} =>
           /\ paid => token = paidFile
           /\ ~paid => token = pendingFile /\ paidFile = None
    /\ pc \in {"handle", "pay", "track"} =>
           challenge \in Hash /\ challenge \notin {paidFile, pendingFile}
    /\ pc = "pay" => token = None /\ ~paid /\ paidFile = None
                     /\ pendingFile = None
    /\ pc = "storePending" => token \in Hash /\ ~paid /\ paidFile = None
                              /\ pendingFile = Broken
    /\ pc \in {"send", "wait", "track"} => Pending /\ ~paid
    /\ pc = "store" => Pending /\ paid
    /\ pc = "storePaid" => token \in Hash /\ paid /\ pendingFile = token
                           /\ paidFile = Broken
    /\ pc = "remove" => paid /\ paidFile = token /\ token \in Hash
    /\ pc = "again" => paid /\ token = paidFile

\* The pending token that a paid one leaves behind is the same token.
FilesAgree ==
    paidFile \in Hash => pendingFile \in {None, paidFile}

IInv == TypeOK /\ HandFits /\ FilesAgree /\ PayOnce /\ Remembered /\ PaidIsPaid

-----------------------------------------------------------------------------
\* The constants None and Broken are no hashes and differ.
LEMMA Distinct == None # Broken /\ None \notin Hash /\ Broken \notin Hash
  BY LsatClientAssumption DEF None, Broken

\* The initial states satisfy the invariant.
LEMMA InitInv == Init => IInv
  BY Distinct DEF Init, IInv, TypeOK, HandFits, Pending, FilesAgree, PayOnce,
                  Remembered, PaidIsPaid, Spent

\* Giving a call up leaves files and payments alone.
LEMMA ReturnInv ==
  ASSUME IInv, Return, UNCHANGED <<files, payment, expired>>
  PROVE  IInv'
  BY Distinct DEF Return, files, IInv, TypeOK, HandFits, Pending, FilesAgree,
                  PayOnce, Remembered, PaidIsPaid, Spent

\* Steps that change neither files nor payments, only the call.
LEMMA CallInv ==
  ASSUME IInv, Begin \/ HandlePayment \/ PayResult \/ TrackSucceeded
  PROVE  IInv'
<1>1. CASE Begin
  BY <1>1, Distinct DEF Begin, CurrentToken, files, IInv, TypeOK, HandFits,
     Pending, FilesAgree, PayOnce, Remembered, PaidIsPaid, Spent
<1>2. CASE HandlePayment
  BY <1>2, Distinct DEF HandlePayment, files, call, IInv, TypeOK, HandFits,
     Pending, FilesAgree, PayOnce, Remembered, PaidIsPaid, Spent
<1>3. CASE PayResult
  BY <1>3, Distinct DEF PayResult, files, IInv, TypeOK, HandFits, Pending,
     FilesAgree, PayOnce, Remembered, PaidIsPaid, Spent
<1>4. CASE TrackSucceeded
  BY <1>4, Distinct DEF TrackSucceeded, files, IInv, TypeOK, HandFits, Pending,
     FilesAgree, PayOnce, Remembered, PaidIsPaid, Spent
<1>. QED  BY <1>1, <1>2, <1>3, <1>4

\* Steps that write or remove a token file.
LEMMA FileInv ==
  ASSUME IInv,
         \/ StorePending \/ PendingStored \/ TrackFailed
         \/ StorePaid \/ PaidStored \/ RemovePending
  PROVE  IInv'
<1>1. CASE StorePending
  BY <1>1, Distinct DEF StorePending, IInv, TypeOK, HandFits, Pending,
     FilesAgree, PayOnce, Remembered, PaidIsPaid, Spent
<1>2. CASE PendingStored
  BY <1>2, Distinct DEF PendingStored, call, IInv, TypeOK, HandFits, Pending,
     FilesAgree, PayOnce, Remembered, PaidIsPaid, Spent
<1>3. CASE TrackFailed
  BY <1>3, Distinct DEF TrackFailed, IInv, TypeOK, HandFits, Pending,
     FilesAgree, PayOnce, Remembered, PaidIsPaid, Spent
<1>4. CASE StorePaid
  BY <1>4, Distinct DEF StorePaid, call, IInv, TypeOK, HandFits, Pending,
     FilesAgree, PayOnce, Remembered, PaidIsPaid, Spent
<1>5. CASE PaidStored
  BY <1>5, Distinct DEF PaidStored, call, IInv, TypeOK, HandFits, Pending,
     FilesAgree, PayOnce, Remembered, PaidIsPaid, Spent
<1>6. CASE RemovePending
  BY <1>6, Distinct DEF RemovePending, call, IInv, TypeOK, HandFits, Pending,
     FilesAgree, PayOnce, Remembered, PaidIsPaid, Spent
<1>. QED  BY <1>1, <1>2, <1>3, <1>4, <1>5, <1>6

\* Paying: no other payment is under way, because every payment is remembered
\* in the files, and they hold nothing but the token that is paid now.
LEMMA SendInv ==
  ASSUME IInv, SendPayment
  PROVE  IInv'
<1>1. pc = "send" /\ token \in Hash /\ Pending /\ ~paid
  BY DEF SendPayment, IInv, HandFits, Pending
<1>2. \A h \in Hash : Spent(h) => h = token
  BY <1>1, Distinct DEF IInv, Remembered, Pending
<1>3. \A h \in Hash : Spent(h)' => h = token
  BY <1>1, <1>2 DEF SendPayment, Spent, IInv, TypeOK
<1>4. TypeOK' /\ HandFits' /\ FilesAgree'
  BY <1>1 DEF SendPayment, files, call, IInv, TypeOK, HandFits, Pending,
     FilesAgree
<1>5. PayOnce' /\ Remembered'
  BY <1>1, <1>3 DEF SendPayment, files, call, PayOnce, Remembered, Pending
<1>6. PaidIsPaid'
  BY <1>1, Distinct DEF SendPayment, files, call, PaidIsPaid, Pending
<1>. QED  BY <1>4, <1>5, <1>6 DEF IInv

\* The server and lnd.
LEMMA OutsideInv ==
  ASSUME IInv, NEW h \in Hash,
         PaymentRequired(h) \/ Conclude(h) \/ Expire(h)
  PROVE  IInv'
<1>1. CASE PaymentRequired(h)
  <2>1. TypeOK' /\ HandFits' /\ FilesAgree'
    BY <1>1, Distinct DEF PaymentRequired, Fresh, files, IInv, TypeOK,
       HandFits, Pending, FilesAgree
  <2>2. \A g \in Hash : Spent(g)' => Spent(g)
    BY <1>1 DEF PaymentRequired, Spent, IInv, TypeOK
  <2>3. PayOnce' /\ Remembered'
    BY <1>1, <2>2 DEF PaymentRequired, files, IInv, PayOnce, Remembered
  <2>4. PaidIsPaid'
    BY <1>1 DEF PaymentRequired, Fresh, files, IInv, TypeOK, PaidIsPaid
  <2>. QED  BY <2>1, <2>3, <2>4 DEF IInv
<1>2. CASE Conclude(h)
  <2>1. TypeOK' /\ HandFits' /\ FilesAgree'
    BY <1>2 DEF Conclude, files, call, IInv, TypeOK, HandFits, Pending,
       FilesAgree
  <2>2. \A g \in Hash : Spent(g)' => Spent(g)
    BY <1>2 DEF Conclude, Spent, IInv, TypeOK
  <2>3. PayOnce' /\ Remembered'
    BY <1>2, <2>2 DEF Conclude, files, IInv, PayOnce, Remembered
  <2>4. PaidIsPaid'
    BY <1>2 DEF Conclude, files, call, IInv, TypeOK, PaidIsPaid
  <2>. QED  BY <2>1, <2>3, <2>4 DEF IInv
<1>3. CASE Expire(h)
  BY <1>3 DEF Expire, files, call, IInv, TypeOK, HandFits, Pending,
     FilesAgree, PayOnce, Remembered, PaidIsPaid, Spent
<1>. QED  BY <1>1, <1>2, <1>3

\* Every step preserves the invariant.
LEMMA NextInv == IInv /\ [Next]_vars => IInv'
<1>. SUFFICES ASSUME IInv, [Next]_vars PROVE IInv'
  OBVIOUS
<1>1. CASE UNCHANGED vars
  BY <1>1 DEF vars, IInv, TypeOK, HandFits, Pending, FilesAgree, PayOnce,
     Remembered, PaidIsPaid, Spent
<1>2. CASE Begin \/ HandlePayment \/ PayResult \/ TrackSucceeded
  BY <1>2, CallInv
<1>3. CASE \/ StorePending \/ PendingStored \/ TrackFailed
           \/ StorePaid \/ PaidStored \/ RemovePending
  BY <1>3, FileInv
<1>4. CASE SendPayment
  BY <1>4, SendInv
<1>5. CASE \/ Answered \/ PayRefused \/ StepFails \/ PayEnds \/ TrackEnds
           \/ Crash
  BY <1>5, ReturnInv DEF Answered, PayRefused, StepFails, PayEnds, TrackEnds,
     Crash
<1>6. CASE \E h \in Hash : PaymentRequired(h) \/ Conclude(h) \/ Expire(h)
  BY <1>6, OutsideInv
<1>. QED  BY <1>1, <1>2, <1>3, <1>4, <1>5, <1>6 DEF Next

\* Type correctness of the client.
THEOREM TypeCorrect == Spec => []TypeOK
<1>1. IInv => TypeOK
  BY DEF IInv
<1>. QED  BY InitInv, NextInv, <1>1, PTL DEF Spec

\* The client never pays two invoices ("To avoid paying for a token twice").
THEOREM PayOnceHolds == Spec => []PayOnce
<1>1. IInv => PayOnce
  BY DEF IInv
<1>. QED  BY InitInv, NextInv, <1>1, PTL DEF Spec

\* The token of a payment under way or made is in one of the store's files.
THEOREM RememberedHolds == Spec => []Remembered
<1>1. IInv => Remembered
  BY DEF IInv
<1>. QED  BY InitInv, NextInv, <1>1, PTL DEF Spec

\* A token that the client stores or shows as paid is paid.
THEOREM PaidIsPaidHolds == Spec => []PaidIsPaid
<1>1. IInv => PaidIsPaid
  BY DEF IInv
<1>. QED  BY InitInv, NextInv, <1>1, PTL DEF Spec
=============================================================================
