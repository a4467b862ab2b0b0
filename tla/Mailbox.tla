------------------------------ MODULE Mailbox ------------------------------
(***************************************************************************)
(* What a hashmail stream promises its two clients: the messages written   *)
(* at one end come out at the other one by one and in order.  A message    *)
(* that was taken out for a reader who is gone is lost, and so are the     *)
(* messages that are inside when the stream is torn down.                  *)
(***************************************************************************)
EXTENDS Naturals, Sequences

VARIABLES written,  \* number of messages written
          queue,    \* those that have not left the mailbox
          hand,     \* the message on its way to a reader, or 0
          got,      \* the messages that readers received
          closed    \* has the stream been torn down?

vars == <<written, queue, hand, got, closed>>

Init ==
    /\ written = 0
    /\ queue = <<>>
    /\ hand = 0
    /\ got = <<>>
    /\ closed = FALSE

Write ==
    /\ ~closed
    /\ written' = written + 1
    /\ queue' = Append(queue, written + 1)
    /\ UNCHANGED <<hand, got, closed>>

Take ==
    /\ hand = 0
    /\ queue # <<>>
    /\ hand' = Head(queue)
    /\ queue' = Tail(queue)
    /\ UNCHANGED <<written, got, closed>>

Receive ==
    /\ hand # 0
    /\ got' = Append(got, hand)
    /\ hand' = 0
    /\ UNCHANGED <<written, queue, closed>>

ReaderGone ==
    /\ hand # 0
    /\ hand' = 0
    /\ UNCHANGED <<written, queue, got, closed>>

\* Tearing down loses messages at both ends of the queue, then or later.
Close ==
    /\ closed' = TRUE
    /\ \E m \in 1..(Len(queue) + 1), n \in 0..Len(queue) :
           queue' = SubSeq(queue, m, n)
    /\ UNCHANGED <<written, hand, got>>

Next == Write \/ Take \/ Receive \/ ReaderGone \/ Close

Spec == Init /\ [][Next]_vars

=============================================================================
