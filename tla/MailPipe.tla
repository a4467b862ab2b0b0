------------------------------ MODULE MailPipe ------------------------------
(***************************************************************************)
(* The bytes of one hashmail stream (newStream, WriteMsg and ReadNextMsg   *)
(* of aperture/hashmail_server.go).  A writer hands a message with its     *)
(* length prefix, a frame, to a pipe; one goroutine copies it to a second  *)
(* pipe; another cuts what it reads there into chunks and offers each to   *)
(* the reader, who decodes one message from it.                            *)
(*                                                                         *)
(* A byte is a pair of the number of its message and its position in the   *)
(* frame.  io.Pipe has no buffer: a write lasts until its bytes have been  *)
(* read, and a read gets at most the rest of one write.                    *)
(***************************************************************************)
EXTENDS Naturals, Sequences

CONSTANTS FrameLen,  \* lengths of frames, prefix and message
          BufSize,   \* DefaultBufSize, the buffer of the cutting goroutine
          CopySize,  \* the buffer of io.Copy
          MaxMsg,    \* bound on the messages written
          MayClose   \* can the stream be torn down?

ASSUME MailPipeAssumption ==
    /\ FrameLen \subseteq Nat \ {0}
    /\ BufSize \in Nat \ {0} /\ CopySize \in Nat \ {0} /\ MaxMsg \in Nat
    /\ CopySize % BufSize = 0
    /\ MayClose \in BOOLEAN

VARIABLES
    sent,     \* the frame lengths of the messages written so far
    writing,  \* bytes of the current WriteMsg that have not been read
    copying,  \* bytes io.Copy is writing to the second pipe
    cutter,   \* the second goroutine: "read", "more", "offer" or "done"
    chunk,    \* the bytes it has collected
    hand,     \* the bytes RecvStream has decoded and is sending
    got,      \* history: the bytes of each message that was received
    closed    \* has tearDown closed the pipe and quit?

vars == <<sent, writing, copying, cutter, chunk, hand, got, closed>>

\* The frame of message k.
Frame(k, len) == [j \in 1..len |-> <<k, j>>]

AtMost(n, bytes) == IF Len(bytes) < n THEN Len(bytes) ELSE n

Take(n, bytes) == SubSeq(bytes, 1, AtMost(n, bytes))

Rest(n, bytes) == SubSeq(bytes, AtMost(n, bytes) + 1, Len(bytes))

-----------------------------------------------------------------------------
\* WriteMsg: one Write of the prefix and the message.
WriteMsg(len) ==
    /\ ~closed
    /\ writing = <<>>
    /\ Len(sent) < MaxMsg
    /\ sent' = Append(sent, len)
    /\ writing' = Frame(Len(sent) + 1, len)
    /\ UNCHANGED <<copying, cutter, chunk, hand, got, closed>>

\* One round of io.Copy.
Copy ==
    /\ writing # <<>>
    /\ copying = <<>>
    /\ copying' = Take(CopySize, writing)
    /\ writing' = Rest(CopySize, writing)
    /\ UNCHANGED <<sent, cutter, chunk, hand, got, closed>>

\* Deviation: every read offers a chunk only when the buffer was filled.
CutFilled ==
    /\ cutter \in {"read", "more"}
    /\ copying # <<>>
    /\ chunk' = chunk \o Take(BufSize, copying)
    /\ copying' = Rest(BufSize, copying)
    /\ cutter' = IF Len(copying) < BufSize THEN "more" ELSE "offer"
    /\ UNCHANGED <<sent, writing, hand, got, closed>>

\* Read into the buffer: the chunk is complete when the buffer was not filled.
Cut ==
    /\ cutter \in {"read", "more"}
    /\ copying # <<>>
    /\ chunk' = chunk \o Take(BufSize, copying)
    /\ copying' = Rest(BufSize, copying)
    /\ cutter' = IF Len(copying) >= BufSize THEN "more" ELSE "offer"
    /\ UNCHANGED <<sent, writing, hand, got, closed>>

\* Deviation: the chunk is not taken off the channel.
ReadNextMsgPeeks ==
    /\ cutter = "offer"
    /\ hand = <<>>
    /\ hand' = Take(sent[chunk[1][1]], chunk)
    /\ UNCHANGED <<sent, writing, copying, cutter, chunk, got, closed>>

\* ReadNextMsg takes a chunk from readBytesChan and decodes the message at its
\* beginning: as many bytes as its prefix says, or as there are.
ReadNextMsg ==
    /\ cutter = "offer"
    /\ hand = <<>>
    /\ hand' = Take(sent[chunk[1][1]], chunk)
    /\ chunk' = <<>>
    /\ cutter' = "read"
    /\ UNCHANGED <<sent, writing, copying, got, closed>>

\* RecvStream's Send succeeds ...
Send ==
    /\ hand # <<>>
    /\ got' = Append(got, hand)
    /\ hand' = <<>>
    /\ UNCHANGED <<sent, writing, copying, cutter, chunk, closed>>

\* ... or fails because the client is gone; the next reader does not get the
\* message.
SendFails ==
    /\ hand # <<>>
    /\ hand' = <<>>
    /\ UNCHANGED <<sent, writing, copying, cutter, chunk, got, closed>>

\* tearDown: the write end is closed, a Write under way returns an error.
TearDown ==
    /\ MayClose
    /\ ~closed
    /\ closed' = TRUE
    /\ writing' = <<>>
    /\ UNCHANGED <<sent, copying, cutter, chunk, hand, got>>

\* With quit closed an offer may be dropped ...
DropChunk ==
    /\ closed
    /\ cutter = "offer"
    /\ cutter' = "read"
    /\ chunk' = <<>>
    /\ UNCHANGED <<sent, writing, copying, hand, got, closed>>

\* ... and once the second pipe is at its end the goroutine reports the EOF.
CutterEnds ==
    /\ closed
    /\ cutter \in {"read", "more"}
    /\ copying = <<>>
    /\ cutter' = "done"
    /\ chunk' = <<>>
    /\ UNCHANGED <<sent, writing, copying, hand, got, closed>>

-----------------------------------------------------------------------------
Init ==
    /\ sent = <<>>
    /\ writing = <<>>
    /\ copying = <<>>
    /\ cutter = "read"
    /\ chunk = <<>>
    /\ hand = <<>>
    /\ got = <<>>
    /\ closed = FALSE

Next ==
    \/ \E len \in FrameLen : WriteMsg(len)
    \/ Copy \/ Cut \/ ReadNextMsg \/ Send \/ SendFails
    \/ TearDown \/ DropChunk \/ CutterEnds

Spec == Init /\ [][Next]_vars

\* The goroutines run and a reader is there to take messages.
Fairness ==
    /\ WF_vars(Copy) /\ WF_vars(Cut) /\ WF_vars(ReadNextMsg)
    /\ WF_vars(Send \/ SendFails)

FairSpec == Spec /\ Fairness

-----------------------------------------------------------------------------
Byte == (1..MaxMsg) \X (Nat \ {0})

\* Every variable has its type.
TypeOK ==
    /\ sent \in Seq(FrameLen) /\ Len(sent) <= MaxMsg
    /\ \A bytes \in {writing, copying, chunk, hand} : bytes \in Seq(Byte)
    /\ cutter \in {"read", "more", "offer", "done"}
    /\ cutter = "offer" => chunk # <<>>
    /\ got \in Seq(Seq(Byte))
    /\ closed \in BOOLEAN

\* The bytes inside the stream in their order, and the numbers of their
\* messages.
Bytes == chunk \o copying \o writing

Inside == {Bytes[n][1] : n \in 1..Len(Bytes)}

\* The number of a message in hand, 0 for none.
NumberOf(bytes) == IF bytes = <<>> THEN 0 ELSE bytes[1][1]

\* What a client receives is a message as it was written, prefix and all its
\* bytes, however the two goroutines cut and joined it on the way.
Whole ==
    \A n \in 1..Len(got) :
        LET k == NumberOf(got[n]) IN got[n] = Frame(k, sent[k])

\* The messages from that of the first byte inside to that of the last.
Queue ==
    LET first == Bytes[1][1]
        last == Bytes[Len(Bytes)][1]
    IN  IF Bytes = <<>> THEN <<>>
        ELSE [n \in 1..(last + 1 - first) |-> first + n - 1]

\* The stream as a mailbox: a message is in the queue as long as some of its
\* bytes are inside.
Box == INSTANCE Mailbox WITH
    written <- Len(sent),
    queue <- Queue,
    hand <- NumberOf(hand),
    got <- [n \in 1..Len(got) |-> NumberOf(got[n])]

\* The stream implements the mailbox: messages reach readers in the order they
\* were written and none twice, and as long as the stream is not torn down, a
\* message is lost only with a reader that is gone.
ImplementsMailbox == Box!Spec

\* With a reader there, every message written gets out of the goroutines.
Delivered ==
    \A k \in 1..MaxMsg : [](Len(sent) = k => <>(k \notin Inside \/ closed))
=============================================================================
