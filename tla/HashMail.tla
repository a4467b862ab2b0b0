------------------------------ MODULE HashMail ------------------------------
(***************************************************************************)
(* The mailbox server of aperture/hashmail_server.go: the map of streams,  *)
(* the two ends of each stream that RPC handlers take and return, the      *)
(* occupancy flags and the inactivity timer of a stream, and the ways a    *)
(* stream is torn down.  The bytes that go through a stream are the        *)
(* subject of MailPipe; here only their number counts.                     *)
(*                                                                         *)
(* The server's RWMutex is held for reading by a look-up, which is two     *)
(* steps here, and for writing by InitStream and by every tear-down, which *)
(* are one.  Returning an end takes no server lock.                        *)
(***************************************************************************)
EXTENDS Naturals, FiniteSets

CONSTANTS Id,          \* stream ids that clients use
          Stream,      \* stream objects; those no longer referenced are reused
          Handler,     \* concurrent SendStream and RecvStream calls
          Capacity,    \* messages the two goroutines of a stream can hold
          MaxPending,  \* bound on the callbacks of one timer under way
          StaleTimer,  \* is the inactivity timer enabled?
          MayStop      \* can the server be stopped?

None == "none"

ASSUME HashMailAssumption ==
    /\ None \notin Stream \union Handler \union Id
    /\ Capacity \in Nat \ {0} /\ MaxPending \in Nat
    /\ StaleTimer \in BOOLEAN /\ MayStop \in BOOLEAN

End == {"read", "write"}

VARIABLES
    streams,   \* the server's map from id to stream, or None
    id,        \* the id a stream was created with
    state,     \* "none", "live" or "down" (torn down)
    holder,    \* who took an end from its holding channel; None: still there
    occupied,  \* streamStatus: the ends marked as occupied
    armed,     \* is the staleTimer running?
    pending,   \* onStale callbacks that wait for the server's lock
    inPipe,    \* messages inside the stream's goroutines
    eof,       \* does readErrChan hold the reader's EOF?
    pc, at, side,   \* a handler's position, its stream and its end
    gone,      \* has the handler's client hung up?
    stopped,   \* has Stop been called?
    panicked   \* has the process died of closing a closed channel?

streamVars  == <<streams, id, state, inPipe, eof>>
statusVars  == <<occupied, armed, pending>>
handlerVars == <<holder, pc, at, side, gone>>
serverVars  == <<stopped, panicked>>

vars == <<streams, id, state, holder, occupied, armed, pending, inPipe, eof,
          pc, at, side, gone, stopped, panicked>>

\* Nothing refers to the stream any more.
Unused(s) ==
    /\ state[s] # "live"
    /\ ~armed[s] /\ pending[s] = 0
    /\ \A i \in Id : streams[i] # s
    /\ \A h \in Handler : at[h] # s

\* A look-up holds the server's lock for reading.
LookingUp == \E h \in Handler : pc[h] = "taken"

-----------------------------------------------------------------------------
(***************************************************************************)
(* Creating a stream and tearing it down.                                  *)
(***************************************************************************)

\* InitStream and newStream.
InitStream(s, i) ==
    /\ ~panicked /\ ~LookingUp
    /\ streams[i] = None
    /\ Unused(s)
    /\ streams' = [streams EXCEPT ![i] = s]
    /\ id' = [id EXCEPT ![s] = i]
    /\ state' = [state EXCEPT ![s] = "live"]
    /\ armed' = [armed EXCEPT ![s] = StaleTimer]
    /\ occupied' = [occupied EXCEPT ![s] = {}]
    /\ inPipe' = [inPipe EXCEPT ![s] = 0]
    /\ eof' = [eof EXCEPT ![s] = FALSE]
    /\ UNCHANGED <<pending, handlerVars, serverVars>>

\* Deviation: the second goroutine ends without passing the error on.
tearDownSilently(S) ==
    /\ panicked' = \E s \in S : state[s] = "down"
    /\ state' = [s \in Stream |-> IF s \in S THEN "down" ELSE state[s]]
    /\ armed' = [s \in Stream |-> IF s \in S THEN FALSE ELSE armed[s]]
    /\ inPipe' = [s \in Stream |-> IF s \in S THEN 0 ELSE inPipe[s]]
    /\ UNCHANGED <<id, eof, occupied, handlerVars>>

\* stream.tearDown for the streams of a set: stop the timer, close the pipe
\* and the quit channel, and wait for the two goroutines, the second of which
\* leaves the EOF behind.  Closing quit a second time is a panic.
tearDown(S) ==
    /\ panicked' = \E s \in S : state[s] = "down"
    /\ state' = [s \in Stream |-> IF s \in S THEN "down" ELSE state[s]]
    /\ armed' = [s \in Stream |-> IF s \in S THEN FALSE ELSE armed[s]]
    /\ inPipe' = [s \in Stream |-> IF s \in S THEN 0 ELSE inPipe[s]]
    /\ eof' = [s \in Stream |-> eof[s] \/ s \in S]
    /\ UNCHANGED <<id, occupied, handlerVars>>

\* TearDownStream, for DelCipherBox.
TearDownStream(i) ==
    /\ ~panicked /\ ~LookingUp
    /\ streams[i] # None
    /\ tearDown({streams[i]})
    /\ streams' = [streams EXCEPT ![i] = None]
    /\ UNCHANGED <<pending, stopped>>

\* The timer goes off and its callback waits for the server's lock.
TimerFires(s) ==
    /\ ~panicked
    /\ armed[s]
    /\ pending[s] < MaxPending
    /\ armed' = [armed EXCEPT ![s] = FALSE]
    /\ pending' = [pending EXCEPT ![s] = @ + 1]
    /\ UNCHANGED <<streamVars, occupied, handlerVars, serverVars>>

\* Deviation: the stream stays in the map.
tearDownStaleStreamKeeps(s) ==
    /\ ~panicked /\ ~LookingUp
    /\ pending[s] > 0
    /\ pending' = [pending EXCEPT ![s] = @ - 1]
    /\ IF streams[id[s]] = None
       THEN UNCHANGED <<streams, state, armed, inPipe, eof, id, occupied,
                        handlerVars, panicked>>
       ELSE /\ tearDown({streams[id[s]]})
            /\ UNCHANGED streams
    /\ UNCHANGED stopped

\* tearDownStaleStream, called by the timer of s with the id of s.
tearDownStaleStream(s) ==
    /\ ~panicked /\ ~LookingUp
    /\ pending[s] > 0
    /\ pending' = [pending EXCEPT ![s] = @ - 1]
    /\ IF streams[id[s]] = None
       THEN UNCHANGED <<streams, state, armed, inPipe, eof, id, occupied,
                        handlerVars, panicked>>
       ELSE /\ tearDown({streams[id[s]]})
            /\ streams' = [streams EXCEPT ![id[s]] = None]
    /\ UNCHANGED stopped

\* Stop tears down every stream and leaves it in the map.
Stop ==
    /\ MayStop
    /\ ~panicked /\ ~LookingUp
    /\ ~stopped
    /\ stopped' = TRUE
    /\ tearDown({streams[i] : i \in Id} \ {None})
    /\ UNCHANGED <<streams, pending>>

-----------------------------------------------------------------------------
(***************************************************************************)
(* SendStream and RecvStream.                                              *)
(***************************************************************************)

\* Deviation: the end is not taken out of its channel.
LookUpStreamPeeks(h, e, i) ==
    /\ ~panicked
    /\ pc[h] = "idle"
    /\ streams[i] # None
    /\ pc' = [pc EXCEPT ![h] = "taken"]
    /\ at' = [at EXCEPT ![h] = streams[i]]
    /\ side' = [side EXCEPT ![h] = e]
    /\ holder' = [holder EXCEPT ![streams[i]][e] = h]
    /\ UNCHANGED <<streamVars, statusVars, gone, serverVars>>

\* LookUpReadStream and LookUpWriteStream: take the end from its channel, if
\* it is there ...
LookUpStream(h, e, i) ==
    /\ ~panicked
    /\ pc[h] = "idle"
    /\ streams[i] # None
    /\ holder[streams[i]][e] = None
    /\ pc' = [pc EXCEPT ![h] = "taken"]
    /\ at' = [at EXCEPT ![h] = streams[i]]
    /\ side' = [side EXCEPT ![h] = e]
    /\ holder' = [holder EXCEPT ![streams[i]][e] = h]
    /\ UNCHANGED <<streamVars, statusVars, gone, serverVars>>

\* ... and mark it as occupied, which stops the timer.
streamTaken(h) ==
    /\ ~panicked
    /\ pc[h] = "taken"
    /\ pc' = [pc EXCEPT ![h] =
                  IF side[h] = "read" THEN "reading" ELSE "receiving"]
    /\ IF StaleTimer
       THEN /\ occupied' = [occupied EXCEPT ![at[h]] = @ \union {side[h]}]
            /\ armed' = [armed EXCEPT ![at[h]] = FALSE]
       ELSE UNCHANGED <<occupied, armed>>
    /\ UNCHANGED <<streamVars, pending, holder, at, side, gone, serverVars>>

\* The client hangs up: the context of the call is done.
HangUp(h) ==
    /\ ~panicked
    /\ pc[h] \in {"reading", "receiving", "writing"}
    /\ ~gone[h]
    /\ gone' = [gone EXCEPT ![h] = TRUE]
    /\ UNCHANGED <<streamVars, statusVars, holder, pc, at, side, serverVars>>

\* The handler's select, Recv or limiter.Wait sees that the client is gone.
SeesHangUp(h) ==
    /\ ~panicked
    /\ pc[h] \in {"reading", "receiving"}
    /\ gone[h]
    /\ pc' = [pc EXCEPT ![h] = "returning"]
    /\ UNCHANGED <<streamVars, statusVars, holder, at, side, gone, serverVars>>

\* RecvStream passes a message on to its client.
ReadNextMsg(h) ==
    /\ ~panicked
    /\ pc[h] = "reading"
    /\ inPipe[at[h]] > 0
    /\ inPipe' = [inPipe EXCEPT ![at[h]] = @ - 1]
    /\ UNCHANGED <<streams, id, state, eof, statusVars, handlerVars,
                   serverVars>>

\* ReadNextMsg gets the EOF of a stream that was torn down.
ReadEof(h) ==
    /\ ~panicked
    /\ pc[h] = "reading"
    /\ eof[at[h]]
    /\ eof' = [eof EXCEPT ![at[h]] = FALSE]
    /\ pc' = [pc EXCEPT ![h] = "returning"]
    /\ UNCHANGED <<streams, id, state, inPipe, statusVars, holder, at, side,
                   gone, serverVars>>

\* SendStream has a message and limiter.Wait, which looks at the context, lets
\* it pass: WriteMsg writes to the pipe, which does not ...
BeginWrite(h) ==
    /\ ~panicked
    /\ pc[h] = "receiving"
    /\ ~gone[h]
    /\ pc' = [pc EXCEPT ![h] = "writing"]
    /\ UNCHANGED <<streamVars, statusVars, holder, at, side, gone, serverVars>>

\* ... until a goroutine takes the bytes ...
WriteDone(h) ==
    /\ ~panicked
    /\ pc[h] = "writing"
    /\ state[at[h]] = "live"
    /\ inPipe[at[h]] < Capacity
    /\ inPipe' = [inPipe EXCEPT ![at[h]] = @ + 1]
    /\ pc' = [pc EXCEPT ![h] = "receiving"]
    /\ UNCHANGED <<streams, id, state, eof, statusVars, holder, at, side,
                   gone, serverVars>>

\* ... or the pipe is closed.
WriteFails(h) ==
    /\ ~panicked
    /\ pc[h] = "writing"
    /\ state[at[h]] = "down"
    /\ pc' = [pc EXCEPT ![h] = "returning"]
    /\ UNCHANGED <<streamVars, statusVars, holder, at, side, gone, serverVars>>

\* ReturnReadStream and ReturnWriteStream: put the end back in its channel ...
ReturnStream(h) ==
    /\ ~panicked
    /\ pc[h] = "returning"
    /\ holder' = [holder EXCEPT ![at[h]][side[h]] = None]
    /\ pc' = [pc EXCEPT ![h] = "returned"]
    /\ UNCHANGED <<streamVars, statusVars, at, side, gone, serverVars>>

\* Deviation: the flags are tested before the end is marked as free.
streamReturnedLate(h) ==
    /\ ~panicked
    /\ pc[h] = "returned"
    /\ pc' = [pc EXCEPT ![h] = "idle"]
    /\ at' = [at EXCEPT ![h] = None]
    /\ side' = [side EXCEPT ![h] = None]
    /\ gone' = [gone EXCEPT ![h] = FALSE]
    /\ occupied' = [occupied EXCEPT ![at[h]] = @ \ {side[h]}]
    /\ armed' = [armed EXCEPT ![at[h]] = @ \/ occupied[at[h]] = {}]
    /\ UNCHANGED <<streamVars, pending, holder, serverVars>>

\* ... and mark it as free; the timer is started again when both are.
streamReturned(h) ==
    /\ ~panicked
    /\ pc[h] = "returned"
    /\ pc' = [pc EXCEPT ![h] = "idle"]
    /\ at' = [at EXCEPT ![h] = None]
    /\ side' = [side EXCEPT ![h] = None]
    /\ gone' = [gone EXCEPT ![h] = FALSE]
    /\ LET left == occupied[at[h]] \ {side[h]}
       IN  IF StaleTimer
           THEN /\ occupied' = [occupied EXCEPT ![at[h]] = left]
                /\ armed' = [armed EXCEPT ![at[h]] = @ \/ left = {}]
           ELSE UNCHANGED <<occupied, armed>>
    /\ UNCHANGED <<streamVars, pending, holder, serverVars>>

-----------------------------------------------------------------------------
Init ==
    /\ streams = [i \in Id |-> None]
    /\ id = [s \in Stream |-> None]
    /\ state = [s \in Stream |-> "none"]
    /\ holder = [s \in Stream |-> [e \in End |-> None]]
    /\ occupied = [s \in Stream |-> {}]
    /\ armed = [s \in Stream |-> FALSE]
    /\ pending = [s \in Stream |-> 0]
    /\ inPipe = [s \in Stream |-> 0]
    /\ eof = [s \in Stream |-> FALSE]
    /\ pc = [h \in Handler |-> "idle"]
    /\ at = [h \in Handler |-> None]
    /\ side = [h \in Handler |-> None]
    /\ gone = [h \in Handler |-> FALSE]
    /\ stopped = FALSE
    /\ panicked = FALSE

\* The steps a handler takes by itself.
Proceed(h) ==
    \/ streamTaken(h) \/ SeesHangUp(h) \/ ReadNextMsg(h) \/ ReadEof(h)
    \/ WriteDone(h) \/ WriteFails(h) \/ ReturnStream(h) \/ streamReturned(h)

Next ==
    \/ \E s \in Stream, i \in Id : InitStream(s, i)
    \/ \E i \in Id : TearDownStream(i)
    \/ \E s \in Stream : TimerFires(s) \/ tearDownStaleStream(s)
    \/ Stop
    \/ \E h \in Handler :
           \/ \E e \in End, i \in Id : LookUpStream(h, e, i)
           \/ HangUp(h) \/ BeginWrite(h) \/ Proceed(h)

Spec == Init /\ [][Next]_vars

\* Handlers run, timers go off and their callbacks get the lock.  Clients need
\* not come, send or hang up.  A callback waits for a lock that look-ups hold
\* from time to time, but a waiting writer of an RWMutex is not passed over.
Fairness ==
    /\ \A h \in Handler :
           /\ WF_vars(streamTaken(h) \/ ReturnStream(h) \/ streamReturned(h))
           /\ WF_vars(WriteDone(h) \/ WriteFails(h))
           /\ WF_vars(ReadNextMsg(h)) /\ WF_vars(ReadEof(h))
           /\ WF_vars(SeesHangUp(h))
    /\ \A s \in Stream :
           WF_vars(TimerFires(s)) /\ SF_vars(tearDownStaleStream(s))

FairSpec == Spec /\ Fairness

-----------------------------------------------------------------------------
\* Every variable has its type.
TypeOK ==
    /\ streams \in [Id -> Stream \union {None}]
    /\ id \in [Stream -> Id \union {None}]
    /\ state \in [Stream -> {"none", "live", "down"}]
    /\ holder \in [Stream -> [End -> Handler \union {None}]]
    /\ occupied \in [Stream -> SUBSET End]
    /\ armed \in [Stream -> BOOLEAN]
    /\ pending \in [Stream -> 0..MaxPending]
    /\ inPipe \in [Stream -> 0..Capacity]
    /\ eof \in [Stream -> BOOLEAN]
    /\ pc \in [Handler -> {"idle", "taken", "reading", "receiving",
                           "writing", "returning", "returned"}]
    /\ at \in [Handler -> Stream \union {None}]
    /\ side \in [Handler -> End \union {None}]
    /\ gone \in [Handler -> BOOLEAN]
    /\ stopped \in BOOLEAN
    /\ panicked \in BOOLEAN

\* The handler uses its end of its stream.
Using(h) == pc[h] \in {"taken", "reading", "receiving", "writing", "returning"}

\* "Only a single writer and reader can exist within the stream at any given
\* time": no two handlers use the same end of the same stream, whatever the
\* order in which ends are taken, returned and torn down.
OneUserPerEnd ==
    \A g, h \in Handler :
        Using(g) /\ Using(h) /\ at[g] = at[h] /\ side[g] = side[h] => g = h

\* A stream is torn down once: no timer, client or stale callback closes the
\* quit channel of a stream again, unless Stop has left it in the map.
TornDownOnce == panicked => stopped

\* A mailbox nobody uses does not leak: when no handler is at work on a
\* registered stream, its timer is running or has gone off.
IdleIsTimed ==
    StaleTimer =>
        \A i \in Id, s \in Stream :
            /\ streams[i] = s
            /\ state[s] = "live"
            /\ \A h \in Handler : at[h] # s
            => armed[s] \/ pending[s] > 0

\* A mailbox that stays unused is removed from the map.
IdleIsRemoved ==
    \A i \in Id, s \in Stream :
        ~<>[](/\ streams[i] = s
              /\ ~stopped /\ ~panicked
              /\ \A h \in Handler : at[h] # s)

\* Tearing a stream down releases the handlers that are blocked on it, the
\* reader in ReadNextMsg and the writer in WriteMsg.
TearDownReleases ==
    \A h \in Handler :
        /\ pc[h] \in {"reading", "writing"}
        /\ state[at[h]] = "down"
        /\ ~stopped
        ~> pc[h] \notin {"reading", "writing"} \/ stopped

\* The comment on DefaultStaleTimeout: "the time after which a mailbox will be
\* torn down if neither of its streams are occupied".  The timer does not tear
\* down a stream one of whose ends is in use.
StaleOnlyIfIdle ==
    [][\A s, t \in Stream :
           /\ pending'[t] < pending[t]
           /\ state[s] = "live" /\ state'[s] = "down"
           => \A h \in Handler : ~(Using(h) /\ at[h] = s)]_vars

\* The comment on stop, which tearDown calls: "stop cleans up any resources
\* held by streamStatus".  A stream that was torn down has no running timer.
DownIsQuiet == \A s \in Stream : state[s] = "down" => ~armed[s]

\* The comment in SendStream: "we'll make sure to mark the write inactive if
\* the client hangs up on their end".
HangUpReleases ==
    \A h \in Handler : gone[h] /\ ~panicked ~> ~gone[h] \/ panicked
=============================================================================
