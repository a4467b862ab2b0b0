--------------------------- MODULE HashMailProofs ---------------------------
(***************************************************************************)
(* The mailbox server, for any number of ids, streams and handlers: who    *)
(* has an end of a stream, what the map of streams leads to, and that a    *)
(* stream nobody uses is timed.  Then the bytes inside a stream.           *)
(***************************************************************************)
EXTENDS HashMail, SequenceTheorems, TLAPS

\* Most steps are first-order and go to Zenon; the others name their prover.
USE Zenon

\* A handler at work has an end of a stream that was created, and it is the
\* holder of that end until it has returned it.
Taken(h) ==
    /\ pc[h] = "idle" => at[h] = None
    /\ pc[h] # "idle" =>
           at[h] \in Stream /\ side[h] \in End /\ id[at[h]] \in Id
    /\ Using(h) => holder[at[h]][side[h]] = h

\* An end that is not in its channel is in use: none is lost.
Given(s) ==
    \A e \in End, h \in Handler :
        holder[s][e] = h => Using(h) /\ at[h] = s /\ side[h] = e

\* The map leads to the stream that was created with the id, and until Stop
\* that stream has not been torn down.
Registered(i) ==
    streams[i] # None =>
        /\ id[streams[i]] = i
        /\ stopped \/ state[streams[i]] = "live"

\* An end marked as occupied is that of a handler that has not marked it as
\* free, and a timer belongs to a stream that was created.
Marked(s) ==
    /\ StaleTimer =>
           \A e \in occupied[s] : \E h \in Handler :
               at[h] = s /\ side[h] = e /\ pc[h] # "taken"
    /\ armed[s] \/ pending[s] > 0 => id[s] \in Id

\* IdleIsTimed, of one stream.
Timed(s) ==
    /\ StaleTimer /\ state[s] = "live"
    /\ \E i \in Id : streams[i] = s
    /\ \A h \in Handler : at[h] # s
    => armed[s] \/ pending[s] > 0

IInv ==
    /\ TypeOK
    /\ \A h \in Handler : Taken(h)
    /\ \A i \in Id : Registered(i)
    /\ \A s \in Stream : Given(s) /\ Marked(s) /\ Timed(s)
    /\ panicked => stopped

-----------------------------------------------------------------------------
\* Steps of a handler that keep its end: reading, writing, hanging up.
LEMMA AtWorkKeeps ==
    ASSUME IInv, NEW h \in Handler,
           HangUp(h) \/ SeesHangUp(h) \/ ReadNextMsg(h) \/ ReadEof(h)
               \/ BeginWrite(h) \/ WriteDone(h) \/ WriteFails(h)
    PROVE  IInv'
<1> USE DEF HangUp, SeesHangUp, ReadNextMsg, ReadEof, BeginWrite, WriteDone,
            WriteFails, streamVars, statusVars, handlerVars, serverVars
<1>1. TypeOK'
  <2>1. at[h] \in Stream /\ inPipe[at[h]] \in 0..Capacity
        BY DEF IInv, TypeOK, Taken
  <2>2. inPipe' \in [Stream -> 0..Capacity]
    <3>1. CASE ReadNextMsg(h)
      <4>1. inPipe[at[h]] - 1 \in 0..Capacity
            BY <2>1, <3>1, HashMailAssumption, SMT
      <4> QED BY <3>1, <4>1 DEF IInv, TypeOK
    <3>2. CASE WriteDone(h)
      <4>1. inPipe[at[h]] + 1 \in 0..Capacity
            BY <2>1, <3>2, HashMailAssumption, SMT
      <4> QED BY <3>2, <4>1 DEF IInv, TypeOK
    <3>3. CASE UNCHANGED inPipe
          BY <3>3 DEF IInv, TypeOK
    <3> QED BY <3>1, <3>2, <3>3
  <2>3. eof' \in [Stream -> BOOLEAN]
        BY DEF IInv, TypeOK
  <2>4. gone' \in [Handler -> BOOLEAN]
        BY DEF IInv, TypeOK
  <2>5. pc' \in [Handler -> {"idle", "taken", "reading", "receiving",
                             "writing", "returning", "returned"}]
        BY DEF IInv, TypeOK
  <2> QED BY <2>2, <2>3, <2>4, <2>5 DEF IInv, TypeOK
<1>2. UNCHANGED <<streams, id, state, holder, occupied, armed, pending, at,
                  side, stopped, panicked>>
      OBVIOUS
<1>3. /\ \A g \in Handler : g # h => pc'[g] = pc[g]
      /\ Using(h) /\ Using(h)' /\ pc[h] # "taken" /\ pc'[h] # "taken"
      BY DEF IInv, TypeOK, Using
<1>4. \A g \in Handler : /\ Using(g)' = Using(g)
                         /\ (pc'[g] = "idle") = (pc[g] = "idle")
                         /\ (pc'[g] = "taken") = (pc[g] = "taken")
      BY <1>3, SMT DEF Using
<1>5. \A g \in Handler : Taken(g)'
      BY <1>2, <1>4 DEF IInv, Taken
<1>6. \A i \in Id : Registered(i)'
      BY <1>2 DEF IInv, Registered
<1>7. \A s \in Stream : Given(s)' /\ Marked(s)' /\ Timed(s)'
      BY <1>2, <1>4, SMT DEF IInv, Given, Marked, Timed
<1> QED BY <1>1, <1>2, <1>5, <1>6, <1>7 DEF IInv

\* LookUpReadStream and LookUpWriteStream: the end was in its channel, so no
\* handler is using it, and the stream comes from the map.
LEMMA LookUpKeeps ==
    ASSUME IInv, NEW h \in Handler, NEW e \in End, NEW i \in Id,
           LookUpStream(h, e, i)
    PROVE  IInv'
<1> DEFINE t == streams[i]
<1>1. t \in Stream /\ id[t] = i
      BY SMT DEF IInv, TypeOK, Registered, LookUpStream
<1>2. UNCHANGED <<streams, id, state, occupied, armed, pending, inPipe, eof,
                  gone, stopped, panicked>>
      BY DEF LookUpStream, streamVars, statusVars, serverVars
<1>3. /\ pc[h] = "idle" /\ pc' = [pc EXCEPT ![h] = "taken"]
      /\ at' = [at EXCEPT ![h] = t] /\ side' = [side EXCEPT ![h] = e]
      /\ holder' = [holder EXCEPT ![t][e] = h] /\ holder[t][e] = None
      BY DEF LookUpStream
<1> HIDE DEF t
<1>4. TypeOK'
      BY <1>1, <1>2, <1>3 DEF IInv, TypeOK
<1>5. /\ pc'[h] = "taken" /\ at'[h] = t /\ side'[h] = e /\ at[h] = None
      /\ \A g \in Handler : g # h =>
             pc'[g] = pc[g] /\ at'[g] = at[g] /\ side'[g] = side[g]
      /\ holder'[t][e] = h
      /\ \A s \in Stream, d \in End : s # t \/ d # e =>
             holder'[s][d] = holder[s][d]
      BY <1>1, <1>3 DEF IInv, TypeOK, Taken
<1>6. Taken(h)'
      BY <1>1, <1>2, <1>5 DEF Taken
<1>7. ASSUME NEW g \in Handler, g # h
      PROVE  Taken(g)'
      BY <1>2, <1>3, <1>5, <1>7, HashMailAssumption, SMT DEF IInv, Taken, Using
<1>8. \A j \in Id : Registered(j)'
      BY <1>2 DEF IInv, Registered
<1>9. ASSUME NEW s \in Stream
      PROVE  Given(s)' /\ Marked(s)' /\ Timed(s)'
  <2>0. Given(s) /\ Marked(s) /\ Timed(s)
        BY DEF IInv
  <2>1. Given(s)'
    <3> SUFFICES ASSUME NEW d \in End, NEW g \in Handler, holder'[s][d] = g
                 PROVE  Using(g)' /\ at'[g] = s /\ side'[g] = d
        BY DEF Given
    <3>1. CASE s = t /\ d = e
          BY <1>5, <3>1 DEF Using
    <3>2. CASE s # t \/ d # e
      <4>1. holder[s][d] = g
            BY <1>5, <3>2
      <4>2. Using(g) /\ at[g] = s /\ side[g] = d
            BY <2>0, <4>1 DEF Given
      <4> QED BY <1>3, <1>5, <4>2 DEF Using
    <3> QED BY <3>1, <3>2
  <2>2. Marked(s)'
        BY <1>2, <1>3, <1>5, <2>0, HashMailAssumption, SMT DEF Marked
  <2>3. Timed(s)'
        BY <1>2, <1>3, <1>5, <2>0, HashMailAssumption, SMT DEF Timed
  <2> QED BY <2>1, <2>2, <2>3
<1> QED BY <1>2, <1>4, <1>6, <1>7, <1>8, <1>9 DEF IInv

\* streamTaken: the end is marked as occupied by the handler that has it, and
\* the timer stops while the handler is at the stream.
LEMMA StreamTakenKeeps ==
    ASSUME IInv, NEW h \in Handler, streamTaken(h)
    PROVE  IInv'
<1>1. UNCHANGED <<streams, id, state, holder, pending, inPipe, eof, at, side,
                  gone, stopped, panicked>>
      BY DEF streamTaken, streamVars, serverVars
<1>2. /\ pc[h] = "taken" /\ pc'[h] \in {"reading", "receiving"}
      /\ pc' \in [Handler -> {"idle", "taken", "reading", "receiving",
                               "writing", "returning", "returned"}]
      /\ \A g \in Handler : g # h => pc'[g] = pc[g]
      BY DEF IInv, TypeOK, streamTaken
<1>3. at[h] \in Stream /\ side[h] \in End
      BY <1>2 DEF IInv, Taken
<1>4. /\ occupied' \in [Stream -> SUBSET End] /\ armed' \in [Stream -> BOOLEAN]
      /\ \A s \in Stream : s # at[h] =>
             occupied'[s] = occupied[s] /\ armed'[s] = armed[s]
      /\ occupied'[at[h]] \subseteq occupied[at[h]] \union {side[h]}
      /\ armed'[at[h]] => armed[at[h]]
  <2>1. CASE StaleTimer
    <3>1. /\ occupied' = [occupied EXCEPT ![at[h]] = @ \union {side[h]}]
          /\ armed' = [armed EXCEPT ![at[h]] = FALSE]
          BY <2>1 DEF streamTaken
    <3>2. occupied[at[h]] \union {side[h]} \in SUBSET End
          BY <1>3 DEF IInv, TypeOK
    <3> QED BY <1>3, <3>1, <3>2 DEF IInv, TypeOK
  <2>2. CASE ~StaleTimer
        BY <2>2 DEF IInv, TypeOK, streamTaken
  <2> QED BY <2>1, <2>2
<1>5. \A g \in Handler : /\ Using(g)' = Using(g)
                         /\ (pc'[g] = "idle") = (pc[g] = "idle")
                         /\ pc'[g] = "taken" => pc[g] = "taken"
      BY <1>2, SMT DEF Using
<1>6. TypeOK'
      BY <1>1, <1>2, <1>4 DEF IInv, TypeOK
<1>7. \A g \in Handler : Taken(g)'
      BY <1>1, <1>5 DEF IInv, Taken
<1>8. \A i \in Id : Registered(i)'
      BY <1>1 DEF IInv, Registered
<1>9. ASSUME NEW s \in Stream
      PROVE  Given(s)' /\ Marked(s)' /\ Timed(s)'
  <2>0. Given(s) /\ Marked(s) /\ Timed(s)
        BY DEF IInv
  <2>1. Given(s)'
        BY <1>1, <1>5, <2>0 DEF Given
  <2>2. Marked(s)'
    <3>1. CASE s = at[h]
      <4>1. StaleTimer => \A e \in occupied'[s] : \E g \in Handler :
                at'[g] = s /\ side'[g] = e /\ pc'[g] # "taken"
            BY <1>1, <1>2, <1>4, <1>5, <2>0, <3>1, SMT DEF Marked
      <4>2. armed'[s] \/ pending'[s] > 0 => id'[s] \in Id
            BY <1>1, <1>4, <2>0, <3>1 DEF Marked
      <4> QED BY <4>1, <4>2 DEF Marked
    <3>2. CASE s # at[h]
          BY <1>1, <1>4, <1>5, <2>0, <3>2 DEF Marked
    <3> QED BY <3>1, <3>2
  <2>3. Timed(s)'
        BY <1>1, <1>4, <2>0 DEF Timed
  <2> QED BY <2>1, <2>2, <2>3
<1> QED BY <1>1, <1>6, <1>7, <1>8, <1>9 DEF IInv

\* ReturnReadStream and ReturnWriteStream: the end is back in its channel and
\* the handler no longer uses it, though it has yet to unmark it.
LEMMA ReturnStreamKeeps ==
    ASSUME IInv, NEW h \in Handler, ReturnStream(h)
    PROVE  IInv'
<1>1. UNCHANGED <<streams, id, state, occupied, armed, pending, inPipe, eof,
                  at, side, gone, stopped, panicked>>
      BY DEF ReturnStream, streamVars, statusVars, serverVars
<1>2. /\ pc[h] = "returning" /\ pc'[h] = "returned"
      /\ pc' \in [Handler -> {"idle", "taken", "reading", "receiving",
                               "writing", "returning", "returned"}]
      /\ \A g \in Handler : g # h => pc'[g] = pc[g]
      BY DEF IInv, TypeOK, ReturnStream
<1>3. /\ at[h] \in Stream /\ side[h] \in End /\ Using(h)
      /\ holder[at[h]][side[h]] = h
      BY <1>2 DEF IInv, Taken, Using
<1>4. /\ holder' \in [Stream -> [End -> Handler \union {None}]]
      /\ holder'[at[h]][side[h]] = None
      /\ \A s \in Stream, e \in End : s # at[h] \/ e # side[h] =>
             holder'[s][e] = holder[s][e]
      BY <1>3 DEF IInv, TypeOK, ReturnStream
<1>5. \A g \in Handler : g # h => Using(g)' = Using(g)
      BY <1>2 DEF Using
<1>6. TypeOK'
      BY <1>1, <1>2, <1>4 DEF IInv, TypeOK
<1>7. ASSUME NEW g \in Handler
      PROVE  Taken(g)'
  <2>1. CASE g = h
        BY <1>1, <1>2, <2>1 DEF IInv, Taken, Using
  <2>2. CASE g # h
    <3>1. ASSUME Using(g)
          PROVE  holder'[at[g]][side[g]] = g
      <4>1. at[g] \in Stream /\ side[g] \in End /\ holder[at[g]][side[g]] = g
            BY <3>1 DEF IInv, Taken, Using
      <4>2. at[g] # at[h] \/ side[g] # side[h]
            BY <1>3, <2>2, <4>1
      <4> QED BY <1>4, <4>1, <4>2
    <3> QED BY <1>1, <1>2, <1>5, <2>2, <3>1 DEF IInv, Taken
  <2> QED BY <2>1, <2>2
<1>8. \A i \in Id : Registered(i)'
      BY <1>1 DEF IInv, Registered
<1>9. ASSUME NEW s \in Stream
      PROVE  Given(s)' /\ Marked(s)' /\ Timed(s)'
  <2>0. Given(s) /\ Marked(s) /\ Timed(s)
        BY DEF IInv
  <2>1. Given(s)'
    <3> SUFFICES ASSUME NEW e \in End, NEW g \in Handler, holder'[s][e] = g
                 PROVE  Using(g)' /\ at'[g] = s /\ side'[g] = e
        BY DEF Given
    <3>1. s # at[h] \/ e # side[h]
          BY <1>4, HashMailAssumption
    <3>2. Using(g) /\ at[g] = s /\ side[g] = e
          BY <1>4, <2>0, <3>1 DEF Given
    <3> QED BY <1>1, <1>5, <3>1, <3>2
  <2>2. Marked(s)'
        BY <1>1, <1>2, <2>0, SMT DEF Marked
  <2>3. Timed(s)'
        BY <1>1, <2>0 DEF Timed
  <2> QED BY <2>1, <2>2, <2>3
<1> QED BY <1>1, <1>6, <1>7, <1>8, <1>9 DEF IInv

\* streamReturned: a handler that leaves a stream with no occupied end starts
\* the timer, and a stream that is left to nobody has no occupied end.
LEMMA StreamReturnedKeeps ==
    ASSUME IInv, NEW h \in Handler, streamReturned(h)
    PROVE  IInv'
<1> DEFINE t == at[h]
           left == occupied[t] \ {side[h]}
<1>1. UNCHANGED <<streams, id, state, holder, pending, inPipe, eof, stopped,
                  panicked>>
      BY DEF streamReturned, streamVars, serverVars
<1>2. pc[h] = "returned" /\ pc'[h] = "idle" /\ at'[h] = None
      /\ \A g \in Handler : g # h => /\ pc'[g] = pc[g] /\ at'[g] = at[g]
                                     /\ side'[g] = side[g]
      BY DEF IInv, TypeOK, streamReturned
<1>3. t \in Stream /\ side[h] \in End /\ id[t] \in Id
      BY <1>2 DEF IInv, Taken
<1>4. /\ occupied' \in [Stream -> SUBSET End] /\ armed' \in [Stream -> BOOLEAN]
      /\ \A s \in Stream : s # t =>
             occupied'[s] = occupied[s] /\ armed'[s] = armed[s]
      /\ occupied'[t] \subseteq occupied[t]
      /\ StaleTimer => occupied'[t] = left /\ (left = {} => armed'[t])
  <2>1. CASE StaleTimer
    <3>1. /\ occupied' = [occupied EXCEPT ![t] = left]
          /\ armed' = [armed EXCEPT ![t] = @ \/ left = {}]
          BY <2>1 DEF streamReturned
    <3>2. left \in SUBSET End
          BY <1>3 DEF IInv, TypeOK
    <3> QED BY <1>3, <3>1, <3>2 DEF IInv, TypeOK
  <2>2. CASE ~StaleTimer
        BY <2>2 DEF IInv, TypeOK, streamReturned
  <2> QED BY <2>1, <2>2
<1>5. \A g \in Handler : Using(g)' = Using(g)
      BY <1>2, SMT DEF Using
<1>6. TypeOK'
  <2>1. /\ pc' \in [Handler -> {"idle", "taken", "reading", "receiving",
                                 "writing", "returning", "returned"}]
        /\ at' \in [Handler -> Stream \union {None}]
        /\ side' \in [Handler -> End \union {None}]
        /\ gone' \in [Handler -> BOOLEAN]
        BY DEF IInv, TypeOK, streamReturned
  <2> QED BY <1>1, <1>4, <2>1 DEF IInv, TypeOK
<1>7. ASSUME NEW g \in Handler
      PROVE  Taken(g)'
  <2>1. CASE g = h
        BY <1>2, <2>1 DEF Taken, Using
  <2>2. CASE g # h
        BY <1>1, <1>2, <1>5, <2>2 DEF IInv, Taken
  <2> QED BY <2>1, <2>2
<1>8. \A i \in Id : Registered(i)'
      BY <1>1 DEF IInv, Registered
<1>9. ASSUME NEW s \in Stream
      PROVE  Given(s)' /\ Marked(s)' /\ Timed(s)'
  <2>0. Given(s) /\ Marked(s) /\ Timed(s)
        BY DEF IInv
  <2>1. Given(s)'
    <3> SUFFICES ASSUME NEW e \in End, NEW g \in Handler, holder'[s][e] = g
                 PROVE  Using(g)' /\ at'[g] = s /\ side'[g] = e
        BY DEF Given
    <3>1. Using(g) /\ at[g] = s /\ side[g] = e
          BY <1>1, <2>0 DEF Given
    <3>2. g # h
          BY <1>2, <3>1 DEF Using
    <3> QED BY <1>2, <1>5, <3>1, <3>2
  <2>2. Marked(s)'
    <3>1. ASSUME StaleTimer, NEW e \in occupied'[s]
          PROVE  \E g \in Handler :
                     at'[g] = s /\ side'[g] = e /\ pc'[g] # "taken"
      <4>1. e \in occupied[s] /\ ~(s = t /\ e = side[h])
            BY <1>4, <3>1, SMT
      <4>2. PICK g \in Handler : at[g] = s /\ side[g] = e /\ pc[g] # "taken"
            BY <2>0, <3>1, <4>1 DEF Marked
      <4> QED BY <1>2, <4>1, <4>2
    <3>2. armed'[s] \/ pending'[s] > 0 => id'[s] \in Id
          BY <1>1, <1>3, <1>4, <2>0 DEF Marked
    <3> QED BY <3>1, <3>2 DEF Marked
  <2>3. Timed(s)'
    <3> SUFFICES ASSUME StaleTimer, state[s] = "live",
                        \E i \in Id : streams[i] = s,
                        \A g \in Handler : at'[g] # s
                 PROVE  armed'[s] \/ pending'[s] > 0
        BY <1>1 DEF Timed
    <3>1. CASE s = t
      <4>1. left = {}
            BY <1>2, <2>0, <3>1, SMT DEF Marked
      <4> QED BY <1>4, <3>1, <4>1
    <3>2. CASE s # t
          BY <1>1, <1>2, <1>4, <2>0, <3>2, SMT DEF Timed
    <3> QED BY <3>1, <3>2
  <2> QED BY <2>1, <2>2, <2>3
<1> QED BY <1>1, <1>6, <1>7, <1>8, <1>9 DEF IInv

\* The timer goes off: it stops running and its callback is under way.
LEMMA TimerFiresKeeps ==
    ASSUME IInv, NEW s \in Stream, TimerFires(s)
    PROVE  IInv'
<1>1. UNCHANGED <<streams, id, state, holder, occupied, inPipe, eof, pc, at,
                  side, gone, stopped, panicked>>
      BY DEF TimerFires, streamVars, handlerVars, serverVars
<1>2. /\ armed[s] /\ pending[s] \in 0..MaxPending /\ pending[s] < MaxPending
      /\ armed' = [armed EXCEPT ![s] = FALSE]
      /\ pending' = [pending EXCEPT ![s] = pending[s] + 1]
      BY DEF IInv, TypeOK, TimerFires
<1>3. pending[s] + 1 \in 0..MaxPending /\ pending[s] + 1 > 0
      BY <1>2, HashMailAssumption, SMT
<1>4. armed' \in [Stream -> BOOLEAN] /\ pending' \in [Stream -> 0..MaxPending]
      BY <1>2, <1>3 DEF IInv, TypeOK
<1>5. /\ pending'[s] > 0
      /\ \A t \in Stream : t # s =>
             armed'[t] = armed[t] /\ pending'[t] = pending[t]
      BY <1>2, <1>3 DEF IInv, TypeOK
<1>6. TypeOK'
      BY <1>1, <1>4 DEF IInv, TypeOK
<1>7. (\A h \in Handler : Taken(h)') /\ (\A i \in Id : Registered(i)')
      BY <1>1 DEF IInv, Taken, Using, Registered
<1>8. ASSUME NEW t \in Stream
      PROVE  Given(t)' /\ Marked(t)' /\ Timed(t)'
  <2>0. Given(t) /\ Marked(t) /\ Timed(t)
        BY DEF IInv
  <2>1. Given(t)'
        BY <1>1, <2>0 DEF Given, Using
  <2>2. Marked(t)'
        BY <1>1, <1>2, <1>5, <2>0 DEF Marked
  <2>3. Timed(t)'
        BY <1>1, <1>5, <2>0 DEF Timed
  <2> QED BY <2>1, <2>2, <2>3
<1> QED BY <1>1, <1>6, <1>7, <1>8 DEF IInv

\* InitStream: the new stream is one that nothing refers to, and its timer
\* starts with it.
LEMMA InitStreamKeeps ==
    ASSUME IInv, NEW s \in Stream, NEW i \in Id, InitStream(s, i)
    PROVE  IInv'
<1>1. /\ UNCHANGED <<pending, holder, pc, at, side, gone, stopped, panicked>>
      /\ \A j \in Id : streams[j] # s
      /\ \A h \in Handler : at[h] # s
      BY DEF InitStream, Unused, handlerVars, serverVars
<1>2. /\ streams'[i] = s /\ \A j \in Id : j # i => streams'[j] = streams[j]
      /\ id'[s] = i /\ state'[s] = "live" /\ occupied'[s] = {}
      /\ armed'[s] = StaleTimer
      /\ \A t \in Stream : t # s => /\ id'[t] = id[t] /\ state'[t] = state[t]
             /\ occupied'[t] = occupied[t] /\ armed'[t] = armed[t]
      BY DEF IInv, TypeOK, InitStream
<1>3. TypeOK'
      BY HashMailAssumption, SMT DEF IInv, TypeOK, InitStream, handlerVars,
         serverVars
<1>4. ASSUME NEW h \in Handler
      PROVE  Taken(h)'
      BY <1>1, <1>2 DEF IInv, Taken, Using
<1>5. ASSUME NEW j \in Id
      PROVE  Registered(j)'
  <2>1. CASE j = i
        BY <1>2, <2>1 DEF Registered
  <2>2. CASE j # i
        BY <1>1, <1>2, <2>2, SMT DEF IInv, TypeOK, Registered
  <2> QED BY <2>1, <2>2
<1>6. ASSUME NEW t \in Stream
      PROVE  Given(t)' /\ Marked(t)' /\ Timed(t)'
  <2>0. Given(t) /\ Marked(t) /\ Timed(t)
        BY DEF IInv
  <2>1. Given(t)'
        BY <1>1, <2>0 DEF Given, Using
  <2>2. Marked(t)'
        BY <1>1, <1>2, <2>0, SMT DEF Marked
  <2>3. Timed(t)'
    <3>1. CASE t = s
          BY <1>2, <3>1 DEF Timed
    <3>2. CASE t # s
          BY <1>1, <1>2, <2>0, <3>2, SMT DEF Timed
    <3> QED BY <3>1, <3>2
  <2> QED BY <2>1, <2>2, <2>3
<1> QED BY <1>1, <1>3, <1>4, <1>5, <1>6 DEF IInv

\* tearDown of the streams in S, whoever calls it: before Stop they live and
\* are taken out of the map, so that no quit channel is closed again and no
\* stream left in the map is without its timer.
LEMMA TearDownKeeps ==
    ASSUME IInv, NEW S \in SUBSET Stream, tearDown(S),
           streams' \in [Id -> Stream \union {None}],
           \A i \in Id : streams'[i] \in {streams[i], None},
           pending' \in [Stream -> 0..MaxPending],
           \A s \in Stream : /\ pending'[s] > 0 => pending[s] > 0
                             /\ pending'[s] = pending[s] \/ s \in S
                                    \/ \A i \in Id : streams[i] # s,
           stopped' \in BOOLEAN, stopped => stopped',
           ~stopped' => /\ \A s \in S : state[s] # "down"
                        /\ \A i \in Id : streams'[i] \notin S
    PROVE  IInv'
<1>1. UNCHANGED <<id, occupied, holder, pc, at, side, gone>>
      BY DEF tearDown, handlerVars
<1>2. \A s \in S : state'[s] = "down" /\ armed'[s] = FALSE
      BY DEF tearDown
<1>3. \A s \in Stream \ S : state'[s] = state[s] /\ armed'[s] = armed[s]
      BY DEF tearDown
<1>4. TypeOK'
  <2>1. /\ state' \in [Stream -> {"none", "live", "down"}]
        /\ armed' \in [Stream -> BOOLEAN]
        BY DEF IInv, TypeOK, tearDown
  <2>2. inPipe' \in [Stream -> 0..Capacity]
        BY HashMailAssumption, SMT DEF IInv, TypeOK, tearDown
  <2>3. eof' \in [Stream -> BOOLEAN] /\ panicked' \in BOOLEAN
        BY DEF IInv, TypeOK, tearDown
  <2> QED BY <1>1, <2>1, <2>2, <2>3 DEF IInv, TypeOK
<1>5. \A h \in Handler : Taken(h)'
      BY <1>1 DEF IInv, Taken, Using
<1>6. ASSUME NEW i \in Id
      PROVE  Registered(i)'
      BY <1>1, <1>3, SMT DEF IInv, Registered
<1>7. ASSUME NEW s \in Stream
      PROVE  Given(s)' /\ Marked(s)' /\ Timed(s)'
  <2>0. Given(s) /\ Marked(s) /\ Timed(s)
        BY DEF IInv
  <2>1. Given(s)'
        BY <1>1, <2>0 DEF Given, Using
  <2>2. Marked(s)'
        BY <1>1, <1>2, <1>3, <2>0 DEF Marked
  <2>3. Timed(s)'
    <3>1. CASE s \in S
          BY <1>2, <3>1 DEF Timed
    <3>2. CASE s \notin S
      <4> SUFFICES ASSUME StaleTimer, state'[s] = "live",
                          NEW i \in Id, streams'[i] = s,
                          \A h \in Handler : at'[h] # s
                   PROVE  armed'[s] \/ pending'[s] > 0
          BY DEF Timed
      <4>1. streams[i] = s
            BY HashMailAssumption
      <4>2. armed[s] \/ pending[s] > 0
            BY <1>1, <1>3, <2>0, <3>2, <4>1 DEF Timed
      <4> QED BY <1>3, <3>2, <4>1, <4>2
    <3> QED BY <3>1, <3>2
  <2> QED BY <2>1, <2>2, <2>3
<1>8. panicked' => stopped'
      BY DEF tearDown
<1> QED BY <1>4, <1>5, <1>6, <1>7, <1>8 DEF IInv

\* TearDownStream: the stream that the map leads to.
LEMMA TearDownStreamKeeps ==
    ASSUME IInv, NEW i \in Id, TearDownStream(i)
    PROVE  IInv'
<1> DEFINE t == streams[i]
<1>1. t \in Stream /\ id[t] = i /\ (stopped \/ state[t] = "live")
      BY SMT DEF IInv, TypeOK, Registered, TearDownStream
<1>2. /\ tearDown({t}) /\ streams' = [streams EXCEPT ![i] = None]
      /\ UNCHANGED <<pending, stopped>>
      BY DEF TearDownStream
<1>3. /\ streams' \in [Id -> Stream \union {None}]
      /\ \A j \in Id : streams'[j] \in {streams[j], None}
      BY <1>2 DEF IInv, TypeOK
<1>4. \A j \in Id : streams'[j] \notin {t}
      BY <1>1, <1>2, HashMailAssumption, SMT DEF IInv, TypeOK, Registered
<1>5. pending \in [Stream -> 0..MaxPending] /\ stopped \in BOOLEAN
      BY DEF IInv, TypeOK
<1> HIDE DEF t
<1> QED BY <1>1, <1>2, <1>3, <1>4, <1>5, TearDownKeeps

\* tearDownStaleStream: the callback goes by id, and finds the map empty or a
\* live stream there, which may be another one than its own.
LEMMA StaleKeeps ==
    ASSUME IInv, NEW s \in Stream, tearDownStaleStream(s)
    PROVE  IInv'
<1> DEFINE i == id[s]
           t == streams[i]
<1>1. i \in Id /\ pending[s] > 0 /\ UNCHANGED stopped
      BY DEF IInv, Marked, tearDownStaleStream
<1>2. pending' = [pending EXCEPT ![s] = pending[s] - 1]
      BY DEF tearDownStaleStream
<1>3. /\ pending' \in [Stream -> 0..MaxPending]
      /\ \A u \in Stream : pending'[u] > 0 => pending[u] > 0
      /\ \A u \in Stream : u # s => pending'[u] = pending[u]
  <2>1. pending \in [Stream -> 0..MaxPending]
        BY DEF IInv, TypeOK
  <2>2. pending[s] - 1 \in 0..MaxPending
        BY <1>1, <2>1, HashMailAssumption, SMT
  <2> QED BY <1>1, <1>2, <2>1, <2>2
<1>4. \A j \in Id : streams[j] = s => j = i
      BY HashMailAssumption DEF IInv, Registered
<1>5. CASE t = None
  <2>1. UNCHANGED <<streams, id, state, holder, occupied, armed, inPipe, eof,
                    pc, at, side, gone, panicked>>
        BY <1>5 DEF tearDownStaleStream, handlerVars
  <2>2. \A j \in Id : streams[j] # s
        BY <1>4, <1>5, HashMailAssumption
  <2>3. TypeOK'
        BY <1>1, <1>3, <2>1 DEF IInv, TypeOK
  <2>4. (\A h \in Handler : Taken(h)') /\ (\A j \in Id : Registered(j)')
        BY <1>1, <2>1 DEF IInv, Taken, Using, Registered
  <2>5. ASSUME NEW u \in Stream
        PROVE  Given(u)' /\ Marked(u)' /\ Timed(u)'
    <3>0. Given(u) /\ Marked(u) /\ Timed(u)
          BY DEF IInv
    <3>1. Given(u)'
          BY <2>1, <3>0 DEF Given, Using
    <3>2. Marked(u)'
      <4>1. Marked(u)
            BY DEF IInv
      <4>2. pending'[u] > 0 => pending[u] > 0
            BY <1>3
      <4> QED BY <2>1, <4>1, <4>2 DEF Marked
    <3>3. Timed(u)'
      <4>1. Timed(u)
            BY DEF IInv
      <4>2. u # s => pending'[u] = pending[u]
            BY <1>3
      <4> QED BY <2>1, <2>2, <4>1, <4>2 DEF Timed
    <3> QED BY <3>1, <3>2, <3>3
  <2> QED BY <1>1, <2>1, <2>3, <2>4, <2>5 DEF IInv
<1>6. CASE t # None
  <2>1. t \in Stream /\ id[t] = i /\ (stopped \/ state[t] = "live")
        BY <1>1, <1>6, SMT DEF IInv, TypeOK, Registered
  <2>2. tearDown({t}) /\ streams' = [streams EXCEPT ![i] = None]
        BY <1>6 DEF tearDownStaleStream
  <2>3. /\ streams' \in [Id -> Stream \union {None}]
        /\ \A j \in Id : streams'[j] \in {streams[j], None}
        BY <2>2 DEF IInv, TypeOK
  <2>4. \A j \in Id : streams'[j] \notin {t}
        BY <1>1, <2>1, <2>2, HashMailAssumption, SMT DEF IInv, TypeOK,
           Registered
  <2>5. \A u \in Stream : pending'[u] = pending[u] \/ u \in {t}
                              \/ \A j \in Id : streams[j] # u
        BY <1>3, <1>4
  <2>6. stopped \in BOOLEAN
        BY DEF IInv, TypeOK
  <2> HIDE DEF t
  <2> QED BY <1>1, <1>3, <2>1, <2>2, <2>3, <2>4, <2>5, <2>6, TearDownKeeps, SMT
<1> QED BY <1>5, <1>6

\* Stop: every stream of the map, which stays in it.
LEMMA StopKeeps ==
    ASSUME IInv, Stop
    PROVE  IInv'
<1> DEFINE S == {streams[i] : i \in Id} \ {None}
<1>1. S \in SUBSET Stream
      BY SMT DEF IInv, TypeOK
<1>2. tearDown(S) /\ stopped' = TRUE /\ UNCHANGED <<streams, pending>>
      BY DEF Stop
<1>3. /\ streams \in [Id -> Stream \union {None}]
      /\ pending \in [Stream -> 0..MaxPending]
      BY DEF IInv, TypeOK
<1> HIDE DEF S
<1> QED BY <1>1, <1>2, <1>3, TearDownKeeps

\* Every step keeps the invariant.
LEMMA Inductive == IInv /\ [Next]_vars => IInv'
<1> SUFFICES ASSUME IInv, [Next]_vars
             PROVE  IInv'
    OBVIOUS
<1>1. CASE UNCHANGED vars
  <2>1. TypeOK' /\ (panicked' => stopped')
        BY <1>1 DEF IInv, TypeOK, vars
  <2>2. (\A h \in Handler : Taken(h)') /\ (\A i \in Id : Registered(i)')
        BY <1>1 DEF IInv, Taken, Using, Registered, vars
  <2>3. \A s \in Stream : Given(s)' /\ Marked(s)' /\ Timed(s)'
        BY <1>1, SMT DEF IInv, Given, Using, Marked, Timed, vars
  <2> QED BY <2>1, <2>2, <2>3 DEF IInv
<1>2. ASSUME NEW h \in Handler, HangUp(h) \/ BeginWrite(h) \/ Proceed(h)
      PROVE  IInv'
      BY <1>2, AtWorkKeeps, StreamTakenKeeps, ReturnStreamKeeps,
         StreamReturnedKeeps DEF Proceed
<1>3. ASSUME NEW s \in Stream, TimerFires(s) \/ tearDownStaleStream(s)
      PROVE  IInv'
      BY <1>3, TimerFiresKeeps, StaleKeeps
<1> QED BY <1>1, <1>2, <1>3, LookUpKeeps, InitStreamKeeps, TearDownStreamKeeps,
           StopKeeps DEF Next

\* The invariant holds in every reachable state of the server.
THEOREM Invariant == Spec => []IInv
<1>1. Init => IInv
  <2> SUFFICES ASSUME Init
               PROVE  IInv
      OBVIOUS
  <2>1. TypeOK
    <3>1. 0 \in 0..MaxPending /\ 0 \in 0..Capacity
          BY HashMailAssumption, SMT
    <3> QED BY <3>1 DEF Init, TypeOK
  <2>2. \A h \in Handler : Taken(h)
        BY DEF Init, Taken, Using
  <2>3. \A i \in Id : Registered(i)
        BY DEF Init, Registered
  <2>4. ASSUME NEW s \in Stream
        PROVE  Given(s) /\ Marked(s) /\ Timed(s)
    <3>1. Given(s)
          BY HashMailAssumption DEF Init, Given
    <3>2. Marked(s)
          BY SMT DEF Init, Marked
    <3>3. Timed(s)
          BY DEF Init, Timed
    <3> QED BY <3>1, <3>2, <3>3
  <2> QED BY <2>1, <2>2, <2>3, <2>4 DEF Init, IInv
<1> QED BY <1>1, Inductive, PTL DEF Spec

-----------------------------------------------------------------------------
\* Two handlers never use the same end of the same stream: a user of an end is
\* its holder.
THEOREM OneUserPerEndHolds == Spec => []OneUserPerEnd
<1>1. IInv => OneUserPerEnd
      BY DEF IInv, Taken, OneUserPerEnd
<1> QED BY <1>1, Invariant, PTL

\* Before Stop no timer, client or late callback closes a quit channel twice.
THEOREM TornDownOnceHolds == Spec => []TornDownOnce
<1>1. IInv => TornDownOnce
      BY DEF IInv, TornDownOnce
<1> QED BY <1>1, Invariant, PTL

\* A registered stream that no handler is at has its timer running or its
\* callback under way, so that it does not stay for ever.
THEOREM IdleIsTimedHolds == Spec => []IdleIsTimed
<1>1. IInv => IdleIsTimed
      BY DEF IInv, Timed, IdleIsTimed
<1> QED BY <1>1, Invariant, PTL

-----------------------------------------------------------------------------
(***************************************************************************)
(* The bytes of one stream (MailPipe), for frames of any lengths and       *)
(* buffers of any size.  The two goroutines cut and join bytes without     *)
(* knowing where a message ends: that a reader is given whole messages     *)
(* rests on an invariant about where the cuts are, always behind a         *)
(* multiple of the buffer's size or at the end of a frame.                 *)
(***************************************************************************)
CONSTANTS FrameLen, BufSize, CopySize, MaxMsg, MayClose
VARIABLES sent, writing, copying, cutter, chunk, hand, got, closed

\* The stream, under its own names.
Pipe == INSTANCE MailPipe

\* A number of whole buffers.
Multiple(x) == \E k \in Nat : x = k * BufSize

\* No frame fills the buffer of the cutting goroutine exactly.
Framed ==
    /\ Pipe!MailPipeAssumption
    /\ \A len \in FrameLen : len % BufSize # 0

\* What the proof uses of the sizes.
Sizes ==
    /\ FrameLen \subseteq Nat \ {0}
    /\ BufSize \in Nat \ {0} /\ CopySize \in Nat \ {0} /\ MaxMsg \in Nat
    /\ Multiple(CopySize)
    /\ \A len \in FrameLen : ~Multiple(len)

\* The remainders of MailPipe's assumption as multiples.
LEMMA SizesFit == Framed => Sizes
<1> SUFFICES ASSUME Framed PROVE Sizes
    OBVIOUS
<1>1. /\ FrameLen \subseteq Nat \ {0}
      /\ BufSize \in Nat \ {0} /\ CopySize \in Nat \ {0} /\ MaxMsg \in Nat
      /\ CopySize % BufSize = 0
      BY DEF Framed
<1>2. Multiple(CopySize)
  <2>1. CopySize \div BufSize \in Nat
        BY <1>1, SMT
  <2>2. CopySize = (CopySize \div BufSize) * BufSize
        BY <1>1, SMTT(30)
  <2> QED BY <2>1, <2>2 DEF Multiple
<1>3. ASSUME NEW len \in FrameLen, Multiple(len)
      PROVE  FALSE
  <2>1. PICK k \in Nat : len = k * BufSize
        BY <1>3 DEF Multiple
  <2>2. len % BufSize = 0
        BY <1>1, <2>1, SMT
  <2> QED BY <1>3, <2>2 DEF Framed
<1> QED BY <1>1, <1>2, <1>3 DEF Sizes

\* Sums and differences of whole buffers, and that there is none between 0 and
\* the first.
LEMMA Multiples ==
    ASSUME Sizes, NEW x \in Nat, Multiple(x)
    PROVE  /\ \A y \in Nat : Multiple(y) => Multiple(x + y)
           /\ x >= BufSize => Multiple(x - BufSize)
           /\ x < BufSize => x = 0
<1>1. BufSize \in Nat \ {0}
      BY DEF Sizes
<1>2. PICK i \in Nat : x = i * BufSize
      BY DEF Multiple
<1>3. ASSUME NEW y \in Nat, Multiple(y)
      PROVE  Multiple(x + y)
  <2>1. PICK j \in Nat : y = j * BufSize
        BY <1>3 DEF Multiple
  <2>2. \A a, b, c \in Nat : (a + b) * c = a * c + b * c
        BY SMT
  <2>3. x + y = (i + j) * BufSize /\ i + j \in Nat
        BY <1>1, <1>2, <2>1, <2>2, SMT
  <2> QED BY <2>3 DEF Multiple
<1>4. ASSUME x >= BufSize
      PROVE  Multiple(x - BufSize)
  <2>1. x - BufSize = (i - 1) * BufSize /\ i - 1 \in Nat
        BY <1>1, <1>2, <1>4, SMT
  <2> QED BY <2>1 DEF Multiple
<1>5. ASSUME x < BufSize
      PROVE  x = 0
  <2>1. i > 0 => x >= BufSize
        BY <1>1, <1>2, SMT
  <2>2. i = 0
        BY <1>1, <1>2, <1>5, <2>1, SMT
  <2> QED BY <1>1, <1>2, <2>2, SMT
<1> QED BY <1>3, <1>4, <1>5

\* No buffer, and one.
LEMMA MultipleBase == Sizes => Multiple(0) /\ Multiple(BufSize)
<1> SUFFICES ASSUME Sizes PROVE Multiple(0) /\ Multiple(BufSize)
    OBVIOUS
<1>1. 0 \in Nat /\ 1 \in Nat /\ 0 = 0 * BufSize /\ BufSize = 1 * BufSize
      BY SMT DEF Sizes
<1> QED BY <1>1 DEF Multiple

\* Take and Rest split a sequence.
LEMMA TakeRest ==
    ASSUME NEW S, NEW s \in Seq(S), NEW n \in Nat
    PROVE  /\ Pipe!AtMost(n, s) \in 0..Len(s) /\ Pipe!AtMost(n, s) <= n
           /\ Pipe!Take(n, s) \in Seq(S) /\ Pipe!Rest(n, s) \in Seq(S)
           /\ Len(Pipe!Take(n, s)) = Pipe!AtMost(n, s)
           /\ Len(Pipe!Rest(n, s)) = Len(s) - Pipe!AtMost(n, s)
           /\ \A j \in 1..Pipe!AtMost(n, s) : Pipe!Take(n, s)[j] = s[j]
           /\ \A j \in 1..(Len(s) - Pipe!AtMost(n, s)) :
                  Pipe!Rest(n, s)[j] = s[Pipe!AtMost(n, s) + j]
           /\ Pipe!Take(n, s) \o Pipe!Rest(n, s) = s
<1> DEFINE a == Pipe!AtMost(n, s)
<1>1. Len(s) \in Nat /\ a \in 0..Len(s) /\ a <= n
      BY SMT DEF Pipe!AtMost
<1>2. /\ Pipe!Take(n, s) = SubSeq(s, 1, a)
      /\ Pipe!Rest(n, s) = SubSeq(s, a + 1, Len(s))
      BY DEF Pipe!Take, Pipe!Rest
<1> HIDE DEF a
<1>3. /\ SubSeq(s, 1, a) \in Seq(S) /\ SubSeq(s, a + 1, Len(s)) \in Seq(S)
      /\ Len(SubSeq(s, 1, a)) = a /\ Len(SubSeq(s, a + 1, Len(s))) = Len(s) - a
      /\ \A j \in 1..a : SubSeq(s, 1, a)[j] = s[j]
      /\ \A j \in 1..(Len(s) - a) : SubSeq(s, a + 1, Len(s))[j] = s[a + j]
      BY <1>1, SMT
<1>4. SubSeq(s, 1, a) \o SubSeq(s, a + 1, Len(s)) = s
  <2>1. SubSeq(s, 1, a) \o SubSeq(s, a + 1, Len(s)) = SubSeq(s, 1, Len(s))
    <3>1. /\ 1 \in 1..(Len(s) + 1) /\ a \in (1 - 1)..Len(s)
          /\ Len(s) \in a..Len(s)
          BY <1>1, SMT
    <3> QED BY <3>1, ConcatAdjacentSubSeq
  <2> QED BY <2>1, SubSeqFull
<1> QED BY <1>1, <1>2, <1>3, <1>4 DEF a

\* Where the bytes of three sequences are when they are joined.
LEMMA Joined ==
    ASSUME NEW S, NEW a \in Seq(S), NEW b \in Seq(S), NEW c \in Seq(S)
    PROVE  /\ a \o b \o c \in Seq(S)
           /\ Len(a \o b \o c) = Len(a) + Len(b) + Len(c)
           /\ \A j \in 1..Len(a) : (a \o b \o c)[j] = a[j]
           /\ \A j \in 1..Len(b) : (a \o b \o c)[Len(a) + j] = b[j]
           /\ \A j \in 1..Len(c) : (a \o b \o c)[Len(a) + Len(b) + j] = c[j]
  BY SMT

\* Where the elements of an extended sequence come from.
LEMMA Appended ==
    ASSUME NEW S, NEW s \in Seq(S), NEW e \in S
    PROVE  /\ Append(s, e) \in Seq(S) /\ Len(Append(s, e)) = Len(s) + 1
           /\ \A n \in 1..Len(Append(s, e)) :
                  \/ n = Len(s) + 1 /\ Append(s, e)[n] = e
                  \/ n \in 1..Len(s) /\ Append(s, e)[n] = s[n]
  BY SMT

-----------------------------------------------------------------------------
\* Byte c comes after byte b in a stream with frames of the lengths in st.
Follows(st, b, c) ==
    \/ c[1] = b[1] /\ b[2] < st[b[1]] /\ c[2] = b[2] + 1
    \/ c[1] = b[1] + 1 /\ b[2] = st[b[1]] /\ c[2] = 1

\* Byte b is one of the frames of the lengths in st.
InStream(st, b) == b[1] \in 1..Len(st) /\ b[2] \in 1..st[b[1]]

\* The bytes inside are consecutive, from the first of a message to the last
\* that was written, unless the stream is torn down.
Streamed(bytes, st, down) ==
    /\ \A n \in 1..Len(bytes) : InStream(st, bytes[n])
    /\ \A m, n \in 1..Len(bytes) : m <= n => bytes[m][1] <= bytes[n][1]
    /\ \A n \in 1..(Len(bytes) - 1) : Follows(st, bytes[n], bytes[n + 1])
    /\ bytes # <<>> => bytes[1][2] = 1
    /\ bytes # <<>> /\ ~down =>
           bytes[Len(bytes)] = <<Len(st), st[Len(st)]>>

\* Consecutive bytes of one message, which begin where a buffer does.
Part(bytes) ==
    bytes # <<>> =>
        /\ Multiple(bytes[1][2] - 1)
        /\ \A j \in 1..Len(bytes) :
               bytes[j] = <<bytes[1][1], bytes[1][2] + j - 1>>

\* A round of io.Copy fills whole buffers, or ends with a frame.
Copying ==
    /\ Part(copying) /\ Part(writing)
    /\ copying # <<>> => \/ Multiple(Len(copying))
                         \/ copying[Len(copying)][2] = sent[copying[1][1]]
    /\ closed => writing = <<>>

\* The chunk is the beginning of one frame, and all of it when it is offered.
Cutting ==
    /\ chunk # <<>> <=> cutter \in {"more", "offer"}
    /\ \A j \in 1..Len(chunk) : chunk[j] = <<chunk[1][1], j>>
    /\ cutter = "more" =>
           Multiple(Len(chunk)) /\ Len(chunk) < sent[chunk[1][1]]
    /\ cutter = "offer" => Len(chunk) = sent[chunk[1][1]]
    /\ cutter = "done" => closed /\ copying = <<>>

\* A frame as it was written.
IsFrame(bytes) ==
    LET k == Pipe!NumberOf(bytes)
    IN  k \in 1..Len(sent) /\ bytes = Pipe!Frame(k, sent[k])

\* The inductive invariant of the stream.
PInv ==
    /\ Pipe!TypeOK
    /\ Streamed(Pipe!Bytes, sent, closed)
    /\ Copying
    /\ Cutting
    /\ hand # <<>> => IsFrame(hand)
    /\ \A n \in 1..Len(got) : IsFrame(got[n])

\* The invariant holds of a new stream.
LEMMA PipeInit == Sizes /\ Pipe!Init => PInv
<1> SUFFICES ASSUME Sizes, Pipe!Init PROVE PInv
    OBVIOUS
<1> USE DEF Pipe!Init
<1>1. Pipe!TypeOK
  <2>1. MaxMsg \in Nat
        BY DEF Sizes
  <2>2. /\ \A S : <<>> \in Seq(S)
        /\ Len(<<>>) <= MaxMsg
        BY <2>1, SMT
  <2> QED BY <2>2 DEF Pipe!TypeOK
<1>2. Pipe!Bytes = <<>>
      BY SMT DEF Pipe!Bytes
<1>3. Streamed(Pipe!Bytes, sent, closed)
      BY <1>2, SMT DEF Streamed
<1>4. Copying /\ Cutting
      BY SMT DEF Copying, Cutting, Part
<1> QED BY <1>1, <1>3, <1>4, SMT DEF PInv

\* RecvStream's Send passes on a whole frame, or loses it.
LEMMA PipeSend ==
    ASSUME PInv, Pipe!Send \/ Pipe!SendFails
    PROVE  PInv'
<1>1. /\ hand # <<>> /\ hand' = <<>>
      /\ got' = got \/ got' = Append(got, hand)
      /\ UNCHANGED <<sent, writing, copying, cutter, chunk, closed>>
      BY DEF Pipe!Send, Pipe!SendFails
<1>2. Pipe!TypeOK
      BY DEF PInv
<1>3. got' \in Seq(Seq(Pipe!Byte))
      BY <1>2, <1>1, Appended DEF Pipe!TypeOK
<1>4. Pipe!TypeOK'
  <2>1. \A S : <<>> \in Seq(S)
        BY SMT
  <2> QED BY <1>2, <1>1, <1>3, <2>1 DEF Pipe!TypeOK
<1>5. Streamed(Pipe!Bytes, sent, closed)' /\ Copying' /\ Cutting'
      BY <1>1 DEF PInv, Pipe!Bytes, Copying, Cutting
<1>6. \A b : IsFrame(b)' <=> IsFrame(b)
      BY <1>1 DEF IsFrame
<1>7. (\A n \in 1..Len(got) : IsFrame(got[n]))'
  <2>1. got \in Seq(Seq(Pipe!Byte)) /\ hand \in Seq(Pipe!Byte)
        BY DEF PInv, Pipe!TypeOK
  <2>2. \A n \in 1..Len(got') :
            got'[n] = hand \/ (n \in 1..Len(got) /\ got'[n] = got[n])
    <3>1. CASE got' = got
          BY <3>1
    <3>2. CASE got' = Append(got, hand)
      <4>1. \A n \in 1..Len(Append(got, hand)) :
                \/ Append(got, hand)[n] = hand
                \/ n \in 1..Len(got) /\ Append(got, hand)[n] = got[n]
            BY <2>1, Appended, SMT
      <4> QED BY <3>2, <4>1
    <3> QED BY <1>1, <3>1, <3>2
  <2> QED BY <1>1, <1>6, <2>2 DEF PInv
<1> QED BY <1>1, <1>4, <1>5, <1>7 DEF PInv

\* The messages handed out are frames as long as the lengths are known.
LEMMA FramesKept ==
    ASSUME NEW b, IsFrame(b), sent \in Seq(FrameLen),
           \/ sent' = sent
           \/ \E len \in FrameLen : sent' = Append(sent, len)
    PROVE  IsFrame(b)'
<1> DEFINE k == Pipe!NumberOf(b)
<1>1. k' = k /\ k \in 1..Len(sent) /\ b = Pipe!Frame(k, sent[k])
      BY DEF IsFrame
<1> HIDE DEF k
<1>2. k \in 1..Len(sent') /\ sent'[k] = sent[k]
      BY <1>1, SMT
<1> QED BY <1>1, <1>2 DEF IsFrame, k

\* The two halves of a part that is split where a buffer ends.
LEMMA PartSplit ==
    ASSUME Sizes, NEW s \in Seq(Pipe!Byte), Part(s), s # <<>>,
           NEW n \in Nat \ {0}, Multiple(n)
    PROVE  /\ Part(Pipe!Take(n, s)) /\ Part(Pipe!Rest(n, s))
           /\ Pipe!Take(n, s) # <<>> /\ Pipe!Take(n, s)[1] = s[1]
<1> DEFINE t == Pipe!Take(n, s)
           r == Pipe!Rest(n, s)
           a == Pipe!AtMost(n, s)
           m == s[1][1]
           p == s[1][2]
<1>1. /\ a \in 0..Len(s)
      /\ t \in Seq(Pipe!Byte) /\ r \in Seq(Pipe!Byte)
      /\ Len(t) = a /\ Len(r) = Len(s) - a
      /\ \A j \in 1..a : t[j] = s[j]
      /\ \A j \in 1..(Len(s) - a) : r[j] = s[a + j]
      BY TakeRest
<1>2. a > 0 /\ (a = n \/ a = Len(s)) /\ Len(s) \in Nat \ {0}
      BY SMT DEF Pipe!AtMost
<1>3. s[1] \in Pipe!Byte
      BY <1>2, SMT
<1>4. m \in Nat /\ p \in Nat \ {0}
      BY <1>3, SMT DEF Pipe!Byte
<1>5. Multiple(p - 1) /\ \A j \in 1..Len(s) : s[j] = <<m, p + j - 1>>
      BY DEF Part
<1> HIDE DEF t, r, a, m, p
<1>6. t # <<>> /\ t[1] = s[1]
      BY <1>1, <1>2, SMT
<1>7. Part(t)
      BY <1>1, <1>2, <1>5, <1>6, SMT DEF Part, m, p
<1>8. ASSUME r # <<>>
      PROVE  Part(r)
  <2>1. a = n /\ Len(r) \in Nat \ {0}
        BY <1>1, <1>2, <1>8, SMT
  <2>2. r[1] = <<m, p + n>>
    <3>1. /\ 1 \in 1..(Len(s) - a) /\ n + 1 \in 1..Len(s)
          /\ p + (n + 1) - 1 = p + n
          BY <1>1, <1>4, <2>1, SMT
    <3>2. r[1] = s[n + 1] /\ s[n + 1] = <<m, p + (n + 1) - 1>>
          BY <1>1, <1>5, <2>1, <3>1
    <3> QED BY <3>1, <3>2
  <2>3. Multiple((p + n) - 1)
    <3>1. Multiple((p - 1) + n)
          BY <1>4, <1>5, Multiples, SMT
    <3> QED BY <1>4, <3>1, SMT
  <2>4. \A j \in 1..Len(r) : r[j] = <<m, p + n + j - 1>>
    <3> TAKE j \in 1..Len(r)
    <3>1. n + j \in 1..Len(s) /\ p + (n + j) - 1 = p + n + j - 1
          BY <1>1, <1>4, <2>1, SMT
    <3>2. r[j] = s[n + j]
          BY <1>1, <2>1
    <3>3. s[n + j] = <<m, p + (n + j) - 1>>
          BY <1>5, <3>1
    <3> QED BY <3>1, <3>2, <3>3
  <2>5. r[1][1] = m /\ r[1][2] = p + n
        BY <2>2, SMT
  <2>6. Multiple(r[1][2] - 1)
        BY <2>3, <2>5
  <2>7. \A j \in 1..Len(r) : r[j] = <<r[1][1], r[1][2] + j - 1>>
        BY <2>4, <2>5
  <2> QED BY <2>6, <2>7 DEF Part
<1> QED BY <1>6, <1>7, <1>8 DEF t, r, Part

\* io.Copy moves bytes on.
LEMMA PipeCopy ==
    ASSUME Sizes, PInv, Pipe!Copy
    PROVE  PInv' /\ Pipe!Bytes' = Pipe!Bytes
<1> DEFINE B == Pipe!Byte
           t == Pipe!Take(CopySize, writing)
           r == Pipe!Rest(CopySize, writing)
           a == Pipe!AtMost(CopySize, writing)
<1>1. /\ writing # <<>> /\ copying = <<>> /\ copying' = t /\ writing' = r
      /\ UNCHANGED <<sent, cutter, chunk, hand, got, closed>>
      BY DEF Pipe!Copy
<1>2. /\ writing \in Seq(B) /\ copying \in Seq(B) /\ chunk \in Seq(B)
      /\ CopySize \in Nat \ {0} /\ Multiple(CopySize)
      BY DEF PInv, Pipe!TypeOK, Sizes
<1>3. /\ a \in 0..Len(writing) /\ a <= CopySize
      /\ t \in Seq(B) /\ r \in Seq(B)
      /\ Len(t) = a /\ Len(r) = Len(writing) - a
      /\ \A j \in 1..a : t[j] = writing[j]
      /\ \A j \in 1..(Len(writing) - a) : r[j] = writing[a + j]
      /\ t \o r = writing
      BY <1>2, TakeRest
<1>4. a > 0 /\ (a = CopySize \/ a = Len(writing))
      BY <1>1, <1>2, SMT DEF Pipe!AtMost
<1> HIDE DEF B, t, r, a
<1>5. Pipe!Bytes' = Pipe!Bytes
  <2>1. (chunk \o t) \o r = chunk \o (t \o r)
    <3>1. chunk \in Seq(B) /\ t \in Seq(B) /\ r \in Seq(B)
          BY <1>2, <1>3
    <3> QED BY <3>1, SMT
  <2>2. (chunk \o <<>>) \o writing = chunk \o writing
        BY <1>2, ConcatEmptySeq
  <2> QED BY <1>1, <1>3, <2>1, <2>2 DEF Pipe!Bytes
<1>6. Pipe!TypeOK'
      BY <1>1, <1>3 DEF PInv, Pipe!TypeOK, B
<1>7. Part(t) /\ Part(r) /\ t # <<>> /\ t[1] = writing[1]
      BY <1>1, <1>2, PartSplit DEF PInv, Copying, B, t, r
<1>8. ~closed
      BY <1>1 DEF PInv, Copying
<1>9. Multiple(Len(t)) \/ t[Len(t)][2] = sent[t[1][1]]
  <2>1. CASE a = CopySize
        BY <1>2, <1>3, <2>1
  <2>2. CASE a = Len(writing)
    <3>1. /\ Pipe!Bytes # <<>>
          /\ Pipe!Bytes[Len(Pipe!Bytes)] = writing[Len(writing)]
          BY <1>1, <1>2, SMT DEF Pipe!Bytes
    <3>2. writing[Len(writing)] = <<Len(sent), sent[Len(sent)]>>
          BY <1>8, <3>1 DEF PInv, Streamed
    <3>3. writing[Len(writing)][1] = writing[1][1]
          BY <1>1, <1>2, SMT DEF PInv, Copying, Part
    <3>4. t[Len(t)] = writing[Len(writing)]
          BY <1>3, <1>4, <2>2, SMT
    <3> QED BY <1>7, <3>2, <3>3, <3>4, SMT
  <2> QED BY <1>4, <2>1, <2>2
<1>10. Copying'
       BY <1>1, <1>7, <1>8, <1>9 DEF Copying
<1>11. Cutting'
       BY <1>1, <1>8 DEF PInv, Cutting
<1>12. Streamed(Pipe!Bytes, sent, closed)'
       BY <1>1, <1>5 DEF PInv
<1> QED BY <1>1, <1>5, <1>6, <1>10, <1>11, <1>12 DEF PInv, IsFrame

\* Where the bytes inside come from.
LEMMA BytesAt ==
    ASSUME PInv
    PROVE  /\ Pipe!Bytes \in Seq(Pipe!Byte)
           /\ Len(Pipe!Bytes) = Len(chunk) + Len(copying) + Len(writing)
           /\ \A j \in 1..Len(chunk) : Pipe!Bytes[j] = chunk[j]
           /\ \A j \in 1..Len(copying) :
                  Pipe!Bytes[Len(chunk) + j] = copying[j]
           /\ \A j \in 1..Len(writing) :
                  Pipe!Bytes[Len(chunk) + Len(copying) + j] = writing[j]
           /\ Len(chunk) \in Nat /\ Len(copying) \in Nat
           /\ Len(writing) \in Nat
<1>1. /\ chunk \in Seq(Pipe!Byte) /\ copying \in Seq(Pipe!Byte)
      /\ writing \in Seq(Pipe!Byte)
      BY DEF PInv, Pipe!TypeOK
<1>2. Len(chunk) \in Nat /\ Len(copying) \in Nat /\ Len(writing) \in Nat
      BY <1>1, SMT
<1> QED BY <1>1, <1>2, Joined, SMT DEF Pipe!Bytes

\* A byte has two parts, and the first one of a part and its length give the

\* others.
LEMMA PartAt ==
    ASSUME NEW s \in Seq(Pipe!Byte), Part(s), s # <<>>
    PROVE  /\ Len(s) \in Nat \ {0}
           /\ s[1][1] \in Nat /\ s[1][2] \in Nat \ {0} /\ Multiple(s[1][2] - 1)
           /\ \A j \in 1..Len(s) :
                  s[j][1] = s[1][1] /\ s[j][2] = s[1][2] + j - 1
<1>1. Len(s) \in Nat \ {0} /\ s[1] \in Pipe!Byte
      BY SMT
<1>2. s[1][1] \in Nat /\ s[1][2] \in Nat \ {0}
      BY <1>1, SMT DEF Pipe!Byte
<1>3. Multiple(s[1][2] - 1)
      BY DEF Part
<1>4. \A j \in 1..Len(s) : s[j] = <<s[1][1], s[1][2] + j - 1>>
      BY DEF Part
<1>5. \A j \in 1..Len(s) : s[j][1] = s[1][1] /\ s[j][2] = s[1][2] + j - 1
      BY <1>4, SMT
<1> QED BY <1>1, <1>2, <1>3, <1>5

\* The next byte for the cutting goroutine continues its chunk, or begins one.
LEMMA NextByte ==
    ASSUME PInv, copying # <<>>, cutter \in {"read", "more"}
    PROVE  /\ copying[1][2] = Len(chunk) + 1
           /\ chunk # <<>> => chunk[1][1] = copying[1][1]
<1>1. Len(copying) \in Nat \ {0} /\ copying \in Seq(Pipe!Byte)
      BY SMT DEF PInv, Pipe!TypeOK
<1>2. Pipe!Bytes[Len(chunk) + 1] = copying[1]
      BY <1>1, BytesAt, SMT
<1>3. CASE cutter = "read"
  <2>1. chunk = <<>> /\ Len(chunk) = 0
        BY <1>3, SMT DEF PInv, Cutting
  <2>2. Pipe!Bytes # <<>> /\ Pipe!Bytes[1] = copying[1]
        BY <1>1, <1>2, <2>1, BytesAt, SMT
  <2> QED BY <2>1, <2>2, SMT DEF PInv, Streamed
<1>4. CASE cutter = "more"
  <2> DEFINE n == Len(chunk)
             c == chunk[1][1]
  <2>1. n \in Nat \ {0} /\ n < sent[c]
        BY <1>4, SMT DEF PInv, Pipe!TypeOK, Cutting
  <2>2. n \in 1..(Len(Pipe!Bytes) - 1) /\ Pipe!Bytes[n] = chunk[n]
        BY <1>1, <2>1, BytesAt, SMT
  <2>3. chunk[n] = <<c, n>>
        BY <2>1, SMT DEF PInv, Cutting
  <2>4. Follows(sent, <<c, n>>, copying[1])
        BY <1>2, <2>2, <2>3 DEF PInv, Streamed
  <2> HIDE DEF n, c
  <2>5. copying[1][1] = c /\ copying[1][2] = n + 1
        BY <2>1, <2>4, SMT DEF Follows
  <2> QED BY <2>5 DEF n, c
<1> QED BY <1>3, <1>4

\* The cutting goroutine moves bytes to its chunk: none are lost or joined to
\* those of another message.
LEMMA PipeCut ==
    ASSUME Sizes, PInv, Pipe!Cut
    PROVE  PInv' /\ Pipe!Bytes' = Pipe!Bytes
<1> DEFINE B == Pipe!Byte
           t == Pipe!Take(BufSize, copying)
           r == Pipe!Rest(BufSize, copying)
           a == Pipe!AtMost(BufSize, copying)
           n == Len(chunk)
           k == copying[1][1]
<1>1. /\ cutter \in {"read", "more"} /\ copying # <<>>
      /\ chunk' = chunk \o t /\ copying' = r
      /\ cutter' = IF Len(copying) >= BufSize THEN "more" ELSE "offer"
      /\ UNCHANGED <<sent, writing, hand, got, closed>>
      BY DEF Pipe!Cut
<1>2. /\ writing \in Seq(B) /\ copying \in Seq(B) /\ chunk \in Seq(B)
      /\ BufSize \in Nat \ {0} /\ Multiple(BufSize) /\ n \in Nat
      BY MultipleBase, SMT DEF PInv, Pipe!TypeOK, Sizes
<1>3. /\ a \in 0..Len(copying) /\ a <= BufSize
      /\ t \in Seq(B) /\ r \in Seq(B)
      /\ Len(t) = a /\ Len(r) = Len(copying) - a
      /\ \A j \in 1..a : t[j] = copying[j]
      /\ \A j \in 1..(Len(copying) - a) : r[j] = copying[a + j]
      /\ t \o r = copying
      BY <1>2, TakeRest
<1>4. /\ a > 0
      /\ Len(copying) >= BufSize => a = BufSize
      /\ Len(copying) < BufSize => a = Len(copying)
      BY <1>1, <1>2, SMT DEF Pipe!AtMost
<1>5. Part(copying) /\ Part(r)
      BY <1>1, <1>2, PartSplit DEF PInv, Copying
<1>6. /\ Len(copying) \in Nat \ {0}
      /\ \A j \in 1..Len(copying) :
             copying[j][1] = k /\ copying[j][2] = n + j
      /\ \A j \in 1..Len(copying) : copying[j] = <<k, n + j>>
  <2>1. copying[1][2] = n + 1
        BY <1>1, NextByte
  <2>2. /\ Len(copying) \in Nat \ {0}
        /\ \A j \in 1..Len(copying) :
               copying[j][1] = k /\ copying[j][2] = copying[1][2] + j - 1
        BY <1>1, <1>2, <1>5, PartAt
  <2>3. \A j \in 1..Len(copying) : copying[j] = <<k, copying[1][2] + j - 1>>
        BY <1>1, <1>5 DEF Part
  <2>4. \A j \in 1..Len(copying) : copying[1][2] + j - 1 = n + j
        BY <1>2, <2>1, <2>2, SMT
  <2> QED BY <2>2, <2>3, <2>4
<1>7. Multiple(n) /\ \A j \in 1..n : chunk[j] = <<k, j>>
  <2>1. CASE chunk = <<>>
        BY <2>1, MultipleBase, SMT
  <2>2. CASE chunk # <<>>
        BY <1>1, <2>2, NextByte DEF PInv, Cutting
  <2> QED BY <2>1, <2>2
<1> HIDE DEF B, t, r, a, n, k
<1>8. Pipe!Bytes' = Pipe!Bytes
  <2>1. (chunk \o t) \o r = chunk \o (t \o r)
    <3>1. chunk \in Seq(B) /\ t \in Seq(B) /\ r \in Seq(B)
          BY <1>2, <1>3
    <3> QED BY <3>1, SMT
  <2> QED BY <1>1, <1>3, <2>1 DEF Pipe!Bytes
<1>9. Pipe!TypeOK'
  <2>1. chunk' \in Seq(B) /\ chunk' # <<>>
        BY <1>1, <1>2, <1>3, <1>4, SMT
  <2> QED BY <1>1, <1>3, <2>1 DEF PInv, Pipe!TypeOK, B
<1>10. /\ Len(chunk') = n + a /\ n + a \in Nat \ {0} /\ chunk' # <<>>
       /\ \A j \in 1..Len(chunk') : chunk'[j] = <<k, j>>
  <2>1. Len(chunk') = n + a /\ n + a \in Nat \ {0} /\ chunk' # <<>>
    <3>1. Len(chunk \o t) = Len(chunk) + Len(t)
          BY <1>2, <1>3, ConcatProperties
    <3>2. n + a \in Nat \ {0}
          BY <1>2, <1>3, <1>4, SMT
    <3>3. Len(<<>>) = 0 /\ n + a # 0
          BY <3>2, SMT
    <3> QED BY <1>1, <1>3, <3>1, <3>2, <3>3 DEF n
  <2>2. \A j \in 1..(n + a) : chunk'[j] = IF j <= n THEN chunk[j] ELSE t[j - n]
        BY <1>1, <1>2, <1>3, SMT DEF n
  <2>3. \A j \in 1..(n + a) : chunk'[j] = <<k, j>>
    <3> TAKE j \in 1..(n + a)
    <3>1. CASE j <= n
      <4>1. j \in 1..n
            BY <1>2, <1>3, <3>1, SMT
      <4> QED BY <1>7, <2>2, <3>1, <4>1
    <3>2. CASE ~(j <= n)
      <4>1. j - n \in 1..a /\ j - n \in 1..Len(copying) /\ n + (j - n) = j
            BY <1>2, <1>3, <1>6, <3>2, SMT
      <4> QED BY <1>3, <1>6, <2>2, <3>2, <4>1
    <3> QED BY <3>1, <3>2
  <2> QED BY <2>1, <2>3
<1>11. k \in 1..Len(sent) /\ n + a <= sent[k] /\ sent[k] \in FrameLen
       /\ sent[k] \in Nat
  <2>1. n + a \in 1..Len(Pipe!Bytes) /\ Pipe!Bytes[n + a] = copying[a]
        BY <1>2, <1>3, <1>4, BytesAt, SMT DEF n
  <2>2. a \in 1..Len(copying)
        BY <1>3, <1>4, SMT
  <2>3. copying[a][1] = k /\ copying[a][2] = n + a
        BY <1>6, <2>2
  <2>4. k \in 1..Len(sent) /\ n + a \in 1..sent[k]
        BY <2>1, <2>3 DEF PInv, Streamed, InStream
  <2>5. sent[k] \in FrameLen
        BY <2>4, SMT DEF PInv, Pipe!TypeOK
  <2>6. sent[k] \in Nat
        BY <2>5 DEF Sizes
  <2> QED BY <2>4, <2>5, <2>6, SMT
<1>12. chunk'[1][1] = k
       BY <1>10, SMT
<1>13. ASSUME Len(copying) >= BufSize
       PROVE  Cutting' /\ Copying'
  <2>1. a = BufSize /\ cutter' = "more"
        BY <1>1, <1>4, <1>13
  <2>2. Multiple(n + a)
        BY <1>2, <1>7, <2>1, Multiples
  <2>3. n + a < sent[k]
    <3>1. ~Multiple(sent[k])
          BY <1>11 DEF Sizes
    <3>2. n + a # sent[k]
          BY <2>2, <3>1
    <3> QED BY <1>10, <1>11, <3>2, SMT
  <2>4. Cutting'
        BY <1>1, <1>10, <1>12, <2>1, <2>2, <2>3 DEF Cutting
  <2>5. ASSUME r # <<>>
        PROVE  Multiple(Len(r)) \/ r[Len(r)][2] = sent[r[1][1]]
    <3>1. CASE Multiple(Len(copying))
      <4>1. Multiple(Len(copying) - BufSize)
            BY <1>6, <1>13, <3>1, Multiples
      <4> QED BY <1>3, <2>1, <4>1
    <3>2. CASE copying[Len(copying)][2] = sent[k]
      <4>1. /\ 1 \in 1..(Len(copying) - a) /\ a + 1 \in 1..Len(copying)
            /\ Len(r) \in 1..(Len(copying) - a) /\ a + Len(r) = Len(copying)
            BY <1>3, <1>6, <2>5, SMT
      <4>2. r[1] = copying[a + 1] /\ r[Len(r)] = copying[a + Len(r)]
            BY <1>3, <4>1
      <4>3. r[1][1] = k /\ r[Len(r)] = copying[Len(copying)]
            BY <1>6, <4>1, <4>2
      <4> QED BY <3>2, <4>3
    <3> QED BY <1>1, <3>1, <3>2 DEF PInv, Copying, k
  <2>6. Copying'
        BY <1>1, <1>5, <2>5 DEF PInv, Copying
  <2> QED BY <2>4, <2>6
<1>14. ASSUME Len(copying) < BufSize
       PROVE  Cutting' /\ Copying'
  <2>1. a = Len(copying) /\ cutter' = "offer" /\ r = <<>>
        BY <1>1, <1>2, <1>3, <1>4, <1>6, <1>14, SMT
  <2>2. ~Multiple(Len(copying))
        BY <1>6, <1>14, Multiples, SMT
  <2>3. copying[Len(copying)][2] = sent[k]
        BY <1>1, <2>2 DEF PInv, Copying, k
  <2>4. n + a = sent[k]
        BY <1>6, <2>1, <2>3, SMT
  <2>5. Cutting'
        BY <1>1, <1>10, <1>12, <2>1, <2>4 DEF Cutting
  <2>6. Copying'
        BY <1>1, <1>5, <2>1 DEF PInv, Copying
  <2> QED BY <2>5, <2>6
<1>15. Cutting' /\ Copying'
       BY <1>2, <1>6, <1>13, <1>14, SMT
<1>16. Streamed(Pipe!Bytes, sent, closed)'
       BY <1>1, <1>8 DEF PInv
<1> QED BY <1>1, <1>8, <1>9, <1>15, <1>16 DEF PInv, IsFrame

\* What is left of a stream when bytes at its ends are dropped.
LEMMA Slice ==
    ASSUME NEW st, NEW down, NEW later, NEW m \in Nat,
           NEW b \in Seq(Pipe!Byte), NEW c \in Seq(Pipe!Byte),
           Streamed(b, st, down),
           m + Len(c) <= Len(b), \A j \in 1..Len(c) : c[j] = b[m + j],
           c # <<>> => c[1][2] = 1,
           ~later => ~down /\ m + Len(c) = Len(b)
    PROVE  Streamed(c, st, later)
<1>1. Len(b) \in Nat /\ Len(c) \in Nat
      BY SMT
<1>2. ASSUME NEW n \in 1..Len(c)
      PROVE  InStream(st, c[n])
  <2>1. m + n \in 1..Len(b)
        BY <1>1, SMT
  <2> QED BY <2>1 DEF Streamed
<1>3. ASSUME NEW i \in 1..Len(c), NEW j \in 1..Len(c), i <= j
      PROVE  c[i][1] <= c[j][1]
  <2>1. m + i \in 1..Len(b) /\ m + j \in 1..Len(b) /\ m + i <= m + j
        BY <1>1, <1>3, SMT
  <2> QED BY <2>1 DEF Streamed
<1>4. ASSUME NEW n \in 1..(Len(c) - 1)
      PROVE  Follows(st, c[n], c[n + 1])
  <2>1. /\ m + n \in 1..(Len(b) - 1) /\ n \in 1..Len(c)
        /\ n + 1 \in 1..Len(c) /\ (m + n) + 1 = m + (n + 1)
        BY <1>1, SMT
  <2>2. Follows(st, b[m + n], b[(m + n) + 1])
        BY <2>1 DEF Streamed
  <2>3. c[n] = b[m + n] /\ c[n + 1] = b[m + (n + 1)]
        BY <2>1
  <2> QED BY <2>1, <2>2, <2>3
<1>5. ASSUME c # <<>>, ~later
      PROVE  c[Len(c)] = <<Len(st), st[Len(st)]>>
  <2>1. Len(c) \in 1..Len(c) /\ b # <<>>
        BY <1>1, <1>5, SMT
  <2> QED BY <1>5, <2>1 DEF Streamed
<1> QED BY <1>2, <1>3, <1>4, <1>5 DEF Streamed

\* The stream after one more message was written.
LEMMA Extended ==
    ASSUME Sizes, NEW st \in Seq(FrameLen), NEW len \in FrameLen,
           NEW b \in Seq(Pipe!Byte), Streamed(b, st, FALSE)
    PROVE  Streamed(b \o Pipe!Frame(Len(st) + 1, len), Append(st, len), FALSE)
<1> DEFINE k == Len(st) + 1
           f == Pipe!Frame(k, len)
           c == b \o f
           new == Append(st, len)
<1>1. len \in Nat \ {0} /\ Len(st) \in Nat /\ k \in Nat \ {0} /\ Len(b) \in Nat
      BY SMT DEF Sizes
<1>2. /\ f \in Seq(Nat \X Nat) /\ Len(f) = len
      /\ \A j \in 1..len : f[j] = <<k, j>>
      BY <1>1, SMT DEF Pipe!Frame
<1>3. new[k] = len /\ Len(new) = k /\ \A j \in 1..Len(st) : new[j] = st[j]
      BY <1>1, SMT
<1>4. /\ Len(c) = Len(b) + len
      /\ \A j \in 1..Len(b) : c[j] = b[j]
      /\ \A j \in 1..len : c[Len(b) + j] = <<k, j>>
  <2>1. b \in Seq(Nat \X Nat)
        BY SMT DEF Pipe!Byte
  <2>2. /\ Len(b \o f) = Len(b) + Len(f)
        /\ \A j \in 1..(Len(b) + Len(f)) :
               (b \o f)[j] = IF j <= Len(b) THEN b[j] ELSE f[j - Len(b)]
        BY <1>2, <2>1, ConcatProperties
  <2> HIDE DEF f
  <2> QED BY <1>1, <1>2, <2>2, SMT
<1> HIDE DEF c, f, new, k
<1>5. ASSUME NEW n \in 1..Len(c)
      PROVE  \/ n \in 1..Len(b) /\ c[n] = b[n]
             \/ \E j \in 1..len : n = Len(b) + j /\ c[n] = <<k, j>>
  <2>1. CASE n <= Len(b)
        BY <1>1, <1>4, <2>1, SMT
  <2>2. CASE ~(n <= Len(b))
    <3>1. n - Len(b) \in 1..len /\ n = Len(b) + (n - Len(b))
          BY <1>1, <1>4, <2>2, SMT
    <3> QED BY <1>4, <3>1
  <2> QED BY <2>1, <2>2
<1>6. ASSUME NEW n \in 1..Len(b)
      PROVE  InStream(st, b[n]) /\ new[b[n][1]] = st[b[n][1]]
             /\ b[n][1] \in Nat /\ b[n][1] < k
  <2>1. InStream(st, b[n])
        BY DEF Streamed
  <2> QED BY <1>1, <1>3, <2>1, SMT DEF InStream, k
<1>7. ASSUME NEW n \in 1..Len(c)
      PROVE  InStream(new, c[n])
  <2>1. CASE n \in 1..Len(b) /\ c[n] = b[n]
        BY <1>1, <1>3, <1>6, <2>1, SMT DEF InStream, k
  <2>2. ASSUME NEW j \in 1..len, c[n] = <<k, j>>
        PROVE  InStream(new, c[n])
        BY <1>1, <1>3, <2>2, SMT DEF InStream
  <2> QED BY <1>5, <2>1, <2>2
<1>8. ASSUME NEW m \in 1..Len(c), NEW n \in 1..Len(c), m <= n
      PROVE  c[m][1] <= c[n][1]
  <2>1. CASE n \in 1..Len(b)
    <3>1. m \in 1..Len(b)
          BY <1>1, <1>8, <2>1, SMT
    <3> QED BY <1>4, <1>8, <2>1, <3>1 DEF Streamed
  <2>2. ASSUME NEW j \in 1..len, c[n] = <<k, j>>
        PROVE  c[m][1] <= c[n][1]
    <3>1. c[m][1] \in Nat /\ c[m][1] <= k
      <4>1. CASE m \in 1..Len(b) /\ c[m] = b[m]
            BY <1>1, <1>6, <4>1, SMT
      <4>2. ASSUME NEW i \in 1..len, c[m] = <<k, i>>
            PROVE  c[m][1] \in Nat /\ c[m][1] <= k
            BY <1>1, <4>2, SMT
      <4> QED BY <1>5, <4>1, <4>2
    <3> QED BY <2>2, <3>1, SMT
  <2> QED BY <1>5, <2>1, <2>2
<1>9. ASSUME NEW n \in 1..(Len(c) - 1)
      PROVE  Follows(new, c[n], c[n + 1])
  <2>1. n \in 1..Len(c) /\ n + 1 \in 1..Len(c)
        BY <1>1, <1>4, SMT
  <2>2. CASE n + 1 <= Len(b)
    <3>1. n \in 1..(Len(b) - 1) /\ n \in 1..Len(b) /\ n + 1 \in 1..Len(b)
          BY <1>1, <2>2, SMT
    <3>2. Follows(st, b[n], b[n + 1]) /\ new[b[n][1]] = st[b[n][1]]
          BY <1>6, <3>1 DEF Streamed
    <3> QED BY <1>4, <3>1, <3>2 DEF Follows
  <2>3. CASE n = Len(b)
    <3>1. b # <<>> /\ n \in 1..Len(b) /\ 1 \in 1..len
          BY <1>1, <2>3, SMT
    <3>2. c[n] = <<Len(st), st[Len(st)]>>
          BY <1>4, <2>3, <3>1 DEF Streamed
    <3>3. c[n + 1] = <<k, 1>>
          BY <1>4, <2>3, <3>1
    <3>4. Len(st) \in 1..Len(st) /\ new[Len(st)] = st[Len(st)]
      <4>1. InStream(st, c[n])
            BY <1>4, <1>6, <3>1
      <4>2. Len(st) \in 1..Len(st)
            BY <1>1, <3>2, <4>1, SMT DEF InStream
      <4> QED BY <1>3, <4>2
    <3> QED BY <1>1, <3>2, <3>3, <3>4, SMT DEF Follows, k
  <2>4. CASE n > Len(b)
    <3>1. /\ n - Len(b) \in 1..len /\ Len(b) + (n - Len(b)) = n
          /\ (n - Len(b)) + 1 \in 1..len
          /\ Len(b) + ((n - Len(b)) + 1) = n + 1 /\ n - Len(b) < len
          BY <1>1, <1>4, <2>4, SMT
    <3>2. c[n] = <<k, n - Len(b)>> /\ c[n + 1] = <<k, (n - Len(b)) + 1>>
          BY <1>4, <3>1
    <3> QED BY <1>3, <3>1, <3>2, SMT DEF Follows
  <2> QED BY <1>1, <2>1, <2>2, <2>3, <2>4, SMT
<1>10. c[1][2] = 1
  <2>1. CASE b = <<>>
        BY <1>1, <1>4, <2>1, SMT
  <2>2. CASE b # <<>>
    <3>1. 1 \in 1..Len(b)
          BY <1>1, <2>2, SMT
    <3> QED BY <1>4, <2>2, <3>1 DEF Streamed
  <2> QED BY <2>1, <2>2
<1>11. c[Len(c)] = <<Len(new), new[Len(new)]>>
       BY <1>1, <1>3, <1>4, SMT
<1> QED BY <1>7, <1>8, <1>9, <1>10, <1>11 DEF Streamed, c, f, new, k

\* WriteMsg adds a whole frame behind the bytes inside.
LEMMA PipeWrite ==
    ASSUME Sizes, PInv, NEW len \in FrameLen, Pipe!WriteMsg(len)
    PROVE  /\ PInv'
           /\ Pipe!Bytes' = Pipe!Bytes \o Pipe!Frame(Len(sent) + 1, len)
<1> DEFINE k == Len(sent) + 1
           f == Pipe!Frame(k, len)
           B == Pipe!Byte
<1>1. /\ ~closed /\ writing = <<>> /\ Len(sent) < MaxMsg
      /\ sent' = Append(sent, len) /\ writing' = f
      /\ UNCHANGED <<copying, cutter, chunk, hand, got, closed>>
      BY DEF Pipe!WriteMsg
<1>2. /\ len \in Nat \ {0} /\ sent \in Seq(FrameLen) /\ MaxMsg \in Nat
      /\ chunk \in Seq(B) /\ copying \in Seq(B)
      BY DEF Sizes, PInv, Pipe!TypeOK
<1>3. Len(sent) \in Nat /\ k \in 1..MaxMsg
      BY <1>1, <1>2, SMT
<1>4. /\ f \in Seq(B) /\ Len(f) = len /\ f # <<>>
      /\ \A j \in 1..len : f[j] = <<k, j>>
  <2> HIDE DEF k
  <2>1. \A j \in 1..len : <<k, j>> \in B
        BY <1>2, <1>3, SMT DEF Pipe!Byte
  <2>2. f = [j \in 1..len |-> <<k, j>>]
        BY DEF Pipe!Frame
  <2> HIDE DEF B, f
  <2>3. f \in [1..len -> B] /\ \A j \in 1..len : f[j] = <<k, j>>
        BY <2>1, <2>2
  <2>4. f \in Seq(B) /\ Len(f) = len
        BY <1>2, <2>3, SMT
  <2> QED BY <1>2, <2>3, <2>4, SMT
<1>5. /\ sent' \in Seq(FrameLen) /\ Len(sent') = k
      /\ \A j \in 1..Len(sent) : sent'[j] = sent[j]
      BY <1>1, <1>2, SMT
<1> HIDE DEF f, k, B
<1>6. Pipe!Bytes' = Pipe!Bytes \o f
  <2>1. chunk \o copying \in Seq(B)
        BY <1>2, ConcatProperties
  <2>2. (chunk \o copying) \o <<>> = chunk \o copying
        BY <2>1, ConcatEmptySeq
  <2> QED BY <1>1, <2>2 DEF Pipe!Bytes
<1>7. Pipe!TypeOK'
  <2>1. Len(sent') <= MaxMsg
        BY <1>3, <1>5, SMT
  <2> QED BY <1>1, <1>4, <1>5, <2>1 DEF PInv, Pipe!TypeOK, B
<1>8. Streamed(Pipe!Bytes, sent, closed)'
  <2>1. Pipe!Bytes \in Seq(Pipe!Byte) /\ Streamed(Pipe!Bytes, sent, FALSE)
        BY <1>1, BytesAt DEF PInv, Streamed
  <2>2. Streamed(Pipe!Bytes \o f, Append(sent, len), FALSE)
        BY <1>2, <2>1, Extended DEF f, k
  <2> QED BY <1>1, <1>6, <2>2 DEF Streamed
<1>9. Copying'
  <2>1. Part(f)
    <3>1. f[1] = <<k, 1>> /\ f[1][1] = k /\ f[1][2] = 1 /\ 1 - 1 = 0
          BY <1>2, <1>4, SMT
    <3>2. \A j \in 1..len : 1 + j - 1 = j
          BY <1>2, SMT
    <3>3. \A j \in 1..Len(f) : f[j] = <<f[1][1], f[1][2] + j - 1>>
          BY <1>4, <3>1, <3>2
    <3> QED BY <3>1, <3>3, MultipleBase DEF Part
  <2>2. copying # <<>> => copying[1][1] \in 1..Len(sent)
    <3>1. copying # <<>> => 1 \in 1..Len(copying)
          BY <1>2, SMT
    <3>2. copying # <<>> => Len(chunk) + 1 \in 1..Len(Pipe!Bytes)
          BY <3>1, BytesAt, SMT
    <3>3. copying # <<>> => Pipe!Bytes[Len(chunk) + 1] = copying[1]
          BY <3>1, BytesAt
    <3> QED BY <3>2, <3>3 DEF PInv, Streamed, InStream
  <2> QED BY <1>1, <1>5, <2>1, <2>2 DEF PInv, Copying
<1>10. Cutting'
  <2>1. chunk # <<>> => chunk[1][1] \in 1..Len(sent)
    <3>1. chunk # <<>> => Pipe!Bytes[1] = chunk[1]
                          /\ 1 \in 1..Len(Pipe!Bytes)
          BY <1>2, BytesAt, SMT
    <3> QED BY <3>1 DEF PInv, Streamed, InStream
  <2>2. cutter # "done"
        BY <1>1 DEF PInv, Cutting
  <2> QED BY <1>1, <1>5, <2>1, <2>2 DEF PInv, Cutting
<1>11. /\ (hand # <<>> => IsFrame(hand))'
       /\ (\A n \in 1..Len(got) : IsFrame(got[n]))'
  <2>1. ASSUME NEW b, IsFrame(b)
        PROVE  IsFrame(b)'
        BY <1>1, <1>2, <2>1, FramesKept
  <2> QED BY <1>1, <2>1 DEF PInv
<1> QED BY <1>6, <1>7, <1>8, <1>9, <1>10, <1>11 DEF PInv, f, k

\* The chunk that is offered is a frame, and what follows it begins with the

\* first byte of the next message.
LEMMA Offered ==
    ASSUME Sizes, PInv, cutter = "offer"
    PROVE  /\ IsFrame(chunk) /\ chunk # <<>>
           /\ Pipe!Take(sent[chunk[1][1]], chunk) = chunk
           /\ Pipe!Bytes[1] = <<chunk[1][1], 1>>
           /\ Pipe!Bytes[Len(chunk)] = <<chunk[1][1], Len(chunk)>>
           /\ Len(chunk) \in 1..Len(Pipe!Bytes)
           /\ Len(chunk) < Len(Pipe!Bytes) =>
                  Pipe!Bytes[Len(chunk) + 1][1] = chunk[1][1] + 1
                  /\ Pipe!Bytes[Len(chunk) + 1][2] = 1
<1> DEFINE k == chunk[1][1]
           n == Len(chunk)
<1>1. /\ chunk # <<>> /\ chunk \in Seq(Pipe!Byte) /\ n = sent[k]
      /\ \A j \in 1..n : chunk[j] = <<k, j>>
      BY DEF PInv, Pipe!TypeOK, Cutting
<1>2. n \in Nat \ {0} /\ 1 \in 1..n /\ n \in 1..n
      BY <1>1, SMT
<1>3. n \in 1..Len(Pipe!Bytes) /\ 1 \in 1..Len(Pipe!Bytes)
      BY <1>2, BytesAt, SMT
<1>4. Pipe!Bytes[1] = <<k, 1>> /\ Pipe!Bytes[n] = <<k, n>>
      BY <1>1, <1>2, BytesAt
<1>5. k \in 1..Len(sent)
  <2>1. InStream(sent, <<k, 1>>)
        BY <1>3, <1>4 DEF PInv, Streamed
  <2> HIDE DEF k
  <2> QED BY <2>1, SMT DEF InStream
<1>6. chunk = Pipe!Frame(k, n)
  <2> HIDE DEF k
  <2>1. chunk = [j \in 1..n |-> chunk[j]]
        BY <1>1, SMT
  <2> QED BY <1>1, <2>1 DEF Pipe!Frame
<1>7. Pipe!Take(n, chunk) = chunk
  <2>1. Pipe!AtMost(n, chunk) = n
        BY <1>2, SMT DEF Pipe!AtMost
  <2> QED BY <1>1, <2>1, SubSeqFull DEF Pipe!Take
<1>8. ASSUME n < Len(Pipe!Bytes)
      PROVE  Pipe!Bytes[n + 1][1] = k + 1 /\ Pipe!Bytes[n + 1][2] = 1
  <2>1. n \in 1..(Len(Pipe!Bytes) - 1)
        BY <1>2, <1>3, <1>8, BytesAt, SMT
  <2>2. Follows(sent, <<k, n>>, Pipe!Bytes[n + 1])
        BY <1>4, <2>1 DEF PInv, Streamed
  <2> HIDE DEF k, n
  <2> QED BY <1>1, <1>2, <2>2, SMT DEF Follows
<1>9. IsFrame(chunk)
      BY <1>1, <1>5, <1>6 DEF IsFrame, Pipe!NumberOf
<1> QED BY <1>1, <1>3, <1>4, <1>7, <1>8, <1>9

\* Taking the chunk away leaves the other bytes as they are.
LEMMA ChunkGone ==
    ASSUME Sizes, PInv, cutter = "offer", cutter' = "read", chunk' = <<>>,
           UNCHANGED <<sent, writing, copying, closed>>
    PROVE  /\ Streamed(Pipe!Bytes, sent, closed)' /\ Copying' /\ Cutting'
           /\ Pipe!Bytes' \in Seq(Pipe!Byte)
           /\ Len(Pipe!Bytes') = Len(Pipe!Bytes) - Len(chunk)
           /\ \A j \in 1..Len(Pipe!Bytes') :
                  Pipe!Bytes'[j] = Pipe!Bytes[Len(chunk) + j]
<1> DEFINE c == copying \o writing
           n == Len(chunk)
<1>1. /\ chunk \in Seq(Pipe!Byte) /\ copying \in Seq(Pipe!Byte)
      /\ writing \in Seq(Pipe!Byte)
      BY DEF PInv, Pipe!TypeOK
<1>2. Pipe!Bytes' = c
      BY <1>1, ConcatEmptySeq DEF Pipe!Bytes
<1>3. c \in Seq(Pipe!Byte) /\ Pipe!Bytes = chunk \o c
      BY <1>1, SMT DEF Pipe!Bytes
<1> HIDE DEF c
<1>4. /\ Len(c) = Len(Pipe!Bytes) - n
      /\ \A j \in 1..Len(c) : c[j] = Pipe!Bytes[n + j]
      /\ n \in Nat /\ n + Len(c) = Len(Pipe!Bytes)
      BY <1>1, <1>3, SMT
<1>5. c # <<>> => c[1][2] = 1
  <2>1. c # <<>> => 1 \in 1..Len(c) /\ n < Len(Pipe!Bytes)
        BY <1>3, <1>4, SMT
  <2> QED BY <1>4, <2>1, Offered
<1>6. Streamed(c, sent, closed)
  <2>1. n + Len(c) <= Len(Pipe!Bytes) /\ Pipe!Bytes \in Seq(Pipe!Byte)
        BY <1>4, BytesAt, SMT
  <2>2. Streamed(Pipe!Bytes, sent, closed)
        BY DEF PInv
  <2>3. ~closed => ~closed /\ n + Len(c) = Len(Pipe!Bytes)
        BY <1>4
  <2> HIDE DEF n
  <2> QED BY <1>3, <1>4, <1>5, <2>1, <2>2, <2>3, Slice
<1>7. Cutting'
  <2>1. Len(<<>>) = 0 /\ 1..0 = {}
        BY SMT
  <2> QED BY <2>1 DEF Cutting
<1> QED BY <1>2, <1>3, <1>4, <1>6, <1>7 DEF PInv, Copying

\* ReadNextMsg hands out the frame at the front of the stream.
LEMMA PipeRead == ASSUME Sizes, PInv, Pipe!ReadNextMsg PROVE PInv'
<1>1. /\ cutter = "offer" /\ hand = <<>> /\ chunk' = <<>> /\ cutter' = "read"
      /\ hand' = Pipe!Take(sent[chunk[1][1]], chunk)
      /\ UNCHANGED <<sent, writing, copying, got, closed>>
      BY DEF Pipe!ReadNextMsg
<1>2. hand' = chunk /\ IsFrame(chunk)
      BY <1>1, Offered
<1>3. Pipe!TypeOK'
  <2>1. <<>> \in Seq(Pipe!Byte)
        BY SMT
  <2> QED BY <1>1, <1>2, <2>1 DEF PInv, Pipe!TypeOK
<1>4. Streamed(Pipe!Bytes, sent, closed)' /\ Copying' /\ Cutting'
      BY <1>1, ChunkGone
<1>5. \A b : IsFrame(b) => IsFrame(b)'
      BY <1>1 DEF IsFrame
<1> QED BY <1>1, <1>2, <1>3, <1>4, <1>5 DEF PInv

\* An offer that is dropped takes its whole message with it.
LEMMA PipeDrop == ASSUME Sizes, PInv, Pipe!DropChunk PROVE PInv'
<1>1. /\ cutter = "offer" /\ chunk' = <<>> /\ cutter' = "read"
      /\ UNCHANGED <<sent, writing, copying, hand, got, closed>>
      BY DEF Pipe!DropChunk
<1>2. Pipe!TypeOK'
  <2>1. <<>> \in Seq(Pipe!Byte)
        BY SMT
  <2> QED BY <1>1, <2>1 DEF PInv, Pipe!TypeOK
<1>3. Streamed(Pipe!Bytes, sent, closed)' /\ Copying' /\ Cutting'
      BY <1>1, ChunkGone
<1>4. \A b : IsFrame(b) => IsFrame(b)'
      BY <1>1 DEF IsFrame
<1> QED BY <1>1, <1>2, <1>3, <1>4 DEF PInv

\* tearDown loses the bytes a WriteMsg has not got rid of yet.
LEMMA PipeTearDown ==
    ASSUME Sizes, PInv, Pipe!TearDown
    PROVE  /\ PInv'
           /\ Pipe!Bytes' \in Seq(Pipe!Byte)
           /\ Len(Pipe!Bytes') <= Len(Pipe!Bytes)
           /\ \A j \in 1..Len(Pipe!Bytes') : Pipe!Bytes'[j] = Pipe!Bytes[j]
<1> DEFINE c == chunk \o copying
<1>1. /\ closed' = TRUE /\ writing' = <<>> /\ closed = FALSE
      /\ UNCHANGED <<sent, copying, cutter, chunk, hand, got>>
      BY DEF Pipe!TearDown, PInv, Pipe!TypeOK
<1>2. /\ chunk \in Seq(Pipe!Byte) /\ copying \in Seq(Pipe!Byte)
      /\ writing \in Seq(Pipe!Byte)
      BY DEF PInv, Pipe!TypeOK
<1>3. c \in Seq(Pipe!Byte) /\ Pipe!Bytes' = c
  <2>1. c \in Seq(Pipe!Byte)
        BY <1>2, ConcatProperties
  <2>2. c \o <<>> = c
        BY <2>1, ConcatEmptySeq
  <2> QED BY <1>1, <2>1, <2>2 DEF Pipe!Bytes
<1>4. /\ Len(c) <= Len(Pipe!Bytes)
      /\ \A j \in 1..Len(c) : c[j] = Pipe!Bytes[j]
  <2>1. Pipe!Bytes = c \o writing
        BY DEF Pipe!Bytes
  <2> HIDE DEF c
  <2> QED BY <1>2, <1>3, <2>1, SMT
<1> HIDE DEF c
<1>5. Streamed(c, sent, TRUE)
  <2>1. /\ Pipe!Bytes \in Seq(Pipe!Byte) /\ Streamed(Pipe!Bytes, sent, closed)
        /\ 0 \in Nat /\ 0 + Len(c) <= Len(Pipe!Bytes)
        /\ \A j \in 1..Len(c) : c[j] = Pipe!Bytes[0 + j]
        BY <1>3, <1>4, BytesAt, SMT DEF PInv
  <2>2. c # <<>> => c[1][2] = 1
    <3>1. c # <<>> => 1 \in 1..Len(c) /\ Pipe!Bytes # <<>>
          BY <1>3, <1>4, SMT
    <3> QED BY <1>4, <3>1 DEF PInv, Streamed
  <2> QED BY <1>3, <2>1, <2>2, Slice
<1>6. Pipe!TypeOK'
  <2>1. <<>> \in Seq(Pipe!Byte)
        BY SMT
  <2> QED BY <1>1, <2>1 DEF PInv, Pipe!TypeOK
<1>7. Streamed(Pipe!Bytes, sent, closed)'
      BY <1>1, <1>3, <1>5
<1>8. Copying' /\ Cutting'
      BY <1>1 DEF PInv, Copying, Cutting, Part
<1>9. \A b : IsFrame(b) => IsFrame(b)'
      BY <1>1 DEF IsFrame
<1> QED BY <1>1, <1>3, <1>4, <1>6, <1>7, <1>8, <1>9 DEF PInv

\* At its end the cutting goroutine leaves nothing inside.
LEMMA PipeEnds ==
    ASSUME Sizes, PInv, Pipe!CutterEnds
    PROVE  PInv' /\ Pipe!Bytes' = <<>>
<1>1. /\ closed /\ copying = <<>> /\ chunk' = <<>> /\ cutter' = "done"
      /\ writing = <<>>
      /\ UNCHANGED <<sent, writing, copying, hand, got, closed>>
      BY DEF Pipe!CutterEnds, PInv, Copying
<1>2. Pipe!TypeOK'
  <2>1. <<>> \in Seq(Pipe!Byte)
        BY SMT
  <2> QED BY <1>1, <2>1 DEF PInv, Pipe!TypeOK
<1>3. Pipe!Bytes' = <<>>
      BY <1>1, SMT DEF Pipe!Bytes
<1>4. Len(<<>>) = 0 /\ 1..0 = {} /\ 1..(0 - 1) = {}
      BY SMT
<1>5. Streamed(Pipe!Bytes, sent, closed)'
      BY <1>3, <1>4 DEF Streamed
<1>6. Copying' /\ Cutting'
      BY <1>1, <1>4 DEF Copying, Cutting, Part
<1>7. \A b : IsFrame(b) => IsFrame(b)'
      BY <1>1 DEF IsFrame
<1> QED BY <1>1, <1>2, <1>3, <1>5, <1>6, <1>7 DEF PInv

\* Every step of the stream preserves the invariant.
LEMMA PipeStep == ASSUME Sizes, PInv, [Pipe!Next]_(Pipe!vars) PROVE PInv'
<1>1. ASSUME NEW len \in FrameLen, Pipe!WriteMsg(len)
      PROVE  PInv'
      BY <1>1, PipeWrite
<1>2. CASE Pipe!Copy
      BY <1>2, PipeCopy
<1>3. CASE Pipe!Cut
      BY <1>3, PipeCut
<1>4. CASE Pipe!ReadNextMsg
      BY <1>4, PipeRead
<1>5. CASE Pipe!Send \/ Pipe!SendFails
      BY <1>5, PipeSend
<1>6. CASE Pipe!TearDown
      BY <1>6, PipeTearDown
<1>7. CASE Pipe!DropChunk
      BY <1>7, PipeDrop
<1>8. CASE Pipe!CutterEnds
      BY <1>8, PipeEnds
<1>9. CASE UNCHANGED Pipe!vars
  <2>1. UNCHANGED <<sent, writing, copying, cutter, chunk, hand, got, closed>>
        BY <1>9 DEF Pipe!vars
  <2>2. Pipe!TypeOK'
        BY <2>1 DEF PInv, Pipe!TypeOK
  <2>3. Streamed(Pipe!Bytes, sent, closed)' /\ Copying' /\ Cutting'
        BY <2>1 DEF PInv, Pipe!Bytes, Copying, Cutting
  <2>4. \A b : IsFrame(b) => IsFrame(b)'
        BY <2>1 DEF IsFrame
  <2> QED BY <2>1, <2>2, <2>3, <2>4 DEF PInv
<1> QED BY <1>1, <1>2, <1>3, <1>4, <1>5, <1>6, <1>7, <1>8, <1>9 DEF Pipe!Next

\* The invariant holds throughout.
LEMMA PipeInvariant == ASSUME Framed PROVE Pipe!Spec => []PInv
<1>1. Sizes
      BY SizesFit
<1>2. Pipe!Init => PInv
      BY <1>1, PipeInit
<1>3. PInv /\ [Pipe!Next]_(Pipe!vars) => PInv'
      BY <1>1, PipeStep
<1> QED BY <1>2, <1>3, PTL DEF Pipe!Spec

\* Every message a reader receives is one that WriteMsg wrote, with all its
\* bytes and none of another, whatever the sizes, as long as no frame fills
\* the buffer exactly.
THEOREM WholeHolds == ASSUME Framed PROVE Pipe!Spec => []Pipe!Whole
<1>1. PInv => Pipe!Whole
      BY DEF PInv, IsFrame, Pipe!Whole
<1> QED BY <1>1, PipeInvariant, PTL

-----------------------------------------------------------------------------
\* The numbers from first to last.
Run(first, last) == [n \in 1..(last + 1 - first) |-> first + n - 1]

\* What adding a number and dropping some does to a run of them.
LEMMA RunsOf ==
    ASSUME NEW a \in Nat, NEW b \in Nat, a <= b
    PROVE  /\ Run(a, b) # <<>> /\ Run(a, b) \in Seq(Nat)
           /\ Len(Run(a, b)) = b + 1 - a
           /\ Append(Run(a, b), b + 1) = Run(a, b + 1)
           /\ Head(Run(a, b)) = a
           /\ Tail(Run(a, b)) = IF a = b THEN <<>> ELSE Run(a + 1, b)
<1>1. ASSUME NEW i \in Nat, NEW j \in Nat, i <= j
      PROVE  /\ Run(i, j) \in Seq(Nat) /\ Len(Run(i, j)) = j + 1 - i
             /\ \A n \in 1..(j + 1 - i) : Run(i, j)[n] = i + n - 1
      BY <1>1, SMT DEF Run
<1> DEFINE s == Run(a, b)
<1>2. /\ s \in Seq(Nat) /\ Len(s) = b + 1 - a /\ s # <<>>
      /\ \A n \in 1..(b + 1 - a) : s[n] = a + n - 1
      BY <1>1, SMT
<1> HIDE DEF s
<1>3. Append(s, b + 1) = Run(a, b + 1)
  <2> DEFINE r == Run(a, b + 1)
             t == Append(s, b + 1)
  <2>1. a <= b + 1 /\ b + 1 \in Nat
        BY SMT
  <2>2. /\ r \in Seq(Nat) /\ Len(r) = (b + 1) + 1 - a
        /\ \A n \in 1..((b + 1) + 1 - a) : r[n] = a + n - 1
        BY <1>1, <2>1
  <2>3. /\ t \in Seq(Nat) /\ Len(t) = (b + 1) + 1 - a
        /\ \A n \in 1..((b + 1) + 1 - a) : t[n] = a + n - 1
        BY <1>2, SMT
  <2> HIDE DEF r, t
  <2>4. \A n \in 1..Len(t) : t[n] = r[n]
        BY <2>2, <2>3
  <2> QED BY <2>2, <2>3, <2>4, SeqEqual DEF r, t
<1>4. Head(s) = a
      BY <1>2, SMT
<1>5. ASSUME a = b
      PROVE  Tail(s) = <<>>
  <2>1. Len(s) = 1
        BY <1>2, <1>5, SMT
  <2>2. Tail(s) \in Seq(Nat) /\ Len(Tail(s)) = 0
        BY <1>2, <2>1, SMT
  <2> QED BY <2>2, EmptySeq
<1>6. ASSUME a # b
      PROVE  Tail(s) = Run(a + 1, b)
  <2> DEFINE r == Run(a + 1, b)
             t == Tail(s)
  <2>1. a + 1 <= b /\ a + 1 \in Nat
        BY <1>6, SMT
  <2>2. /\ r \in Seq(Nat) /\ Len(r) = b + 1 - (a + 1)
        /\ \A n \in 1..(b + 1 - (a + 1)) : r[n] = (a + 1) + n - 1
        BY <1>1, <2>1
  <2>3. /\ t \in Seq(Nat) /\ Len(t) = b + 1 - (a + 1)
        /\ \A n \in 1..(b + 1 - (a + 1)) : t[n] = (a + 1) + n - 1
        BY <1>2, SMT
  <2> HIDE DEF r, t
  <2>4. \A n \in 1..Len(t) : t[n] = r[n]
        BY <2>2, <2>3
  <2> QED BY <2>2, <2>3, <2>4, SeqEqual DEF r, t
<1>7. Tail(s) = IF a = b THEN <<>> ELSE Run(a + 1, b)
      BY <1>5, <1>6
<1> QED BY <1>2, <1>3, <1>4, <1>7 DEF s

\* A run is cut short at its end.
LEMMA RunPrefix ==
    ASSUME NEW a \in Nat, NEW b \in Nat, NEW c \in Nat, a <= c, c <= b
    PROVE  SubSeq(Run(a, b), 1, c + 1 - a) = Run(a, c)
<1> DEFINE r == Run(a, c)
           t == SubSeq(Run(a, b), 1, c + 1 - a)
<1>1. /\ r \in Seq(Nat) /\ Len(r) = c + 1 - a
      /\ \A n \in 1..(c + 1 - a) : r[n] = a + n - 1
      BY SMT DEF Run
<1>2. /\ Run(a, b) \in Seq(Nat) /\ Len(Run(a, b)) = b + 1 - a
      /\ \A n \in 1..(b + 1 - a) : Run(a, b)[n] = a + n - 1
      BY SMT DEF Run
<1>3. /\ t \in Seq(Nat) /\ Len(t) = c + 1 - a
      /\ \A n \in 1..(c + 1 - a) : t[n] = a + n - 1
      BY <1>2, SMT
<1> HIDE DEF r, t
<1>4. \A n \in 1..Len(t) : t[n] = r[n]
      BY <1>1, <1>3
<1> QED BY <1>1, <1>3, <1>4, SeqEqual DEF r, t

\* The queue is the run of messages that have bytes inside.
LEMMA QueueRuns ==
    ASSUME PInv
    PROVE  /\ Pipe!Bytes = <<>> => Pipe!Queue = <<>>
           /\ Pipe!Bytes # <<>> =>
                  LET first == Pipe!Bytes[1][1]
                      last == Pipe!Bytes[Len(Pipe!Bytes)][1]
                  IN  /\ Pipe!Queue = Run(first, last)
                      /\ first \in Nat \ {0} /\ last \in Nat /\ first <= last
                      /\ 1 \in 1..Len(Pipe!Bytes)
                      /\ Len(Pipe!Bytes) \in 1..Len(Pipe!Bytes)
                      /\ ~closed => last = Len(sent)
<1>1. CASE Pipe!Bytes = <<>>
      BY <1>1 DEF Pipe!Queue
<1>2. CASE Pipe!Bytes # <<>>
  <2> DEFINE N == Len(Pipe!Bytes)
             first == Pipe!Bytes[1][1]
             last == Pipe!Bytes[N][1]
  <2>1. 1 \in 1..N /\ N \in 1..N /\ 1 <= N
        BY <1>2, BytesAt, SMT
  <2>2. InStream(sent, Pipe!Bytes[1]) /\ InStream(sent, Pipe!Bytes[N])
        /\ first <= last
        BY <2>1 DEF PInv, Streamed
  <2>3. Len(sent) \in Nat
        BY SMT DEF PInv, Pipe!TypeOK
  <2>4. first \in 1..Len(sent) /\ last \in 1..Len(sent)
        BY <2>2 DEF InStream
  <2>5. ASSUME ~closed
        PROVE  last = Len(sent)
    <3>1. Pipe!Bytes[N] = <<Len(sent), sent[Len(sent)]>>
          BY <1>2, <2>5 DEF PInv, Streamed
    <3> QED BY <3>1, SMT
  <2>6. Pipe!Queue = Run(first, last)
        BY <1>2 DEF Pipe!Queue, Run
  <2>7. first \in Nat \ {0} /\ last \in Nat
    <3> HIDE DEF first, last
    <3> QED BY <2>3, <2>4, SMT
  <2> QED BY <1>2, <2>1, <2>2, <2>5, <2>6, <2>7
<1> QED BY <1>1, <1>2

\* The stream before its first message is an empty mailbox.
LEMMA BoxInit == Pipe!Init => Pipe!Box!Init
<1> SUFFICES ASSUME Pipe!Init PROVE Pipe!Box!Init
    OBVIOUS
<1>1. Pipe!Bytes = <<>> /\ Len(<<>>) = 0 /\ 1..0 = {}
      BY SMT DEF Pipe!Init, Pipe!Bytes
<1>2. [n \in 1..Len(got) |-> Pipe!NumberOf(got[n])] = <<>>
      BY SMT DEF Pipe!Init
<1> QED BY <1>1, <1>2 DEF Pipe!Init, Pipe!Box!Init, Pipe!Queue, Pipe!NumberOf

\* WriteMsg puts the next message at the end of the queue.
LEMMA BoxWrite ==
    ASSUME Sizes, PInv, NEW len \in FrameLen, Pipe!WriteMsg(len)
    PROVE  Pipe!Box!Write
<1> DEFINE k == Len(sent) + 1
           f == Pipe!Frame(k, len)
           N == Len(Pipe!Bytes)
           M == Len(Pipe!Bytes')
<1>1. /\ PInv' /\ Pipe!Bytes' = Pipe!Bytes \o f
      BY PipeWrite
<1>2. /\ ~closed /\ sent' = Append(sent, len)
      /\ UNCHANGED <<hand, got, closed>>
      BY DEF Pipe!WriteMsg
<1>3. Len(sent') = k /\ k \in Nat /\ Len(sent) \in Nat /\ len \in Nat \ {0}
      BY <1>2, SMT DEF PInv, Pipe!TypeOK, Sizes
<1>4. /\ M = N + len /\ N \in Nat /\ Pipe!Bytes' # <<>>
      /\ Pipe!Bytes # <<>> => Pipe!Bytes'[1] = Pipe!Bytes[1]
      /\ Pipe!Bytes = <<>> => Pipe!Bytes'[1] = <<k, 1>>
      /\ Pipe!Bytes'[M] = <<k, len>>
  <2>1. /\ f \in Seq(Nat \X Nat) /\ Len(f) = len
        /\ f[1] = <<k, 1>> /\ f[len] = <<k, len>>
        BY <1>3, SMT DEF Pipe!Frame
  <2>2. Pipe!Bytes \in Seq(Nat \X Nat)
        BY BytesAt, SMT DEF Pipe!Byte
  <2> HIDE DEF f, k
  <2>3. /\ Len(Pipe!Bytes \o f) = N + Len(f)
        /\ \A j \in 1..(N + Len(f)) : (Pipe!Bytes \o f)[j] =
               IF j <= N THEN Pipe!Bytes[j] ELSE f[j - N]
        BY <2>1, <2>2, ConcatProperties
  <2>4. /\ N \in Nat
        /\ Pipe!Bytes # <<>> => N > 0
        /\ Pipe!Bytes = <<>> => N = 0
        BY <2>2, SMT
  <2>5. /\ M = N + len
        /\ \A j \in 1..(N + len) : Pipe!Bytes'[j] =
               IF j <= N THEN Pipe!Bytes[j] ELSE f[j - N]
        BY <1>1, <2>1, <2>3
  <2>6. Pipe!Bytes' # <<>>
        BY <1>3, <2>4, <2>5, SMT
  <2> HIDE DEF N, M
  <2> QED BY <1>3, <2>1, <2>4, <2>5, <2>6, SMT
<1>5. Pipe!Queue' = Append(Pipe!Queue, k)
  <2>1. Pipe!Queue' = Run(Pipe!Bytes'[1][1], k)
    <3>1. Pipe!Queue' = Run(Pipe!Bytes'[1][1], Pipe!Bytes'[M][1])
          BY <1>4 DEF Pipe!Queue, Run
    <3>2. Pipe!Bytes'[M][1] = k
          BY <1>4, SMT
    <3> QED BY <3>1, <3>2
  <2>2. CASE Pipe!Bytes = <<>>
    <3>1. Pipe!Queue = <<>> /\ Pipe!Bytes'[1][1] = k
          BY <1>4, <2>2, QueueRuns, SMT
    <3>2. Run(k, k) = Append(<<>>, k)
          BY <1>3, SMT DEF Run
    <3> QED BY <2>1, <3>1, <3>2
  <2>3. CASE Pipe!Bytes # <<>>
    <3>1. /\ Pipe!Queue = Run(Pipe!Bytes[1][1], Len(sent))
          /\ Pipe!Bytes[1][1] \in Nat /\ Pipe!Bytes[1][1] <= Len(sent)
          BY <1>2, <2>3, QueueRuns
    <3>2. Append(Run(Pipe!Bytes[1][1], Len(sent)), k)
              = Run(Pipe!Bytes[1][1], k)
          BY <1>3, <3>1, RunsOf
    <3> QED BY <1>4, <2>1, <2>3, <3>1, <3>2
  <2> QED BY <2>2, <2>3
<1> QED BY <1>2, <1>3, <1>5 DEF Pipe!Box!Write

\* A chunk that leaves takes the first message of the queue with it.
LEMMA BoxAdvance ==
    ASSUME Sizes, PInv, cutter = "offer", cutter' = "read", chunk' = <<>>,
           UNCHANGED <<sent, writing, copying, closed>>
    PROVE  /\ Pipe!Queue # <<>> /\ Pipe!Queue' = Tail(Pipe!Queue)
           /\ Head(Pipe!Queue) = chunk[1][1] /\ Pipe!Queue \in Seq(Nat)
<1> DEFINE k == chunk[1][1]
           n == Len(chunk)
           N == Len(Pipe!Bytes)
           M == Len(Pipe!Bytes')
           last == Pipe!Bytes[N][1]
<1>1. /\ Pipe!Bytes[1] = <<k, 1>> /\ Pipe!Bytes[n] = <<k, n>>
      /\ n \in 1..N
      /\ n < N => Pipe!Bytes[n + 1][1] = k + 1
      BY Offered
<1>2. /\ Pipe!Bytes' \in Seq(Pipe!Byte) /\ M = N - n
      /\ \A j \in 1..M : Pipe!Bytes'[j] = Pipe!Bytes[n + j]
      BY ChunkGone
<1>3. N \in Nat /\ n \in Nat \ {0} /\ Pipe!Bytes # <<>>
      BY <1>1, BytesAt, SMT
<1>4. Pipe!Bytes[1][1] = k /\ Pipe!Bytes[n][1] = k
  <2> HIDE DEF k, n
  <2> QED BY <1>1, SMT
<1>5. Pipe!Queue = Run(k, last) /\ k \in Nat /\ last \in Nat /\ k <= last
      BY <1>3, <1>4, QueueRuns
<1>6. /\ Pipe!Queue # <<>> /\ Pipe!Queue \in Seq(Nat) /\ Head(Pipe!Queue) = k
      /\ Tail(Pipe!Queue) = IF k = last THEN <<>> ELSE Run(k + 1, last)
      BY <1>5, RunsOf
<1>7. CASE n = N
  <2>1. Pipe!Bytes' = <<>>
        BY <1>2, <1>3, <1>7, SMT
  <2>2. k = last /\ Pipe!Queue' = <<>>
        BY <1>4, <1>7, <2>1 DEF Pipe!Queue
  <2> QED BY <1>6, <2>2
<1>8. CASE n # N
  <2>1. /\ n < N /\ 1 \in 1..M /\ M \in 1..M /\ n + M = N
        BY <1>1, <1>2, <1>3, <1>8, SMT
  <2>2. Pipe!Bytes' # <<>>
        BY <1>2, <2>1, SMT
  <2>3. Pipe!Bytes'[1][1] = k + 1 /\ Pipe!Bytes'[M][1] = last
        BY <1>1, <1>2, <2>1
  <2>4. Pipe!Queue' = Run(k + 1, last)
        BY <2>2, <2>3 DEF Pipe!Queue, Run
  <2>5. k # last
    <3>1. n + 1 \in 1..N /\ N \in 1..N /\ n + 1 <= N
          BY <1>3, <2>1, SMT
    <3>2. k + 1 <= last
          BY <1>1, <2>1, <3>1 DEF PInv, Streamed
    <3> HIDE DEF k, last
    <3> QED BY <1>5, <3>2, SMT
  <2> QED BY <1>6, <2>4, <2>5
<1> QED BY <1>7, <1>8

\* ReadNextMsg takes the message at the head of the queue.
LEMMA BoxTake == ASSUME Sizes, PInv, Pipe!ReadNextMsg PROVE Pipe!Box!Take
<1>1. /\ cutter = "offer" /\ hand = <<>> /\ chunk' = <<>> /\ cutter' = "read"
      /\ hand' = Pipe!Take(sent[chunk[1][1]], chunk)
      /\ UNCHANGED <<sent, writing, copying, got, closed>>
      BY DEF Pipe!ReadNextMsg
<1>2. hand' = chunk /\ chunk # <<>>
      BY <1>1, Offered
<1>3. /\ Pipe!Queue # <<>> /\ Pipe!Queue' = Tail(Pipe!Queue)
      /\ Head(Pipe!Queue) = chunk[1][1]
      BY <1>1, BoxAdvance
<1>4. Pipe!NumberOf(hand) = 0 /\ Pipe!NumberOf(hand)' = chunk[1][1]
      BY <1>1, <1>2 DEF Pipe!NumberOf
<1> QED BY <1>1, <1>3, <1>4 DEF Pipe!Box!Take

\* The message in hand reaches the reader or is lost with it.
LEMMA BoxSend ==
    /\ PInv /\ Pipe!Send => Pipe!Box!Receive
    /\ PInv /\ Pipe!SendFails => Pipe!Box!ReaderGone
<1> DEFINE g == [n \in 1..Len(got) |-> Pipe!NumberOf(got[n])]
<1>1. ASSUME PInv, Pipe!Send \/ Pipe!SendFails
      PROVE  /\ Pipe!NumberOf(hand) # 0 /\ Pipe!NumberOf(hand)' = 0
             /\ Pipe!Queue' = Pipe!Queue /\ UNCHANGED <<sent, closed>>
  <2>1. /\ hand # <<>> /\ hand' = <<>>
        /\ UNCHANGED <<sent, writing, copying, chunk, closed>>
        BY <1>1 DEF Pipe!Send, Pipe!SendFails
  <2>2. Pipe!NumberOf(hand) \in 1..Len(sent) /\ sent \in Seq(FrameLen)
        BY <1>1, <2>1 DEF PInv, IsFrame, Pipe!TypeOK
  <2>3. Pipe!NumberOf(hand) # 0
        BY <2>2, SMT
  <2> QED BY <2>1, <2>3 DEF Pipe!Queue, Pipe!Bytes, Pipe!NumberOf
<1>2. ASSUME PInv, Pipe!Send
      PROVE  Pipe!Box!Receive
  <2>1. /\ got' = Append(got, hand) /\ got \in Seq(Seq(Pipe!Byte))
        /\ hand \in Seq(Pipe!Byte)
        BY <1>2 DEF Pipe!Send, PInv, Pipe!TypeOK
  <2>2. g' = Append(g, Pipe!NumberOf(hand))
    <3>1. /\ Len(got') = Len(got) + 1 /\ Len(got) \in Nat
          /\ \A n \in 1..(Len(got) + 1) :
                 got'[n] = IF n <= Len(got) THEN got[n] ELSE hand
          BY <2>1, SMT
    <3>2. Append(g, Pipe!NumberOf(hand)) = [n \in 1..(Len(got) + 1) |->
              IF n <= Len(got) THEN Pipe!NumberOf(got[n])
                               ELSE Pipe!NumberOf(hand)]
          BY <3>1, SMT
    <3>3. \A n \in 1..(Len(got) + 1) : Pipe!NumberOf(got'[n]) =
              IF n <= Len(got) THEN Pipe!NumberOf(got[n])
                               ELSE Pipe!NumberOf(hand)
          BY <3>1
    <3> QED BY <3>1, <3>2, <3>3
  <2> QED BY <1>1, <1>2, <2>2 DEF Pipe!Box!Receive
<1>3. ASSUME PInv, Pipe!SendFails
      PROVE  Pipe!Box!ReaderGone
  <2>1. g' = g
        BY <1>3 DEF Pipe!SendFails
  <2> QED BY <1>1, <1>3, <2>1 DEF Pipe!Box!ReaderGone
<1> QED BY <1>2, <1>3

\* Tearing down cuts the queue at its end, an offer that is dropped at its

\* beginning, and the end of the cutting goroutine leaves nothing of it.
LEMMA BoxClose ==
    ASSUME Sizes, PInv, Pipe!TearDown \/ Pipe!DropChunk \/ Pipe!CutterEnds
    PROVE  Pipe!Box!Close
<1>1. /\ closed' = TRUE /\ UNCHANGED <<sent, hand, got>>
      BY DEF Pipe!TearDown, Pipe!DropChunk, Pipe!CutterEnds
<1>2. Pipe!Queue \in Seq(Nat)
  <2>1. CASE Pipe!Bytes = <<>>
        BY <2>1, QueueRuns, SMT
  <2>2. CASE Pipe!Bytes # <<>>
    <3>1. PICK i \in Nat, j \in Nat : Pipe!Queue = Run(i, j) /\ i <= j
          BY <2>2, QueueRuns
    <3> QED BY <3>1, RunsOf
  <2> QED BY <2>1, <2>2
<1>3. Len(Pipe!Queue) \in Nat
      BY <1>2, SMT
<1>4. ASSUME Pipe!Queue' = <<>>
      PROVE  Pipe!Queue' = SubSeq(Pipe!Queue, 1, 0)
             /\ 1 \in 1..(Len(Pipe!Queue) + 1) /\ 0 \in 0..Len(Pipe!Queue)
  <2>1. SubSeq(Pipe!Queue, 1, 0) = <<>>
        BY <1>2, SMT
  <2>2. 1 \in 1..(Len(Pipe!Queue) + 1) /\ 0 \in 0..Len(Pipe!Queue)
        BY <1>3, SMT
  <2> QED BY <1>4, <2>1, <2>2
<1>5. \E m \in 1..(Len(Pipe!Queue) + 1), n \in 0..Len(Pipe!Queue) :
          Pipe!Queue' = SubSeq(Pipe!Queue, m, n)
  <2>1. CASE Pipe!DropChunk
    <3>1. Pipe!Queue # <<>> /\ Pipe!Queue' = Tail(Pipe!Queue)
          BY <2>1, BoxAdvance DEF Pipe!DropChunk
    <3>2. /\ Tail(Pipe!Queue) = SubSeq(Pipe!Queue, 2, Len(Pipe!Queue))
          /\ 2 \in 1..(Len(Pipe!Queue) + 1)
          /\ Len(Pipe!Queue) \in 0..Len(Pipe!Queue)
          BY <1>2, <1>3, <3>1, SMT
    <3> QED BY <3>1, <3>2
  <2>2. CASE Pipe!CutterEnds
    <3>1. Pipe!Queue' = <<>>
          BY <2>2, PipeEnds DEF Pipe!Queue
    <3> QED BY <1>4, <3>1
  <2>3. CASE Pipe!TearDown
    <3> DEFINE N == Len(Pipe!Bytes)
               M == Len(Pipe!Bytes')
               first == Pipe!Bytes[1][1]
               last == Pipe!Bytes[N][1]
               mid == Pipe!Bytes[M][1]
    <3>1. /\ Pipe!Bytes' \in Seq(Pipe!Byte) /\ M <= N
          /\ \A j \in 1..M : Pipe!Bytes'[j] = Pipe!Bytes[j]
          BY <2>3, PipeTearDown
    <3>2. CASE Pipe!Bytes' = <<>>
      <4>1. Pipe!Queue' = <<>>
            BY <3>2 DEF Pipe!Queue
      <4> QED BY <1>4, <4>1
    <3>3. CASE Pipe!Bytes' # <<>>
      <4>1. /\ M \in Nat \ {0} /\ N \in Nat /\ 1 \in 1..M /\ M \in 1..M
            /\ M \in 1..N /\ N \in 1..N /\ 1 \in 1..N
            /\ 1 <= M /\ Pipe!Bytes # <<>>
            BY <3>1, <3>3, BytesAt, SMT
      <4>2. /\ Pipe!Queue = Run(first, last) /\ first \in Nat /\ last \in Nat
            BY <4>1, QueueRuns
      <4>3. first <= mid /\ mid <= last /\ InStream(sent, Pipe!Bytes[M])
            BY <3>1, <4>1 DEF PInv, Streamed
      <4>4. mid \in Nat
        <5>1. mid \in 1..Len(sent) /\ Len(sent) \in Nat
              BY <4>3, SMT DEF InStream, PInv, Pipe!TypeOK
        <5> HIDE DEF mid
        <5> QED BY <5>1, SMT
      <4>5. Pipe!Queue' = Run(first, mid)
        <5>1. Pipe!Bytes'[1] = Pipe!Bytes[1] /\ Pipe!Bytes'[M] = Pipe!Bytes[M]
              BY <3>1, <4>1
        <5> QED BY <3>3, <5>1 DEF Pipe!Queue, Run
      <4> HIDE DEF first, mid, last
      <4>6. /\ first <= last /\ mid + 1 - first \in 0..(last + 1 - first)
            BY <4>2, <4>3, <4>4, SMT
      <4>7. Run(first, mid) = SubSeq(Run(first, last), 1, mid + 1 - first)
            BY <4>2, <4>3, <4>4, RunPrefix
      <4>8. Len(Pipe!Queue) = last + 1 - first
            BY <4>2, <4>6, RunsOf
      <4>9. 1 \in 1..(Len(Pipe!Queue) + 1)
            BY <1>3, SMT
      <4> QED BY <4>2, <4>5, <4>6, <4>7, <4>8, <4>9
    <3> QED BY <3>2, <3>3
  <2> QED BY <2>1, <2>2, <2>3
<1> QED BY <1>1, <1>5 DEF Pipe!Box!Close

\* Every step of the stream is a step of the mailbox, or none.
LEMMA BoxStep ==
    ASSUME Sizes, PInv, [Pipe!Next]_(Pipe!vars)
    PROVE  [Pipe!Box!Next]_(Pipe!Box!vars)
<1> USE DEF Pipe!Box!Next
<1>1. ASSUME NEW len \in FrameLen, Pipe!WriteMsg(len)
      PROVE  Pipe!Box!Next
      BY <1>1, BoxWrite
<1>2. CASE Pipe!Copy \/ Pipe!Cut
  <2>1. Pipe!Bytes' = Pipe!Bytes
        BY <1>2, PipeCopy, PipeCut
  <2>2. UNCHANGED <<sent, hand, got, closed>>
        BY <1>2 DEF Pipe!Copy, Pipe!Cut
  <2> QED BY <2>1, <2>2 DEF Pipe!Box!vars, Pipe!Queue
<1>3. CASE Pipe!ReadNextMsg
      BY <1>3, BoxTake
<1>4. CASE Pipe!Send \/ Pipe!SendFails
      BY <1>4, BoxSend
<1>5. CASE Pipe!TearDown \/ Pipe!DropChunk \/ Pipe!CutterEnds
      BY <1>5, BoxClose
<1>6. CASE UNCHANGED Pipe!vars
      BY <1>6 DEF Pipe!vars, Pipe!Box!vars, Pipe!Queue, Pipe!Bytes
<1> QED BY <1>1, <1>2, <1>3, <1>4, <1>5, <1>6 DEF Pipe!Next

\* newStream's two pipes and goroutines implement a mailbox: a queue of whole
\* messages.
THEOREM PipeImplementsMailbox ==
    ASSUME Framed PROVE Pipe!Spec => Pipe!ImplementsMailbox
<1>1. Sizes
      BY SizesFit
<1>2. Pipe!Init => Pipe!Box!Init
      BY BoxInit
<1>3. PInv /\ [Pipe!Next]_(Pipe!vars) => [Pipe!Box!Next]_(Pipe!Box!vars)
      BY <1>1, BoxStep
<1>4. Pipe!Spec => []PInv
      BY PipeInvariant
<1>5. Pipe!Spec => Pipe!Box!Spec
      BY <1>2, <1>3, <1>4, PTL DEF Pipe!Spec, Pipe!Box!Spec
<1> QED BY <1>5 DEF Pipe!ImplementsMailbox

-----------------------------------------------------------------------------
\* Each element is larger than those before it.
Increasing(s) == \A m, n \in 1..Len(s) : m < n => s[m] < s[n]

\* The messages received, in hand and in the queue of a mailbox, w of them
\* written, are in order.
Ordered(w, q, h, g) ==
    /\ w \in Nat /\ q \in Seq(1..w) /\ h \in 0..w /\ g \in Seq(1..w)
    /\ Increasing(q) /\ Increasing(g)
    /\ \A m \in 1..Len(g), n \in 1..Len(q) : g[m] < q[n]
    /\ h # 0 => /\ \A m \in 1..Len(g) : g[m] < h
                /\ \A n \in 1..Len(q) : h < q[n]

\* A larger number at the end keeps a sequence increasing.
LEMMA IncreasingAppend ==
    ASSUME NEW S, NEW s \in Seq(S), NEW e \in S, Increasing(s),
           \A n \in 1..Len(s) : s[n] < e
    PROVE  Increasing(Append(s, e))
<1>1. /\ Len(s) \in Nat /\ Len(Append(s, e)) = Len(s) + 1
      /\ \A n \in 1..Len(s) : Append(s, e)[n] = s[n]
      /\ Append(s, e)[Len(s) + 1] = e
      BY SMT
<1>2. ASSUME NEW m \in 1..(Len(s) + 1), NEW n \in 1..(Len(s) + 1), m < n
      PROVE  m \in 1..Len(s) /\ (n \in 1..Len(s) \/ n = Len(s) + 1)
      BY <1>1, <1>2, SMT
<1> QED BY <1>1, <1>2 DEF Increasing

\* The steps of a mailbox keep them in order.
LEMMA OrderedStep ==
    ASSUME NEW w, NEW q, NEW h, NEW g, Ordered(w, q, h, g)
    PROVE  /\ Ordered(w + 1, Append(q, w + 1), h, g)
           /\ h = 0 /\ q # <<>> => Ordered(w, Tail(q), Head(q), g)
           /\ h # 0 => Ordered(w, q, 0, Append(g, h))
           /\ Ordered(w, q, 0, g)
           /\ \A m \in 1..(Len(q) + 1), n \in 0..Len(q) :
                  Ordered(w, SubSeq(q, m, n), h, g)
<1>1. /\ w \in Nat /\ q \in Seq(1..w) /\ h \in 0..w /\ g \in Seq(1..w)
      /\ Increasing(q) /\ Increasing(g)
      /\ \A m \in 1..Len(g), n \in 1..Len(q) : g[m] < q[n]
      /\ h # 0 => /\ \A m \in 1..Len(g) : g[m] < h
                  /\ \A n \in 1..Len(q) : h < q[n]
      BY DEF Ordered
<1>2. Len(q) \in Nat /\ Len(g) \in Nat
      BY <1>1, SMT
<1>3. /\ \A n \in 1..Len(q) : q[n] \in 1..w
      /\ \A n \in 1..Len(g) : g[n] \in 1..w
      BY <1>1, SMT
<1>4. Ordered(w + 1, Append(q, w + 1), h, g)
  <2> DEFINE r == Append(q, w + 1)
  <2>1. /\ w + 1 \in Nat /\ h \in 0..(w + 1) /\ w + 1 \in 1..(w + 1)
        /\ 1..w \subseteq 1..(w + 1)
        BY <1>1, SMT
  <2>2. g \in Seq(1..(w + 1)) /\ q \in Seq(1..(w + 1))
        BY <1>1, <2>1, SMT
  <2>3. /\ r \in Seq(1..(w + 1)) /\ Len(r) = Len(q) + 1
        /\ \A n \in 1..Len(r) : r[n] = IF n <= Len(q) THEN q[n] ELSE w + 1
        BY <2>1, <2>2, SMT
  <2> HIDE DEF r
  <2>4. /\ \A n \in 1..Len(q) : q[n] < w + 1
        /\ \A n \in 1..Len(g) : g[n] < w + 1
        /\ h < w + 1
        BY <1>1, <1>3, SMT
  <2>5. \A n \in 1..Len(r) : (n \in 1..Len(q) /\ r[n] = q[n]) \/ r[n] = w + 1
        BY <1>2, <2>3, SMT
  <2>6. Increasing(r)
        BY <1>1, <2>1, <2>2, <2>4, IncreasingAppend DEF r
  <2>7. \A m \in 1..Len(g), n \in 1..Len(r) : g[m] < r[n]
        BY <1>1, <2>4, <2>5
  <2>8. h # 0 => \A n \in 1..Len(r) : h < r[n]
        BY <1>1, <2>4, <2>5
  <2> QED BY <1>1, <2>1, <2>2, <2>3, <2>6, <2>7, <2>8 DEF Ordered, r
<1>5. ASSUME h = 0, q # <<>>
      PROVE  Ordered(w, Tail(q), Head(q), g)
  <2> DEFINE r == Tail(q)
  <2>1. /\ r \in Seq(1..w) /\ Len(r) = Len(q) - 1 /\ Head(q) = q[1]
        /\ \A n \in 1..Len(r) : r[n] = q[n + 1]
        /\ 1 \in 1..Len(q)
        BY <1>1, <1>5, SMT
  <2> HIDE DEF r
  <2>2. \A n \in 1..Len(r) : n + 1 \in 1..Len(q) /\ 1 < n + 1
        BY <1>2, <2>1, SMT
  <2>3. \A m, n \in 1..Len(r) : m < n => m + 1 < n + 1
        BY <1>2, <2>1, SMT
  <2>4. Increasing(r) /\ \A n \in 1..Len(r) : q[1] < r[n]
        BY <1>1, <2>1, <2>2, <2>3 DEF Increasing
  <2>5. \A m \in 1..Len(g), n \in 1..Len(r) : g[m] < r[n]
        BY <1>1, <2>1, <2>2
  <2>6. \A m \in 1..Len(g) : g[m] < q[1]
        BY <1>1, <2>1
  <2>7. q[1] \in 0..w
        BY <1>1, <1>3, <2>1, SMT
  <2> QED BY <1>1, <2>1, <2>4, <2>5, <2>6, <2>7 DEF Ordered, r
<1>6. ASSUME h # 0
      PROVE  Ordered(w, q, 0, Append(g, h))
  <2> DEFINE r == Append(g, h)
  <2>1. h \in 1..w /\ 0 \in 0..w
        BY <1>1, <1>6, SMT
  <2>2. /\ r \in Seq(1..w) /\ Len(r) = Len(g) + 1
        /\ \A n \in 1..Len(r) : r[n] = IF n <= Len(g) THEN g[n] ELSE h
        BY <1>1, <2>1, SMT
  <2> HIDE DEF r
  <2>3. Increasing(r)
        BY <1>1, <1>6, <2>1, IncreasingAppend DEF r
  <2>4. \A n \in 1..Len(r) : (n \in 1..Len(g) /\ r[n] = g[n]) \/ r[n] = h
        BY <1>2, <2>2, SMT
  <2>5. \A m \in 1..Len(r), n \in 1..Len(q) : r[m] < q[n]
        BY <1>1, <1>6, <2>4
  <2> QED BY <1>1, <2>1, <2>2, <2>3, <2>5 DEF Ordered, r
<1>7. Ordered(w, q, 0, g)
  <2>1. 0 \in 0..w
        BY <1>1, SMT
  <2> QED BY <1>1, <2>1 DEF Ordered
<1>8. ASSUME NEW m \in 1..(Len(q) + 1), NEW n \in 0..Len(q)
      PROVE  Ordered(w, SubSeq(q, m, n), h, g)
  <2> DEFINE r == SubSeq(q, m, n)
  <2>1. /\ r \in Seq(1..w) /\ Len(r) \in Nat
        /\ \A j \in 1..Len(r) :
               (m + j) - 1 \in 1..Len(q) /\ r[j] = q[(m + j) - 1]
        BY <1>1, <1>2, SMT
  <2> HIDE DEF r
  <2>2. \A i, j \in 1..Len(r) : i < j => (m + i) - 1 < (m + j) - 1
        BY <1>2, <2>1, SMT
  <2>3. Increasing(r)
        BY <1>1, <2>1, <2>2 DEF Increasing
  <2>4. \A i \in 1..Len(g), j \in 1..Len(r) : g[i] < r[j]
        BY <1>1, <2>1
  <2>5. h # 0 => \A j \in 1..Len(r) : h < r[j]
        BY <1>1, <2>1
  <2> QED BY <1>1, <2>1, <2>3, <2>4, <2>5 DEF Ordered, r
<1> QED BY <1>4, <1>5, <1>6, <1>7, <1>8

\* The numbers of the messages received.
Received == [n \in 1..Len(got) |-> Pipe!NumberOf(got[n])]

\* The mailbox that the stream implements is in order.
BoxOrdered == Ordered(Len(sent), Pipe!Queue, Pipe!NumberOf(hand), Received)

\* Every mailbox is.
LEMMA MailboxOrdered == Pipe!Box!Spec => []BoxOrdered
<1>1. Pipe!Box!Init => BoxOrdered
  <2> SUFFICES ASSUME Pipe!Box!Init PROVE BoxOrdered
      OBVIOUS
  <2>1. /\ Len(sent) = 0 /\ Pipe!Queue = <<>> /\ Pipe!NumberOf(hand) = 0
        /\ Received = <<>>
        BY DEF Pipe!Box!Init, Received
  <2>2. Ordered(0, <<>>, 0, <<>>)
        BY SMT DEF Ordered, Increasing
  <2> QED BY <2>1, <2>2 DEF BoxOrdered
<1>2. BoxOrdered /\ [Pipe!Box!Next]_(Pipe!Box!vars) => BoxOrdered'
  <2> SUFFICES ASSUME BoxOrdered, [Pipe!Box!Next]_(Pipe!Box!vars)
               PROVE  BoxOrdered'
      OBVIOUS
  <2> DEFINE w == Len(sent)
             q == Pipe!Queue
             h == Pipe!NumberOf(hand)
  <2>1. CASE Pipe!Box!Write
    <3>1. w' = w + 1 /\ q' = Append(q, w + 1) /\ h' = h /\ Received' = Received
          BY <2>1 DEF Pipe!Box!Write, Received
    <3>2. Ordered(w + 1, Append(q, w + 1), h, Received)
          BY OrderedStep DEF BoxOrdered
    <3> QED BY <3>1, <3>2 DEF BoxOrdered
  <2>2. CASE Pipe!Box!Take
    <3>1. /\ h = 0 /\ q # <<>> /\ h' = Head(q) /\ q' = Tail(q) /\ w' = w
          /\ Received' = Received
          BY <2>2 DEF Pipe!Box!Take, Received
    <3>2. Ordered(w, Tail(q), Head(q), Received)
          BY <3>1, OrderedStep DEF BoxOrdered
    <3> QED BY <3>1, <3>2 DEF BoxOrdered
  <2>3. CASE Pipe!Box!Receive
    <3>1. /\ h # 0 /\ h' = 0 /\ q' = q /\ w' = w
          /\ Received' = Append(Received, h)
          BY <2>3 DEF Pipe!Box!Receive, Received
    <3>2. Ordered(w, q, 0, Append(Received, h))
          BY <3>1, OrderedStep DEF BoxOrdered
    <3> QED BY <3>1, <3>2 DEF BoxOrdered
  <2>4. CASE Pipe!Box!ReaderGone
    <3>1. h' = 0 /\ q' = q /\ w' = w /\ Received' = Received
          BY <2>4 DEF Pipe!Box!ReaderGone, Received
    <3>2. Ordered(w, q, 0, Received)
          BY OrderedStep DEF BoxOrdered
    <3> QED BY <3>1, <3>2 DEF BoxOrdered
  <2>5. CASE Pipe!Box!Close
    <3>1. h' = h /\ w' = w /\ Received' = Received
          BY <2>5 DEF Pipe!Box!Close, Received
    <3>2. PICK m \in 1..(Len(q) + 1), n \in 0..Len(q) : q' = SubSeq(q, m, n)
          BY <2>5 DEF Pipe!Box!Close
    <3>3. Ordered(w, SubSeq(q, m, n), h, Received)
          BY OrderedStep DEF BoxOrdered
    <3> QED BY <3>1, <3>2, <3>3 DEF BoxOrdered
  <2>6. CASE UNCHANGED Pipe!Box!vars
        BY <2>6 DEF Pipe!Box!vars, BoxOrdered, Received
  <2> QED BY <2>1, <2>2, <2>3, <2>4, <2>5, <2>6 DEF Pipe!Box!Next
<1> QED BY <1>1, <1>2, PTL DEF Pipe!Box!Spec

\* Readers receive the messages of a stream in the order in which they were
\* written and none twice, also those of a reader who took over from one that
\* is gone, and also while the stream is torn down.
THEOREM InOrderHolds ==
    ASSUME Framed PROVE Pipe!Spec => []Increasing(Received)
<1>1. BoxOrdered => Increasing(Received)
      BY DEF BoxOrdered, Ordered
<1>2. Pipe!Spec => Pipe!Box!Spec
      BY PipeImplementsMailbox DEF Pipe!ImplementsMailbox
<1> QED BY <1>1, <1>2, MailboxOrdered, PTL
=============================================================================
