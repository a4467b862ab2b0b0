---------------------------- MODULE StoreProofs -----------------------------
(***************************************************************************)
(* What aperture keeps on disk.  First its database (Store), for any       *)
(* number of callers, keys and retries; then its TLS files.                *)
(***************************************************************************)
EXTENDS Store, TLAPS

Session == [local : Key \union {None}, remote : BOOLEAN, expiry : BOOLEAN]
Mem == [local : Key \union {None}, expiry : BOOLEAN]
Tables == [onion : SUBSET Key, session : Session]

\* The session in the tables d has the local key that caller c remembers.
Knows(c, d) == d.session # NoSession /\ mem[c].local = d.session.local

\* What the proof needs to know of the variables' values.
Shape ==
    /\ db \in Tables
    /\ snap \in [Proc -> Tables]
    /\ DOMAIN op = Proc /\ DOMAIN pc = Proc /\ DOMAIN result = Proc
    /\ DOMAIN node = Proc
    /\ mem \in [Proc -> Mem]

\* The operation of a call: the key it brings is one, and a NodeConn waits
\* for the operation that it has called.
Calling(c) ==
    pc[c] # "idle" =>
        /\ op[c].name \in {"storeKey", "addSession"} => op[c].key \in Key
        /\ node[c] = "get" <=> op[c].name = "getSession"
        /\ node[c] = "add" <=> op[c].name = "addSession"
        /\ node[c] = "add" => mem[c].local = op[c].key

\* What a transaction that is about to commit has found.
Found(c) ==
    pc[c] = "commit" =>
        /\ op[c].name = "storeKey" => snap[c].onion \subseteq {op[c].key}
        /\ op[c].name = "addSession" => snap[c].session = NoSession

\* What a session read by a transaction says holds for good.
ReadLasts(c) ==
    /\ pc[c] \in {"body", "commit"} /\ op[c].name = "getSession"
           /\ snap[c].session # NoSession =>
           db.session # NoSession /\ snap[c].session.local = db.session.local
    /\ pc[c] = "commit" /\ node[c] = "get" => Knows(c, db)
    /\ pc[c] = "done" /\ node[c] \in {"get", "add"} /\ result[c] = "ok" =>
           Knows(c, db)

\* What holds of one caller.
Good(c) ==
    /\ pc[c] = "idle" => node[c] \in {"off", "open"}
    /\ Calling(c)
    /\ Found(c)
    /\ ReadLasts(c)
    /\ node[c] = "open" => Knows(c, db)

\* The inductive invariant.
IInv == Shape /\ AtMostOneKey /\ \A c \in Proc : Good(c)

\* A step leaves a caller's own variables alone.
Same(c) ==
    /\ op'[c] = op[c] /\ pc'[c] = pc[c] /\ snap'[c] = snap[c]
    /\ result'[c] = result[c] /\ node'[c] = node[c] /\ mem'[c] = mem[c]

\* A step leaves a session its local key.
Kept ==
    db.session # NoSession =>
        db'.session # NoSession /\ db'.session.local = db.session.local

\* The statements of an operation turn tables into tables; only addSession
\* writes the local key of a session, and only storeKey adds an onion key.
LEMMA EffectOnTables ==
    ASSUME NEW o, NEW d \in Tables,
           o.name \in {"storeKey", "addSession"} => o.key \in Key
    PROVE  /\ Effect(o, d) \in Tables
           /\ o.name # "addSession" =>
                  Effect(o, d).session.local = d.session.local
           /\ o.name = "addSession" => Effect(o, d).session.local = o.key
           /\ o.name # "addSession" /\ d.session # NoSession =>
                  Effect(o, d).session # NoSession
           /\ o.name # "storeKey" => Effect(o, d).onion \subseteq d.onion
           /\ o.name = "storeKey" => Effect(o, d).onion = d.onion \union {o.key}
  BY DEF Effect, Tables, Session, NoSession

\* The table of an operation is among the tables.
LEMMA OfTables ==
    ASSUME NEW o, NEW d \in Tables
    PROVE  /\ Of(o, d) \in Tables
           /\ o.name \in {"storeKey", "deleteKey", "readKey"} =>
                  Of(o, d).onion = d.onion
           /\ o.name \in {"addSession", "getSession"} =>
                  Of(o, d).session = d.session
  BY DEF Of, Tables, Session, Empty, NoSession

\* Tables without rows are tables.
LEMMA EmptyTables == Empty \in Tables
  BY DEF Empty, Tables, Session, NoSession

\* What holds of a caller still does after a step of another that keeps the
\* session's key.
LEMMA Elsewhere ==
    ASSUME NEW c \in Proc, Good(c), Same(c), Kept
    PROVE  Good(c)'
  BY DEF Good, Same, Kept, Calling, Found, ReadLasts, Knows

\* So is what a caller without a connection remembers.
LEMMA EmptyMem == NoMem \in Mem
  BY DEF NoMem, Mem

\* What a caller remembers may be replaced field by field.
LEMMA UpdatedMem ==
    ASSUME NEW m \in [Proc -> Mem], NEW c \in Proc,
           NEW l \in Key \union {None}, NEW e \in BOOLEAN
    PROVE  /\ [m EXCEPT ![c].local = l] \in [Proc -> Mem]
           /\ [m EXCEPT ![c].local = l, ![c].expiry = e] \in [Proc -> Mem]
  <1>1. [m[c] EXCEPT !.local = l] \in Mem  BY DEF Mem
  <1>2. [[m[c] EXCEPT !.local = l] EXCEPT !.expiry = e] \in Mem
    BY <1>1 DEF Mem
  <1> QED  BY <1>1, <1>2

\* The invariant holds before the first call.
LEMMA InitIInv == Init => IInv
  <1> SUFFICES ASSUME Init PROVE IInv  OBVIOUS
  <1>1. Shape  BY EmptyMem, EmptyTables DEF Init, Shape
  <1>2. db.onion = {}  BY DEF Init, Empty
  <1>3. \A c \in Proc : Good(c)
    BY DEF Init, Good, Calling, Found, ReadLasts
  <1> QED  BY <1>1, <1>2, <1>3 DEF IInv, AtMostOneKey

\* A step of one caller that leaves the database alone and keeps what holds
\* of that caller keeps the invariant.
LEMMA Locally ==
    ASSUME IInv, NEW c \in Proc, Shape', db' = db,
           \A d \in Proc \ {c} : Same(d), Good(c)'
    PROVE  IInv'
  <1>1. Kept  BY DEF Kept
  <1>2. \A d \in Proc : Good(d)'  BY <1>1, Elsewhere DEF IInv
  <1> QED  BY <1>2 DEF IInv, AtMostOneKey

\* A transaction begins with the table as it is, or the call ends.
LEMMA BeginTxKeeps ==
    ASSUME IInv, NEW c \in Proc, BeginTx(c)
    PROVE  IInv'
  <1>1. Shape'  BY EmptyTables, EmptyMem, OfTables
    DEF IInv, Shape, BeginTx, Ends, lnc
  <1>2. Good(c)'  BY <1>1, OfTables
    DEF IInv, Shape, Good, Calling, Found, ReadLasts, Knows, BeginTx, Ends, lnc
  <1>3. \A d \in Proc \ {c} : Same(d)
    BY DEF IInv, Shape, Same, BeginTx, Ends, lnc
  <1> QED  BY <1>1, <1>2, <1>3, Locally DEF BeginTx, Ends, lnc

\* What the body of a transaction finds is so in its snapshot.
LEMMA TxBodyKeeps ==
    ASSUME IInv, NEW c \in Proc, TxBody(c)
    PROVE  IInv'
  <1>1. /\ snap[c].session.local \in Key \union {None}
        /\ snap[c].session.expiry \in BOOLEAN
    BY DEF IInv, Shape, Tables, Session
  <1>2. mem \in [Proc -> Mem]  BY DEF IInv, Shape
  <1>3. [mem EXCEPT ![c].local = snap[c].session.local,
                    ![c].expiry = snap[c].session.expiry] \in [Proc -> Mem]
    BY <1>1, <1>2, UpdatedMem, Zenon
  <1>4. mem' \in [Proc -> Mem]  BY <1>2, <1>3, Zenon
    DEF TxBody, Fetch, TryAgain
  <1>5. Shape'  BY <1>4, EmptyTables
    DEF IInv, Shape, TxBody, Ends, Fetch, TryAgain
  <1>6. Good(c)'  BY <1>5, OfTables, SMTT(30)
    DEF IInv, Shape, Good, Calling, Found, ReadLasts, Knows, Mem, TxBody,
        Ends, Fetch, TryAgain,
        Refusal, Seen
  <1>7. \A d \in Proc \ {c} : Same(d)
    BY DEF IInv, Shape, Same, TxBody, Ends, Fetch, TryAgain,
        Refusal, Seen
  <1> QED
    BY <1>5, <1>6, <1>7, Locally DEF TxBody, Ends, Fetch, TryAgain,
        Refusal, Seen

\* A new call for the onion store brings a key.
LEMMA UseStoreKeeps ==
    ASSUME IInv, NEW c \in Proc, UseStore(c)
    PROVE  IInv'
  <1>1. Shape'  BY EmptyTables, EmptyMem, OfTables
    DEF IInv, Shape, UseStore, Calls, OnionOp, lnc
  <1>2. Good(c)'  BY <1>1, OfTables
    DEF IInv, Shape, Good, Calling, Found, ReadLasts, Knows, UseStore, Calls,
        OnionOp, lnc
  <1>3. \A d \in Proc \ {c} : Same(d)
    BY DEF IInv, Shape, Same, UseStore, Calls, OnionOp, lnc
  <1> QED  BY <1>1, <1>2, <1>3, Locally DEF UseStore, Calls, OnionOp, lnc

\* A call whose outcome is not used ends.
LEMMA StoreReturnsKeeps ==
    ASSUME IInv, NEW c \in Proc, StoreReturns(c)
    PROVE  IInv'
  <1>1. Shape'  BY EmptyTables, EmptyMem, OfTables
    DEF IInv, Shape, StoreReturns, Returns
  <1>2. Good(c)'  BY <1>1, OfTables
    DEF IInv, Shape, Good, Calling, Found, ReadLasts, Knows, StoreReturns,
        Returns
  <1>3. \A d \in Proc \ {c} : Same(d)
    BY DEF IInv, Shape, Same, StoreReturns, Returns
  <1> QED  BY <1>1, <1>2, <1>3, Locally DEF StoreReturns, Returns

\* NewNodeConn asks for the session first.
LEMMA NewNodeConnKeeps ==
    ASSUME IInv, NEW c \in Proc, NewNodeConn(c)
    PROVE  IInv'
  <1>1. Shape'  BY EmptyTables, EmptyMem, OfTables
    DEF IInv, Shape, NewNodeConn, Calls
  <1>2. Good(c)'  BY <1>1, OfTables
    DEF IInv, Shape, Good, Calling, Found, ReadLasts, Knows, NewNodeConn, Calls
  <1>3. \A d \in Proc \ {c} : Same(d)
    BY DEF IInv, Shape, Same, NewNodeConn, Calls
  <1> QED  BY <1>1, <1>2, <1>3, Locally DEF NewNodeConn, Calls

\* A session that was read is used, or one is to be added.
LEMMA GotSessionKeeps ==
    ASSUME IInv, NEW c \in Proc, GotSession(c)
    PROVE  IInv'
  <1>1. mem \in [Proc -> Mem]  BY DEF IInv, Shape
  <1>2. \A k \in Key : [mem EXCEPT ![c].local = k] \in [Proc -> Mem]
    BY <1>1, UpdatedMem, Zenon
  <1>3. [mem EXCEPT ![c] = NoMem] \in [Proc -> Mem]  BY <1>1, EmptyMem
  <1>4. mem' \in [Proc -> Mem]  BY <1>1, <1>2, <1>3, Zenon
    DEF GotSession
  <1>5. Shape'  BY <1>4, EmptyTables
    DEF IInv, Shape, GotSession, Calls, Returns
  <1>6. Good(c)'  BY <1>5, OfTables
    DEF IInv, Shape, Good, Calling, Found, ReadLasts, Knows, Mem, GotSession,
        Calls, Returns, NoMem
  <1>7. \A d \in Proc \ {c} : Same(d)
    BY DEF IInv, Shape, Same, GotSession, Calls, Returns, NoMem
  <1> QED  BY <1>5, <1>6, <1>7, Locally DEF GotSession, Calls, Returns, NoMem

\* A session that was added is used.
LEMMA AddedSessionKeeps ==
    ASSUME IInv, NEW c \in Proc, AddedSession(c)
    PROVE  IInv'
  <1>1. mem' \in [Proc -> Mem]  BY EmptyMem
    DEF IInv, Shape, Mem, Tables, Session, AddedSession
  <1>2. Shape'  BY <1>1, EmptyTables
    DEF IInv, Shape, AddedSession, Returns
  <1>3. Good(c)'  BY <1>2, OfTables
    DEF IInv, Shape, Good, Calling, Found, ReadLasts, Knows, AddedSession,
        Returns, NoMem
  <1>4. \A d \in Proc \ {c} : Same(d)
    BY DEF IInv, Shape, Same, AddedSession, Returns, NoMem
  <1> QED  BY <1>2, <1>3, <1>4, Locally DEF AddedSession, Returns, NoMem

\* An open connection stores the key of its peer.
LEMMA OnRemoteStaticKeeps ==
    ASSUME IInv, NEW c \in Proc, OnRemoteStatic(c)
    PROVE  IInv'
  <1>1. Shape'  BY EmptyTables, EmptyMem, OfTables
    DEF IInv, Shape, OnRemoteStatic, Calls, lnc
  <1>2. Good(c)'  BY <1>1, OfTables
    DEF IInv, Shape, Good, Calling, Found, ReadLasts, Knows, OnRemoteStatic,
        Calls, lnc
  <1>3. \A d \in Proc \ {c} : Same(d)
    BY DEF IInv, Shape, Same, OnRemoteStatic, Calls, lnc
  <1> QED  BY <1>1, <1>2, <1>3, Locally DEF OnRemoteStatic, Calls, lnc

\* An open connection stores its expiry and keeps its key.
LEMMA OnAuthDataKeeps ==
    ASSUME IInv, NEW c \in Proc, OnAuthData(c)
    PROVE  IInv'
  <1>1. Shape'  BY EmptyTables, EmptyMem, OfTables
    DEF IInv, Shape, Mem, OnAuthData, Calls
  <1>2. Good(c)'  BY <1>1, OfTables
    DEF IInv, Shape, Good, Calling, Found, ReadLasts, Knows, OnAuthData, Calls
  <1>3. \A d \in Proc \ {c} : Same(d)
    BY DEF IInv, Shape, Same, OnAuthData, Calls
  <1> QED  BY <1>1, <1>2, <1>3, Locally DEF OnAuthData, Calls

\* A closed connection claims nothing.
LEMMA CloseConnKeeps ==
    ASSUME IInv, NEW c \in Proc, CloseConn(c)
    PROVE  IInv'
  <1>1. Shape'  BY EmptyTables, EmptyMem, OfTables
    DEF IInv, Shape, CloseConn
  <1>2. Good(c)'  BY <1>1, OfTables
    DEF IInv, Shape, Good, Calling, Found, ReadLasts, Knows, CloseConn, NoMem
  <1>3. \A d \in Proc \ {c} : Same(d)
    BY DEF IInv, Shape, Same, CloseConn, NoMem
  <1> QED  BY <1>1, <1>2, <1>3, Locally DEF CloseConn, NoMem

\* Nor does a process that has ended.
LEMMA CrashKeeps ==
    ASSUME IInv, NEW c \in Proc, Crash(c)
    PROVE  IInv'
  <1>1. Shape'  BY EmptyTables, EmptyMem, OfTables
    DEF IInv, Shape, Crash
  <1>2. Good(c)'  BY <1>1, OfTables
    DEF IInv, Shape, Good, Calling, Found, ReadLasts, Knows, Crash, NoMem
  <1>3. \A d \in Proc \ {c} : Same(d)  BY DEF IInv, Shape, Same, Crash, NoMem
  <1> QED  BY <1>1, <1>2, <1>3, Locally DEF Crash, NoMem

\* A commit that stores an onion key does so where there was no other one; one
\* that adds a session does so where there was none.
LEMMA CommitTxKeeps ==
    ASSUME IInv, NEW c \in Proc, CommitTx(c)
    PROVE  IInv'
  <1> USE DEF IInv
  <1>1. /\ op' = op /\ node' = node /\ mem' = mem
        /\ pc' = [pc EXCEPT ![c] = "done"]
        /\ snap' = [snap EXCEPT ![c] = Empty]
        /\ \E r : result' = [result EXCEPT ![c] = r]
    BY DEF CommitTx, Ends, lnc
  <1>2. op[c].name \in {"storeKey", "addSession"} => op[c].key \in Key
    BY DEF Good, Calling, CommitTx
  <1>3. \A d \in Proc \ {c} : Same(d)  BY <1>1 DEF Shape, Same
  <1>4. ASSUME node[c] = "add", result'[c] = "ok"
        PROVE  op[c].key \in Key /\ db'.session.local = op[c].key
    <2>1. /\ op[c].name = "addSession" /\ op[c].key \in Key
          /\ snap[c].session = NoSession
      BY <1>4 DEF CommitTx, Good, Calling, Found
    <2>2. Written(c) # snap[c]
      BY <2>1, EffectOnTables, NoneIsNoKey DEF Written, Shape, NoSession
    <2>3. db' = Effect(op[c], db)
      BY <1>4, <2>2 DEF CommitTx, Ends, Shape
    <2> QED  BY <2>1, <2>3, EffectOnTables DEF Shape
  <1>5. ASSUME Kept PROVE Good(c)'
    <2>1. pc[c] = "commit" /\ pc'[c] = "done"  BY <1>1 DEF CommitTx, Shape
    <2>2. node[c] = "add" /\ result'[c] = "ok" => Knows(c, db)'
      BY <1>1, <1>4, <2>1, NoneIsNoKey DEF Knows, Good, Calling, NoSession
    <2>3. node[c] \in {"get", "open"} => Knows(c, db)'
      BY <1>1, <1>5, <2>1 DEF Knows, Good, ReadLasts, Kept
    <2> QED  BY <1>1, <2>1, <2>2, <2>3
             DEF Good, Calling, Found, ReadLasts, Knows
  <1>6. CASE db' = db
    <2>1. Shape'  BY <1>1, <1>6, EmptyTables DEF Shape
    <2>2. Good(c)'  BY <1>6, <1>5 DEF Kept
    <2> QED  BY <1>6, <2>1, <2>2, <1>3, Locally
  <1>7. CASE /\ Commits(c) /\ Written(c) # snap[c]
             /\ db' = Effect(op[c], db)
    <2>1. Of(op[c], db) = snap[c]  BY <1>7 DEF Commits
    <2>2. db' \in Tables  BY <1>2, <1>7, EffectOnTables DEF Shape
    <2>3. Shape'  BY <1>1, <2>2, EmptyTables DEF Shape
    <2>4. AtMostOneKey'
      <3>1. CASE op[c].name = "storeKey"
        BY <1>2, <1>7, <2>1, <3>1, EffectOnTables, OfTables
        DEF Shape, Good, Found, CommitTx, AtMostOneKey
      <3>2. CASE op[c].name # "storeKey"
        BY <1>2, <1>7, <3>2, EffectOnTables DEF Shape, AtMostOneKey
      <3> QED  BY <3>1, <3>2
    <2>5. Kept
      <3>1. CASE op[c].name = "addSession"
        <4>1. snap[c].session = NoSession
          BY <3>1 DEF Good, Found, CommitTx
        <4>2. db.session = snap[c].session
          BY <2>1, <3>1, OfTables DEF Shape
        <4> QED  BY <4>1, <4>2 DEF Kept
      <3>2. CASE op[c].name # "addSession"
        BY <1>2, <1>7, <3>2, EffectOnTables DEF Kept, Shape
      <3> QED  BY <3>1, <3>2
    <2>6. Good(c)'  BY <1>5, <2>5
    <2>7. \A d \in Proc : Good(d)'  BY <1>3, <2>5, <2>6, Elsewhere
    <2> QED  BY <2>3, <2>4, <2>7
  <1> QED  BY <1>6, <1>7 DEF CommitTx

\* Every step keeps the invariant.
LEMMA NextKeeps == IInv /\ [Next]_vars => IInv'
  <1> SUFFICES ASSUME IInv, [Next]_vars PROVE IInv'  OBVIOUS
  <1>1. CASE UNCHANGED vars
    BY <1>1 DEF vars, IInv, Shape, AtMostOneKey, Good, Calling, Found,
                ReadLasts, Knows
  <1>2. CASE Next
    BY <1>2, BeginTxKeeps, TxBodyKeeps, CommitTxKeeps, UseStoreKeeps,
       StoreReturnsKeeps, NewNodeConnKeeps, GotSessionKeeps,
       AddedSessionKeeps, OnRemoteStaticKeeps, OnAuthDataKeeps,
       CloseConnKeeps, CrashKeeps
    DEF Next, Run, ExecTx
  <1> QED  BY <1>1, <1>2

\* No two onion private keys are ever stored, whatever callers and processes
\* run StorePrivateKey at the same time.
THEOREM OneOnionKey == Spec => []AtMostOneKey
  <1>1. IInv => AtMostOneKey  BY DEF IInv
  <1> QED  BY InitIInv, NextKeeps, <1>1, PTL DEF Spec

\* Every open NodeConn uses the local key stored for its session.
THEOREM OneSessionKey == Spec => []ConnUsesStoredKey
  <1>1. IInv => ConnUsesStoredKey  BY DEF IInv, Good, Knows, ConnUsesStoredKey
  <1> QED  BY InitIInv, NextKeeps, <1>1, PTL DEF Spec

-----------------------------------------------------------------------------
(***************************************************************************)
(* The TLS files of the process (Aperture), which it finds, makes or       *)
(* renews and which outlive it, for any services and any number of pairs.  *)
(* Run's place in the code is called main here, as pc is the callers'.     *)
(***************************************************************************)
CONSTANTS Configs, MaxPairs, V3
VARIABLES main, cert, key, pairs, tls, up, server, closed, quit, stopped,
          services, pool, pricers

\* The process, under its own names.
Process == INSTANCE Aperture WITH pc <- main

\* What is in the certificate's file.
Cert == [by : {"none", "own", "operator"}, pair : Nat, old : BOOLEAN]

\* What getTLSConfig has made sure of at each of its steps on the files.
InHand ==
    /\ main \in {"write key", "rewrite key", "reload"} =>
           cert.by = "own" /\ ~cert.old
    /\ main = "remove cert" => cert.by = "own"
    /\ main \in {"write cert", "remove key", "rewrite cert"} =>
           cert.by = "none"

\* The inductive invariant: what is served is what is stored, and at every
\* step on the files, whatever a killed process left in them, the certificate
\* is missing or one of aperture's own.
FInv ==
    /\ cert \in Cert /\ pairs \in Nat
    /\ InHand
    /\ Process!ServedIsStored

\* The invariant holds before the first start.
LEMMA FilesInit == Process!Init => FInv
  BY DEF Process!Init, Process!NoCert, FInv, Cert, InHand,
         Process!ServedIsStored

\* What is written to the certificate's file is one, or none.
LEMMA CertsFit ==
    /\ Process!NoCert \in Cert /\ Process!NoCert.by = "none"
    /\ \A p \in Nat : [by |-> "own", pair |-> p, old |-> FALSE] \in Cert
  BY Zenon DEF Process!NoCert, Cert

\* A step that leaves the files alone and goes to a place that claims nothing.
LEMMA FilesRest ==
    ASSUME FInv, UNCHANGED <<cert, pairs>>,
           main' \in {"off", "exit", "stop", "db", "challenger", "hashmail",
                      "proxy", "tls", "load"}
    PROVE  FInv'
  BY DEF FInv, InHand, Process!ServedIsStored

\* A step among the places at which the server is configured.
LEMMA FilesServed ==
    ASSUME FInv, UNCHANGED <<cert, pairs, key, tls>>,
           \/ main' = main
           \/ /\ main \in {"https", "tor", "onion", "wait"}
              /\ main' \in {"tor", "onion", "wait"}
    PROVE  FInv'
  BY DEF FInv, InHand, Process!ServedIsStored

\* The steps of getTLSConfig.
LEMMA FilesTls == ASSUME FInv, Process!getTLSConfig PROVE FInv'
<1> USE DEF Process!files, Process!FailStart, Process!File
<1>1. cert \in Cert /\ pairs \in Nat /\ InHand
      BY DEF FInv
<1>2. CASE Process!FileFails
      BY <1>2, FilesRest DEF Process!FileFails
<1>3. CASE Process!WriteKeyFails
  <2>1. main' = "exit" /\ cert' = Process!NoCert /\ pairs' = pairs
        BY <1>3 DEF Process!WriteKeyFails
  <2> QED BY <1>1, <2>1, CertsFit DEF FInv, InHand, Process!ServedIsStored
<1>4. CASE Process!Generate
  <2>1. CASE main' = "load"
        BY <1>4, <2>1, FilesRest DEF Process!Generate
  <2>2. CASE main' = "write cert" /\ cert.by = "none"
        BY <1>1, <1>4, <2>2 DEF Process!Generate, FInv, InHand,
                                Process!ServedIsStored
  <2> QED BY <1>4, <2>1, <2>2, CertsFit, Zenon DEF Process!Generate
<1>5. CASE Process!LoadCert
  <2>1. CASE main' = "exit"
        BY <1>5, <2>1, FilesRest DEF Process!LoadCert
  <2>2. CASE main' # "exit"
    <3>1. /\ UNCHANGED <<cert, key, pairs>>
          /\ tls' = cert /\ cert.pair = key
          /\ main' = IF Process!Renews THEN "remove cert" ELSE "https"
          BY <1>5, <2>2 DEF Process!LoadCert, Process!Loads
    <3> QED BY <1>1, <3>1 DEF Process!Renews, FInv, Cert, InHand,
                              Process!ServedIsStored
  <2> QED BY <2>1, <2>2
<1>6. CASE Process!RemoveCert \/ Process!RemoveKey
  <2>1. /\ cert' \in {cert, Process!NoCert} /\ pairs' = pairs
        /\ cert'.by = "none" /\ main' \in {"remove key", "rewrite cert"}
        BY <1>1, <1>6, CertsFit
        DEF Process!RemoveCert, Process!RemoveKey, InHand
  <2> QED BY <1>1, <2>1, CertsFit DEF FInv, InHand, Process!ServedIsStored
<1>7. CASE Process!Reload
  <2>1. CASE main' = "exit"
        BY <1>7, <2>1, FilesRest DEF Process!Reload
  <2>2. CASE main' # "exit"
        BY <1>1, <1>7, <2>2 DEF Process!Reload, Process!Loads, Process!NoCert,
           Process!ReloadCert, FInv, Cert, InHand, Process!ServedIsStored
  <2> QED BY <2>1, <2>2
<1>8. CASE \/ Process!WriteCert("write cert", "write key")
           \/ Process!WriteCert("rewrite cert", "rewrite key")
  <2>1. /\ main' \in {"write key", "rewrite key"} /\ pairs' = pairs
        /\ cert' = [by |-> "own", pair |-> pairs + 1, old |-> FALSE]
        BY <1>8 DEF Process!WriteCert, Process!Pair
  <2>2. cert'.by = "own" /\ ~cert'.old
        BY <2>1, Zenon
  <2>3. pairs + 1 \in Nat
        BY <1>1
  <2> QED BY <1>1, <2>1, <2>2, <2>3, CertsFit
          DEF FInv, InHand, Process!ServedIsStored
<1>9. CASE \/ Process!WriteKey("write key", "load")
           \/ Process!WriteKey("rewrite key", "reload")
  <2>1. /\ main' = "load" \/ (main = "rewrite key" /\ main' = "reload")
        /\ cert' = cert
        BY <1>9 DEF Process!WriteKey
  <2>2. pairs' = pairs + 1
        BY <1>9 DEF Process!WriteKey
  <2>3. pairs' \in Nat
        BY <1>1, <2>2
  <2> QED BY <2>1, <2>3, Zenon DEF FInv, InHand, Process!ServedIsStored
<1> QED BY <1>2, <1>3, <1>4, <1>5, <1>6, <1>7, <1>8, <1>9
        DEF Process!getTLSConfig

\* Every step of the process, its operator and the clock.
LEMMA FilesStep == FInv /\ [Process!Next]_(Process!vars) => FInv'
<1> SUFFICES ASSUME FInv, [Process!Next]_(Process!vars) PROVE FInv'
    OBVIOUS
<1> USE DEF Process!files
<1>1. CASE Process!getTLSConfig
      BY <1>1, FilesTls
<1>2. CASE Process!Run \/ Process!Kill \/ Process!Interrupt \/ Process!WgWait
           \/ Process!initTorListenerFails
      BY <1>2, FilesRest
      DEF Process!Run, Process!Kill, Process!Interrupt, Process!WgWait,
          Process!initTorListenerFails, Process!FailStart
<1>3. CASE \/ Process!StartDB \/ Process!StartChallenger
           \/ Process!createHashMailServer \/ Process!createProxy
      BY <1>3, FilesRest
      DEF Process!StartDB, Process!StartChallenger,
          Process!createHashMailServer, Process!createProxy, Process!Starts,
          Process!FailStart
<1>4. CASE Process!StartServers \/ Process!UpdateServices \/ Process!StopNext
           \/ UNCHANGED Process!vars
      BY <1>4, FilesServed
      DEF Process!StartServers, Process!UpdateServices, Process!StopNext,
          Process!vars
<1>5. ASSUME NEW s \in Process!Server, Process!Goroutine(s)
      PROVE  FInv'
  <2>1. CASE main' = main
        BY <1>5, <2>1, FilesServed
        DEF Process!Goroutine, Process!Serve, Process!SendErr
  <2>2. CASE main' = "stop"
        BY <1>5, <2>2, FilesRest
        DEF Process!Goroutine, Process!Serve, Process!SendErr
  <2> QED BY <1>5, <2>1, <2>2
          DEF Process!Goroutine, Process!Serve, Process!SendErr
<1>6. CASE Process!Age
      BY <1>6 DEF Process!Age, FInv, Cert, InHand, Process!ServedIsStored
<1>7. CASE Process!Install
      BY <1>7 DEF Process!Install, FInv, Cert, InHand, Process!ServedIsStored
<1> QED BY <1>1, <1>2, <1>3, <1>4, <1>5, <1>6, <1>7
        DEF Process!Next, Process!Start, Process!Stop

\* The server is configured with the pair in the files, and with none of
\* aperture's own that should have been renewed, however often the process was
\* killed while it made or renewed one.
THEOREM ServedIsStoredHolds == Process!Spec => []Process!ServedIsStored
<1>1. FInv => Process!ServedIsStored
      BY DEF FInv
<1> QED BY FilesInit, FilesStep, <1>1, PTL DEF Process!Spec

\* Nothing but its owner puts another in the place of an operator's
\* certificate.
LEMMA OthersKeepForeign ==
    ASSUME FInv, Process!Next, cert.by = "operator", ~Process!Install
    PROVE  cert' \in {cert, [cert EXCEPT !.old = TRUE]}
<1> USE DEF Process!files, Process!FailStart
<1>1. InHand
      BY DEF FInv
<1>2. CASE Process!getTLSConfig
      BY <1>1, <1>2
      DEF Process!getTLSConfig, Process!FileFails, Process!WriteKeyFails,
          Process!Generate, Process!LoadCert, Process!RemoveCert,
          Process!RemoveKey, Process!Reload, Process!WriteCert,
          Process!WriteKey, Process!File, InHand
<1>3. CASE Process!Age
      BY <1>3 DEF Process!Age
<1> QED BY <1>2, <1>3
        DEF Process!Next, Process!Start, Process!Stop, Process!Run,
            Process!Kill, Process!Interrupt, Process!WgWait,
            Process!initTorListenerFails, Process!StartDB,
            Process!StartChallenger, Process!createHashMailServer,
            Process!createProxy, Process!Starts, Process!StartServers,
            Process!UpdateServices, Process!StopNext, Process!Goroutine,
            Process!Serve, Process!SendErr

\* getTLSConfig never replaces or removes a certificate that an operator put in
\* place, however old it is and wherever a start was interrupted.
THEOREM ForeignCertKeptHolds == Process!Spec => Process!ForeignCertKept
<1>1. FInv /\ [Process!Next]_(Process!vars) =>
          [cert.by = "operator" =>
               cert' \in {cert, [cert EXCEPT !.old = TRUE]}
               \/ Process!Install]_(Process!vars)
      BY OthersKeepForeign
<1> QED BY FilesInit, FilesStep, <1>1, PTL
        DEF Process!Spec, Process!ForeignCertKept
=============================================================================
