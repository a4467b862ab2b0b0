------------------------------- MODULE Store --------------------------------
(***************************************************************************)
(* The database of aperture under concurrent callers, of one process or of *)
(* several on the same database: ExecTx with its retries over serializable *)
(* transactions, the stores of onion keys and of LNC sessions, and the LNC *)
(* node connection that reads its session and adds it in two               *)
(* transactions.  A transaction works on the snapshot it began with; the   *)
(* database lets it commit only if that is as if it had run alone.         *)
(***************************************************************************)
EXTENDS Naturals, FiniteSets

CONSTANTS Proc, Key, None,
          NumRetries  \* DefaultNumTxRetries

ASSUME NoneIsNoKey == None \notin Key

VARIABLES db,      \* the tables
          op,      \* the operation of each caller, or None
          pc,      \* "idle", "begin", "body", "commit" or "done"
          attempt, \* the loop counter of ExecTx
          snap,    \* the operation's table as its transaction sees it
          result,  \* the outcome, or None
          node,    \* a caller's NodeConn: "off", "get", "add" or "open"
          mem      \* its session, as it is in memory

vars == <<db, op, pc, attempt, snap, result, node, mem>>
lnc == <<node, mem>>

NoSession == [local |-> None, remote |-> FALSE, expiry |-> FALSE]
NoMem == [local |-> None, expiry |-> FALSE]
Empty == [onion |-> {}, session |-> NoSession]

\* The operations of the stores, apart from those of a NodeConn.
OnionOp == [name : {"storeKey"}, key : Key]
           \union [name : {"readKey", "deleteKey"}, key : {None}]

\* The error with which an operation stops at the tables it sees, or "ok".
Refusal(o, d) ==
    CASE o.name = "storeKey" ->
             IF d.onion \subseteq {o.key} THEN "ok" ELSE "exists"
      [] o.name = "readKey" -> IF d.onion = {} THEN "notFound" ELSE "ok"
      [] o.name = "addSession" ->
             IF d.session = NoSession THEN "ok" ELSE "unique"
      [] o.name = "getSession" ->
             IF d.session = NoSession THEN "notFound" ELSE "ok"
      [] OTHER -> "ok"

\* The table that an operation reads and writes.
Of(o, d) ==
    CASE o.name \in {"storeKey", "readKey", "deleteKey"} ->
             [Empty EXCEPT !.onion = d.onion]
      [] OTHER -> [Empty EXCEPT !.session = d.session]

\* The tables after the statements of an operation.
Effect(o, d) ==
    CASE o.name = "storeKey" -> [d EXCEPT !.onion = @ \union {o.key}]
      [] o.name = "deleteKey" -> [d EXCEPT !.onion = {}]
      [] o.name = "addSession" -> [d EXCEPT !.session.local = o.key]
      [] o.name = "setRemote" /\ d.session # NoSession ->
             [d EXCEPT !.session.remote = TRUE]
      [] o.name = "setExpiry" /\ d.session # NoSession ->
             [d EXCEPT !.session.expiry = TRUE]
      [] OTHER -> d

Init ==
    /\ db = Empty
    /\ op = [c \in Proc |-> None]
    /\ pc = [c \in Proc |-> "idle"]
    /\ attempt = [c \in Proc |-> 0]
    /\ snap = [c \in Proc |-> Empty]
    /\ result = [c \in Proc |-> None]
    /\ node = [c \in Proc |-> "off"]
    /\ mem = [c \in Proc |-> NoMem]

-----------------------------------------------------------------------------
(* ExecTx                                                                   *)

\* A call of a store.
Calls(c, name, key) ==
    /\ op' = [op EXCEPT ![c] = [name |-> name, key |-> key]]
    /\ pc' = [pc EXCEPT ![c] = "begin"]
    /\ result' = [result EXCEPT ![c] = None]
    /\ UNCHANGED <<db, snap, attempt>>

Ends(c, r) ==
    /\ result' = [result EXCEPT ![c] = r]
    /\ pc' = [pc EXCEPT ![c] = "done"]
    /\ snap' = [snap EXCEPT ![c] = Empty]
    /\ attempt' = [attempt EXCEPT ![c] = 0]

\* The head of the loop: give up, or begin a transaction, which may fail.
BeginTx(c) ==
    /\ pc[c] = "begin"
    /\ IF attempt[c] = NumRetries
       THEN Ends(c, "retries")
       ELSE \/ /\ snap' = [snap EXCEPT ![c] = Of(op[c], db)]
               /\ pc' = [pc EXCEPT ![c] = "body"]
               /\ UNCHANGED <<attempt, result>>
            \/ Ends(c, "error")
    /\ UNCHANGED <<db, op, lnc>>

\* What txBody reads: the snapshot, except that PrivateKey asks the database
\* outside of its transaction.
Seen(c) == IF op[c].name = "readKey" THEN db ELSE snap[c]

\* The session that GetSession's body puts together is the caller's; what
\* it knows of the peer is for the connection alone.
Fetch(c) ==
    IF op[c].name = "getSession"
    THEN mem' = [mem EXCEPT ![c].local = snap[c].session.local,
                            ![c].expiry = snap[c].session.expiry]
    ELSE UNCHANGED mem

\* A serialization failure is rolled back and tried again.
TryAgain(c) ==
    /\ pc' = [pc EXCEPT ![c] = "begin"]
    /\ snap' = [snap EXCEPT ![c] = Empty]
    /\ attempt' = [attempt EXCEPT ![c] = @ + 1]
    /\ UNCHANGED <<result, mem>>

\* txBody: it is refused, or hits another error, or cannot be serialized and
\* is tried again, or goes on to the commit.
TxBody(c) ==
    /\ pc[c] = "body"
    /\ \/ /\ Refusal(op[c], Seen(c)) # "ok"
          /\ Ends(c, Refusal(op[c], Seen(c))) /\ UNCHANGED mem
       \/ Ends(c, "error") /\ UNCHANGED mem
       \/ TryAgain(c)
       \/ /\ Refusal(op[c], Seen(c)) = "ok"
          /\ pc' = [pc EXCEPT ![c] = "commit"]
          /\ Fetch(c) /\ UNCHANGED <<attempt, snap, result>>
    /\ UNCHANGED <<db, op, node>>

\* Serializable: nothing the transaction has read has changed since, or it has
\* changed nothing itself.
Written(c) == Effect(op[c], snap[c])

\* Deviation: a weaker isolation level; each row it writes is kept.
CommitsAnyway(c) == TRUE

Commits(c) == Of(op[c], db) = snap[c] \/ Written(c) = snap[c]

\* Commit.  A failure is returned at once; with the connection the answer may
\* be lost as well.
CommitTx(c) ==
    /\ pc[c] = "commit"
    /\ \/ /\ Commits(c)
          /\ db' = IF Written(c) = snap[c] THEN db ELSE Effect(op[c], db)
          /\ \E r \in {"ok", "error"} : Ends(c, r)
       \/ /\ \E r \in {"error", "serialization"} : Ends(c, r)
          /\ UNCHANGED db
    /\ UNCHANGED <<op, lnc>>

ExecTx(c) == BeginTx(c) \/ TxBody(c) \/ CommitTx(c)

\* The store's method returns and its caller goes on with label l.
Returns(c, l) ==
    /\ pc[c] = "done"
    /\ op' = [op EXCEPT ![c] = None]
    /\ pc' = [pc EXCEPT ![c] = "idle"]
    /\ result' = [result EXCEPT ![c] = None]
    /\ node' = [node EXCEPT ![c] = l]
    /\ UNCHANGED <<db, snap, attempt>>

\* The other stores are used by callers without a connection.
UseStore(c) ==
    /\ pc[c] = "idle" /\ node[c] = "off"
    /\ \E o \in OnionOp : Calls(c, o.name, o.key)
    /\ UNCHANGED lnc
StoreReturns(c) ==
    node[c] \in {"off", "open"} /\ Returns(c, node[c]) /\ UNCHANGED mem

-----------------------------------------------------------------------------
(* NodeConn                                                                 *)

NewNodeConn(c) ==
    /\ pc[c] = "idle" /\ node[c] = "off"
    /\ Calls(c, "getSession", None)
    /\ node' = [node EXCEPT ![c] = "get"]
    /\ UNCHANGED mem

\* A session that is not found is added with a new local key; one that is
\* found is used; any other error ends NewNodeConn.
GotSession(c) ==
    /\ pc[c] = "done" /\ node[c] = "get"
    /\ \/ /\ result[c] = "notFound"
          /\ \E k \in Key :
                 /\ mem' = [mem EXCEPT ![c].local = k]
                 /\ Calls(c, "addSession", k)
          /\ node' = [node EXCEPT ![c] = "add"]
       \/ result[c] = "ok" /\ Returns(c, "open") /\ UNCHANGED mem
       \/ /\ result[c] \notin {"ok", "notFound"} /\ Returns(c, "off")
          /\ mem' = [mem EXCEPT ![c] = NoMem]

\* Deviation: a session that cannot be added is used all the same.
AddedSessionUnchecked(c) ==
    /\ pc[c] = "done" /\ node[c] = "add"
    /\ Returns(c, "open") /\ UNCHANGED mem

AddedSession(c) ==
    /\ pc[c] = "done" /\ node[c] = "add"
    /\ \/ result[c] = "ok" /\ Returns(c, "open") /\ UNCHANGED mem
       \/ /\ result[c] # "ok" /\ Returns(c, "off")
          /\ mem' = [mem EXCEPT ![c] = NoMem]

\* The callbacks of the connection.  The expiry is taken from the first
\* macaroon only; that it could not be stored is logged.
OnRemoteStatic(c) ==
    /\ pc[c] = "idle" /\ node[c] = "open"
    /\ Calls(c, "setRemote", None)
    /\ UNCHANGED lnc
OnAuthData(c) ==
    /\ pc[c] = "idle" /\ node[c] = "open" /\ ~mem[c].expiry
    /\ mem' = [mem EXCEPT ![c].expiry = TRUE]
    /\ Calls(c, "setExpiry", None)
    /\ UNCHANGED node
CloseConn(c) ==
    /\ pc[c] = "idle" /\ node[c] = "open"
    /\ node' = [node EXCEPT ![c] = "off"]
    /\ mem' = [mem EXCEPT ![c] = NoMem]
    /\ UNCHANGED <<db, op, pc, attempt, snap, result>>

\* The process of a caller ends; the database rolls its transaction back.
Crash(c) ==
    /\ op' = [op EXCEPT ![c] = None]
    /\ pc' = [pc EXCEPT ![c] = "idle"]
    /\ snap' = [snap EXCEPT ![c] = Empty]
    /\ attempt' = [attempt EXCEPT ![c] = 0]
    /\ result' = [result EXCEPT ![c] = None]
    /\ node' = [node EXCEPT ![c] = "off"]
    /\ mem' = [mem EXCEPT ![c] = NoMem]
    /\ UNCHANGED db

Run(c) == ExecTx(c) \/ StoreReturns(c) \/ GotSession(c) \/ AddedSession(c)
Next ==
    \E c \in Proc :
        \/ Run(c) \/ UseStore(c) \/ Crash(c)
        \/ NewNodeConn(c) \/ OnRemoteStatic(c) \/ OnAuthData(c) \/ CloseConn(c)

Spec == Init /\ [][Next]_vars

-----------------------------------------------------------------------------
\* Every variable has its type.
TypeOK ==
    /\ db.onion \in SUBSET Key
    /\ pc \in [Proc -> {"idle", "begin", "body", "commit", "done"}]
    /\ attempt \in [Proc -> 0..NumRetries]
    /\ node \in [Proc -> {"off", "get", "add", "open"}]

\* StorePrivateKey looks for another key and adds its own in two statements,
\* and the table only forbids the same key twice; all the same no two onion
\* keys are ever stored, however many callers and processes do so at once.
AtMostOneKey == \A k, l \in db.onion : k = l

\* A NodeConn that is open uses the local key that the database has for its
\* session, although it was looked up and added in two transactions, with
\* other processes and crashes in between: after a restart the peer knows it.
ConnUsesStoredKey ==
    \A c \in Proc : node[c] = "open" =>
        db.session # NoSession /\ mem[c].local = db.session.local

\* The comment on DefaultNumTxRetries: "the default number of times we'll
\* retry a transaction if it fails with an error that permits transaction
\* repetition".  A serialization failure is not reported before they are used
\* up.
ConflictIsRetried == \A c \in Proc : result[c] # "serialization"
=============================================================================
