--------------------------- MODULE ContentsProofs ---------------------------
(***************************************************************************)
(* Proofs about Contents, for any ids, texts, prices, commands and buyers. *)
(***************************************************************************)
EXTENDS Contents, TLAPS

Row == [filepath : Text \union {Empty}, lud16 : Text \union {Empty}, price : Int]
Cmd == [pc : {"idle", "add", "get", "update", "count", "delete"},
        id : Id \union {<<>>}, row : Row]

\* A row that is about to be inserted, or written by an update, is complete.
Sends(c) ==
    /\ cli[c].pc # "idle" => cli[c].id \in Id
    /\ cli[c].pc \in {"add", "update"} => Complete(cli[c].row)

\* The inductive invariant: the row in the hands of a command counts as well,
\* as it was read and merged before it is written.
IInv ==
    /\ table \in [Id -> Row]
    /\ cli \in [Cli -> Cmd]
    /\ \A c \in Cli : Sends(c)
    /\ AllComplete

\* A command's flags are a row, and so is none.
LEMMA Rows == NoRow \in Row /\ Flags \subseteq Row /\ NoCmd \in Cmd
  <1>1. NoRow \in Row  BY DEF NoRow, Row
  <1>2. ASSUME NEW f \in Flags PROVE f \in Row
    BY PricesAreIntegers DEF Row, Flags
  <1> QED  BY <1>1, <1>2 DEF NoCmd, Cmd

\* The merge of any flags into a complete row is complete.
LEMMA MergedComplete ==
    ASSUME NEW f \in Row, NEW row \in Row, Complete(row)
    PROVE  Merged(f, row) \in Row /\ Complete(Merged(f, row))
  BY DEF Complete, Merged, Set, Row

\* A command of one appcli that leaves the table alone and sends no row that
\* is not complete keeps the invariant.
LEMMA CommandKeeps ==
    ASSUME IInv, NEW c \in Cli, NEW m \in Cmd,
           m.pc # "idle" => m.id \in Id,
           m.pc \in {"add", "update"} => Complete(m.row),
           cli' = [cli EXCEPT ![c] = m],
           table' \in [Id -> Row],
           \A i \in Id : table'[i] # NoRow => Complete(table'[i])
    PROVE  IInv'
  <1>1. cli' \in [Cli -> Cmd]  BY DEF IInv
  <1>2. \A d \in Cli : Sends(d)'  BY DEF IInv, Sends
  <1> QED  BY <1>1, <1>2 DEF IInv, AllComplete

\* A step of appcli or of its handler keeps the invariant.
LEMMA CliKeeps ==
    ASSUME IInv, NEW c \in Cli,
           \/ addContent(c) \/ AddContent(c) \/ updateContent(c)
           \/ GetContent(c) \/ UpdateContent(c)
           \/ removeContent(c) \/ RemoveContent(c) \/ Fail(c)
    PROVE  IInv'
  <1> DEFINE New(pc, i, row) == [pc |-> pc, id |-> i, row |-> row]
  <1>1. /\ table \in [Id -> Row] /\ cli[c] \in Cmd
        /\ \A i \in Id : table[i] # NoRow => Complete(table[i])
    BY DEF IInv, AllComplete
  <1>2. ASSUME cli' = [cli EXCEPT ![c] = NoCmd], table' = table PROVE IInv'
    BY <1>1, <1>2, Rows, CommandKeeps DEF NoCmd
  <1>3. ASSUME NEW pc \in {"add", "get", "count"}, NEW i \in Id,
               NEW f \in Row, pc = "add" => Complete(f), Command(c, pc, i, f)
        PROVE  IInv'
    <2>1. New(pc, i, f) \in Cmd  BY DEF Cmd
    <2> QED  BY <1>1, <1>3, <2>1, CommandKeeps DEF Command
  <1>4. CASE addContent(c)
    BY <1>3, <1>4, Rows DEF addContent, Complete
  <1>5. CASE updateContent(c)  BY <1>3, <1>5, Rows DEF updateContent
  <1>6. CASE removeContent(c)  BY <1>3, <1>6, Rows DEF removeContent
  <1>7. CASE AddContent(c)
    <2>1. cli[c].id \in Id /\ cli[c].row \in Row /\ Complete(cli[c].row)
      BY <1>1, <1>7 DEF AddContent, IInv, Sends, Cmd
    <2> QED  BY <1>1, <1>2, <1>7, <2>1, Rows, CommandKeeps
             DEF AddContent, Done, NoCmd
  <1>8. CASE UpdateContent(c)
    <2>1. cli[c].id \in Id /\ cli[c].row \in Row /\ Complete(cli[c].row)
      BY <1>1, <1>8 DEF UpdateContent, IInv, Sends, Cmd
    <2> QED  BY <1>1, <1>8, <2>1, Rows, CommandKeeps
             DEF UpdateContent, Updated, Done, NoCmd
  <1>9. ASSUME NEW pc \in {"update", "delete"}, NEW row \in Row,
               Goes(c, pc, row), table' = table, cli[c].pc # "idle",
               pc = "update" => Complete(row)
        PROVE  IInv'
    <2>1. cli[c].id \in Id  BY <1>9 DEF IInv, Sends
    <2>2. cli' = [cli EXCEPT ![c] = New(pc, cli[c].id, row)]
      BY <1>9 DEF Goes
    <2>3. New(pc, cli[c].id, row) \in Cmd  BY <2>1 DEF Cmd
    <2> QED  BY <1>1, <1>9, <2>1, <2>2, <2>3, CommandKeeps
  <1>10. CASE GetContent(c)
    <2>1. cli[c].id \in Id /\ cli[c].row \in Row /\ cli[c].pc = "get"
      BY <1>1, <1>10 DEF GetContent, IInv, Sends, Cmd
    <2>2. CASE Done(c)  BY <1>2, <1>10, <2>2 DEF GetContent, Done
    <2>3. CASE /\ table[cli[c].id] # NoRow
               /\ Goes(c, "update", Merged(cli[c].row, table[cli[c].id]))
      BY <1>1, <1>9, <1>10, <2>1, <2>3, MergedComplete DEF GetContent
    <2> QED  BY <1>10, <2>2, <2>3 DEF GetContent
  <1>11. CASE RemoveContent(c)
    <2>1. CASE /\ cli[c].pc = "count" /\ table' = table
               /\ Done(c) \/ Goes(c, "delete", NoRow)
      BY <1>2, <1>9, <2>1, Rows DEF Done
    <2>2. CASE /\ cli[c].pc = "delete" /\ Done(c)
               /\ table' = [table EXCEPT ![cli[c].id] = NoRow]
      BY <1>1, <2>2, Rows, CommandKeeps DEF Done, NoCmd
    <2> QED  BY <1>11, <2>1, <2>2 DEF RemoveContent
  <1>12. CASE Fail(c)  BY <1>2, <1>12 DEF Fail
  <1> QED  BY <1>4, <1>5, <1>6, <1>7, <1>8, <1>11, <1>12, <1>10

\* Every content that is ever stored has a file, a recipient and a price.
THEOREM ContentsComplete == Spec => []AllComplete
  <1>1. Init => IInv
    BY Rows DEF Init, IInv, Sends, AllComplete, NoCmd
  <1>2. IInv /\ [Next]_vars => IInv'
    <2>1. ASSUME IInv, UNCHANGED <<table, cli>> PROVE IInv'
      BY <2>1 DEF IInv, Sends, AllComplete
    <2> QED
      BY <2>1, CliKeeps
      DEF Next, vars, Start, Stop, Ask, GetPaymentDetails, contentHandler
  <1>3. IInv => AllComplete  BY DEF IInv
  <1> QED  BY <1>1, <1>2, <1>3, PTL DEF Spec

\* Only addcontent makes a content: no update brings a removed one back.
THEOREM NoResurrection == Spec => OnlyAddAdds
  <1> DEFINE Step == \A i \in Id : table[i] = NoRow /\ table'[i] # NoRow =>
                        \E c \in Cli : cli[c].pc = "add" /\ cli[c].id = i
  <1>1. DOMAIN table = Id /\ Next => Step
    BY DEF Next, Start, Stop, addContent, AddContent, updateContent,
           GetContent, UpdateContent, Updated, removeContent, RemoveContent,
           Fail, Command, Ask, GetPaymentDetails, contentHandler
  <1>2. Init => DOMAIN table = Id  BY DEF Init
  <1>3. DOMAIN table = Id /\ [Next]_vars => (DOMAIN table = Id)'
    BY DEF vars, Next, Start, Stop, addContent, AddContent, updateContent,
           GetContent, UpdateContent, Updated, removeContent, RemoveContent,
           Fail, Command, Ask, GetPaymentDetails, contentHandler
  <1>4. DOMAIN table = Id /\ [Next]_vars => [Step]_vars  BY <1>1
  <1> QED  BY <1>2, <1>3, <1>4, PTL DEF Spec, OnlyAddAdds
=============================================================================
