------------------------------ MODULE Contents ------------------------------
(***************************************************************************)
(* The content service behind the gateway: its table of contents, the      *)
(* gRPC handlers that appcli calls (an update is a read, a merge and a     *)
(* write of the whole row; a removal counts before it deletes), the price  *)
(* server and the HTTP handler that aperture forwards a paid request to,   *)
(* and the order in which they are started and stopped.                    *)
(*                                                                         *)
(* A row keeps one text of the three (filepath; title and author are       *)
(* treated alike), the recipient and the price.                            *)
(***************************************************************************)
EXTENDS Integers, Sequences

CONSTANTS Cli, Buyer,
          Id,     \* the ids: sequences of letters
          Text,   \* the texts that a flag may hold
          Empty,  \* the empty text
          Prices, \* the prices that a flag may hold
          Cutset  \* the letters of "/content/"

ASSUME EmptyIsNoText == Empty \notin Text
ASSUME PricesAreIntegers == Prices \subseteq Int

VARIABLES life,  \* "off", "up", or "stopping": the content service is gone
          table, \* the row of each id
          cli,   \* the command of each appcli and the row it sends
          buyer  \* the request of each buyer and the quote it was given

vars == <<life, table, cli, buyer>>

NoRow == [filepath |-> Empty, lud16 |-> Empty, price |-> -1]
Flags == [filepath : Text \union {Empty}, lud16 : Text \union {Empty},
          price : Prices]
NoCmd == [pc |-> "idle", id |-> <<>>, row |-> NoRow]
NoAsk == [pc |-> "idle", path |-> <<>>, quote |-> NoRow]

Init ==
    /\ life = "off"
    /\ table = [i \in Id |-> NoRow]
    /\ cli = [c \in Cli |-> NoCmd]
    /\ buyer = [b \in Buyer |-> NoAsk]

-----------------------------------------------------------------------------
(* The server                                                               *)

\* Start: both listeners are bound, or the process ends.
Start == life = "off" /\ life' = "up" /\ UNCHANGED <<table, cli, buyer>>

\* Stop: the content service first, then the database; the price server and
\* the HTTP server go with the process.
Stop ==
    /\ \/ life = "up" /\ life' = "stopping"
       \/ life \in {"up", "stopping"} /\ life' = "off"
    /\ UNCHANGED <<table, cli, buyer>>

\* A handler may still run while the server stops, until the database is closed.
Goes(c, pc, row) ==
    /\ life # "off"
    /\ cli' = [cli EXCEPT ![c] = [pc |-> pc, id |-> cli[c].id, row |-> row]]
    /\ UNCHANGED <<life, buyer>>
Done(c) == life # "off" /\ cli' = [cli EXCEPT ![c] = NoCmd]
           /\ UNCHANGED <<life, buyer>>

\* The call fails: the connection, the server or its database is gone.
Fail(c) ==
    /\ cli[c].pc # "idle"
    /\ cli' = [cli EXCEPT ![c] = NoCmd]
    /\ UNCHANGED <<life, table, buyer>>

\* A command of appcli, which checks its flags first.
Command(c, pc, i, flags) ==
    /\ cli[c].pc = "idle" /\ life = "up"
    /\ cli' = [cli EXCEPT ![c] = [pc |-> pc, id |-> i, row |-> flags]]
    /\ UNCHANGED <<life, table, buyer>>

addContent(c) ==
    \E i \in Id, f \in Flags :
        /\ f.filepath # Empty /\ f.lud16 # Empty /\ f.price >= 0
        /\ Command(c, "add", i, f)

\* The table's primary key refuses a second row of an id.
AddContent(c) ==
    /\ cli[c].pc = "add"
    /\ \/ table[cli[c].id] # NoRow /\ UNCHANGED table
       \/ /\ table[cli[c].id] = NoRow
          /\ table' = [table EXCEPT ![cli[c].id] = cli[c].row]
    /\ Done(c)

updateContent(c) == \E i \in Id, f \in Flags : Command(c, "get", i, f)

Set(new, old) == IF new = Empty THEN old ELSE new

\* Deviation: a flag that was not given is written as it is.
MergedBlindly(f, row) == f

\* The row with the flags that were given.  A price of 0 is not one.
Merged(f, row) ==
    [filepath |-> Set(f.filepath, row.filepath),
     lud16 |-> Set(f.lud16, row.lud16),
     price |-> IF f.price > 0 THEN f.price ELSE row.price]
Given(f) == f.filepath # Empty \/ f.lud16 # Empty \/ f.price > 0

\* The update reads the row and merges its flags into it.
GetContent(c) ==
    LET row == table[cli[c].id] IN
    /\ cli[c].pc = "get"
    /\ \/ row = NoRow /\ Done(c)
       \/ row # NoRow /\ ~Given(cli[c].row) /\ Done(c)
       \/ /\ row # NoRow /\ Given(cli[c].row)
          /\ Goes(c, "update", Merged(cli[c].row, row))
    /\ UNCHANGED table

\* Deviation: an update is an upsert.
Upserted(c) == [table EXCEPT ![cli[c].id] = cli[c].row]

\* UPDATE ... WHERE id: no row, no change, and no error.
Updated(c) ==
    IF table[cli[c].id] = NoRow THEN table
    ELSE [table EXCEPT ![cli[c].id] = cli[c].row]
UpdateContent(c) ==
    cli[c].pc = "update" /\ table' = Updated(c) /\ Done(c)

removeContent(c) == \E i \in Id : Command(c, "count", i, NoRow)

RemoveContent(c) ==
    \/ /\ cli[c].pc = "count"
       /\ \/ table[cli[c].id] = NoRow /\ Done(c)
          \/ table[cli[c].id] # NoRow /\ Goes(c, "delete", NoRow)
       /\ UNCHANGED table
    \/ /\ cli[c].pc = "delete"
       /\ table' = [table EXCEPT ![cli[c].id] = NoRow]
       /\ Done(c)

-----------------------------------------------------------------------------
(* Buyers                                                                   *)

Prefix == <<"/", "c", "/">>
Path(i) == Prefix \o i
Contains(p) == \E k \in 1..Len(p) : p[k] = "c"

\* strings.TrimLeft: what is left from the first letter not in the cutset on.
TrimLeft(p) ==
    LET kept == {k \in 1..Len(p) : p[k] \notin Cutset}
    IN  IF kept = {} THEN <<>>
        ELSE SubSeq(p, CHOOSE k \in kept : \A l \in kept : k <= l, Len(p))
Lookup(i) == IF i \in Id THEN table[i] ELSE NoRow

Ask(b) ==
    /\ buyer[b].pc = "idle"
    /\ \E p \in {Path(i) : i \in Id} \union {<<"/", "x">>} :
           buyer' = [buyer EXCEPT ![b].pc = "quote", ![b].path = p]
    /\ UNCHANGED <<life, table, cli>>

\* The price server: an error, or the recipient and the price of the row.
GetPaymentDetails(b) ==
    LET row == Lookup(TrimLeft(buyer[b].path)) IN
    /\ buyer[b].pc = "quote"
    /\ \/ /\ ~Contains(buyer[b].path) \/ row = NoRow \/ life = "off"
          /\ buyer' = [buyer EXCEPT ![b] = NoAsk]
       \/ /\ Contains(buyer[b].path) /\ row # NoRow /\ life # "off"
          /\ buyer' = [buyer EXCEPT ![b].pc = "paid", ![b].quote = row]
    /\ UNCHANGED <<life, table, cli>>

\* The paid request: the file of the row, or an error.
contentHandler(b) ==
    /\ buyer[b].pc = "paid"
    /\ buyer' = [buyer EXCEPT ![b] = NoAsk]
    /\ UNCHANGED <<life, table, cli>>

Next ==
    \/ Start \/ Stop
    \/ \E c \in Cli : \/ addContent(c) \/ AddContent(c)
                      \/ updateContent(c) \/ GetContent(c) \/ UpdateContent(c)
                      \/ removeContent(c) \/ RemoveContent(c) \/ Fail(c)
    \/ \E b \in Buyer : Ask(b) \/ GetPaymentDetails(b) \/ contentHandler(b)

Spec == Init /\ [][Next]_vars

-----------------------------------------------------------------------------
Complete(row) == row.filepath # Empty /\ row.lud16 # Empty /\ row.price >= 0

\* Every content that is stored has a file, a recipient to pay and a price,
\* however adds, partial updates and removals interleave: what aperture is
\* quoted can always be turned into an invoice.
AllComplete == \A i \in Id : table[i] # NoRow => Complete(table[i])

\* A content comes into being by addcontent only: an update whose read was
\* before a removal and whose write is after it brings nothing back.
OnlyAddAdds ==
    [][\A i \in Id : table[i] = NoRow /\ table'[i] # NoRow =>
           \E c \in Cli : cli[c].pc = "add" /\ cli[c].id = i]_vars

\* The comment on Pricer: "GetPaymentDetails should return the creator's lud16
\* and price in satoshis for the given resource path."
QuoteIsOfContent ==
    [][\A b \in Buyer, i \in Id :
           buyer[b].pc = "quote" /\ buyer'[b].pc = "paid"
           /\ buyer[b].path = Path(i) => buyer'[b].quote = table[i]]_vars
=============================================================================
