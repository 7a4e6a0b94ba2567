----------------------------- MODULE ReceiptLog -----------------------------
(***************************************************************************)
(* What the receipts endpoint promises: the database looks as if batches   *)
(* had been applied one after the other, each of them whole or not at all, *)
(* whatever the number of requests in flight and however often a batch is  *)
(* delivered.                                                              *)
(***************************************************************************)
EXTENDS ReceiptRules

VARIABLES
    communication_events,  \* the append-only log, a set of events
    communications,        \* row of every communication
    orders,                \* conv_<id> orders: the converted events they come from
    customers              \* row of every customer

vars == <<communication_events, communications, orders, customers>>

Init ==
    /\ communication_events = {}
    /\ communications = [c \in Comms |-> NewComm]
    /\ orders = {}
    /\ customers = [u \in Customers |-> NewCust]

Logged == {Key(e) : e \in communication_events}

\* The new rows of a batch, all of them: they are appended, the best of them
\* raise their communications, conversions become orders of their customers.
AppendNew(b, new) ==
    /\ communication_events' = communication_events \cup {b[i] : i \in new}
    /\ communications' =
         [c \in Comms |->
             IF \E i \in Best(b, new) : b[i].communication_id = c
             THEN Raised(communications[c],
                         b[CHOOSE i \in Best(b, new) : b[i].communication_id = c])
             ELSE communications[c]]
    /\ orders' = orders \cup {b[i] : i \in Converted(b, new)}
    /\ customers' =
         [u \in Customers |->
             LET mine == OfCustomer(b, Converted(b, new), u)
             IN  IF mine = {} THEN customers[u]
                 ELSE Credited(customers[u], Cardinality(mine), Latest(b, mine))]

Apply(b) == AppendNew(b, {i \in Valid(b) : Key(b[i]) \notin Logged})

Next == \E b \in Batches : Apply(b)

Spec == Init /\ [][Next]_vars
=============================================================================
