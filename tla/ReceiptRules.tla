---------------------------- MODULE ReceiptRules ----------------------------
(***************************************************************************)
(* The vocabulary of receipt processing, shared by the abstract            *)
(* specification (ReceiptLog) and by the concurrent one (Receipts): the    *)
(* rank of a status, and what process_batch computes from one batch of     *)
(* callbacks without looking at the database.                              *)
(***************************************************************************)
EXTENDS Naturals, Sequences, FiniteSets

CONSTANTS
    Ids,         \* communication ids a callback may name
    Comms,       \* the ids that have a row in communications
    Customers,   \* ids of the customers
    CustomerOf,  \* the customer each communication is addressed to
    EventTypes,  \* the event types callbacks carry
    MaxTime,     \* occurred_at ranges over 1..MaxTime, 0 stands for NULL
    Batches      \* the batches of callbacks the service may receive

STATUS_RANKS ==
    [queued |-> 0, sent |-> 10, failed |-> 15, delivered |-> 20, opened |-> 30,
     read |-> 40, clicked |-> 50, converted |-> 60]

Times == 1..MaxTime
Keys  == Comms \X EventTypes
Event == [communication_id : Ids, event_type : EventTypes, occurred_at : Times]

ASSUME ConstantsAssumption ==
    /\ Comms \subseteq Ids
    /\ CustomerOf \in [Comms -> Customers]
    /\ EventTypes \subseteq DOMAIN STATUS_RANKS \ {"queued"}
    /\ MaxTime \in Nat
    /\ Batches \subseteq Seq(Event)

-----------------------------------------------------------------------------
\* Rows of the two tables a receipt updates.
Status == {"queued"} \cup EventTypes

CommRow == [status : Status, status_rank : Nat, last_event_at : Nat]
CustRow == [order_count : Nat, last_order_at : Nat]

NewComm == [status |-> "queued", status_rank |-> 0, last_event_at |-> 0]
NewCust == [order_count |-> 0, last_order_at |-> 0]

\* Wrong on purpose: COALESCE alone, the first date stays.
FirstDateStays(s, t) == IF s = 0 THEN t ELSE s

\* GREATEST(COALESCE(s, t), t).
Later(s, t) == IF s < t THEN t ELSE s

\* Wrong on purpose: the UPDATE without its rank test.
RaisedAlways(row, ev) ==
    [status        |-> ev.event_type,
     status_rank   |-> STATUS_RANKS[ev.event_type],
     last_event_at |-> Later(row.last_event_at, ev.occurred_at)]

\* The SET list of the UPDATE on communications, for one joined row.
Raised(row, ev) ==
    LET rank == STATUS_RANKS[ev.event_type]
        up   == row.status_rank < rank
    IN  [status        |-> IF up THEN ev.event_type ELSE row.status,
         status_rank   |-> IF up THEN rank ELSE row.status_rank,
         last_event_at |-> Later(row.last_event_at, ev.occurred_at)]

\* Wrong on purpose: the date of the last statement, without GREATEST.
CreditedLastDate(row, n, latest) ==
    [order_count |-> row.order_count + n, last_order_at |-> latest]

\* The SET list of the UPDATE on customers; total_spend grows by a fixed amount
\* per order and so says no more than order_count.
Credited(row, n, latest) ==
    [order_count   |-> row.order_count + n,
     last_order_at |-> Later(row.last_order_at, latest)]

-----------------------------------------------------------------------------
\* One batch. A row of the batch is named by its index.
Key(ev) == <<ev.communication_id, ev.event_type>>

\* The first callback of each (communication, type) is kept, ids without a
\* communication are dropped.
Valid(b) ==
    {i \in DOMAIN b : /\ b[i].communication_id \in Comms
                      /\ \A j \in 1..(i - 1) : Key(b[j]) # Key(b[i])}

\* Wrong on purpose: the first event of a communication in the batch, not the best.
FirstIsBest(b, S) ==
    {i \in S : \A j \in S : b[j].communication_id = b[i].communication_id => i <= j}

\* Of the rows S, the one with the highest rank for each communication.
Best(b, S) ==
    {i \in S : \A j \in S :
        b[j].communication_id = b[i].communication_id =>
            STATUS_RANKS[b[j].event_type] <= STATUS_RANKS[b[i].event_type]}

Converted(b, S) == {i \in S : b[i].event_type = "converted"}

Customer(b, i) == CustomerOf[b[i].communication_id]

\* The conversions in S that belong to customer u, and the latest of their dates.
OfCustomer(b, S, u) == {i \in S : Customer(b, i) = u}
Latest(b, S) == CHOOSE t \in {b[i].occurred_at : i \in S} :
                    \A i \in S : b[i].occurred_at <= t

\* A customer is updated once, when its first order of the statement comes up.
FirstOfCustomer(b, S) ==
    {i \in S : \A j \in S : Customer(b, j) = Customer(b, i) => i <= j}
=============================================================================
