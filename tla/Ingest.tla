------------------------------- MODULE Ingest -------------------------------
(***************************************************************************)
(* The four ways in which customers and orders get into the database       *)
(* besides receipts: bulk customers, bulk orders (ingest_service), the CSV *)
(* upload (customers_service) and the Olist load (scripts.load_olist).     *)
(* Bulk orders credit the counters of their customers; an upload and a     *)
(* load overwrite them.  Each request is a READ COMMITTED transaction      *)
(* whose statements take their rows one by one, in some order, and cannot  *)
(* take a row that another open transaction has written; a load is two of  *)
(* them.                                                                   *)
(***************************************************************************)
EXTENDS Naturals, FiniteSets, Sequences

CONSTANTS
    Customers,   \* external ids of customers
    OrderIds,    \* external ids of orders
    MaxTime,     \* ordered_at ranges over 1..MaxTime, 0 stands for NULL
    Requests,    \* the requests the service may receive
    Workers      \* requests handled at the same time

Kinds == {"customers", "upload", "orders", "load"}
CustomerIn == [id : Customers, order_count : Nat, last_order_at : 0..MaxTime]
OrderIn == [id : OrderIds, customer : Customers, ordered_at : 1..MaxTime]

ASSUME RequestsAssumption ==
    /\ Requests \subseteq [kind : Kinds, customers : Seq(CustomerIn), orders : Seq(OrderIn)]
    /\ MaxTime \in Nat

VARIABLES
    customers, orders,         \* the committed rows, by external id
    stage, request, todo,      \* the statement a request is at, the rows it has left
    seen,                      \* the customers that its SELECT returned
    newCustomers, newOrders,   \* the rows it has written and not committed
    figures,                   \* history: the last overwriting of each customer
    inserted,                  \* history: the orders that bulk requests inserted
    reported                   \* history: the sums of the "inserted" answers

tables  == <<customers, orders>>
history == <<figures, inserted, reported>>
vars    == <<tables, stage, request, todo, seen, newCustomers, newOrders, history>>

-----------------------------------------------------------------------------
\* Rows. total_spend is written wherever order_count is, and in the same way.
\* tenant says whether tenant_id is set.
CustomerRow == [tenant : BOOLEAN, order_count : Nat, last_order_at : 0..MaxTime]
OrderRow    == [customer : Customers, ordered_at : 1..MaxTime]

NewCustomer == [tenant |-> FALSE, order_count |-> 0, last_order_at |-> 0]
Nothing == [x \in {} |-> x]
None == [kind |-> "none", customers |-> Nothing, orders |-> Nothing]

Over(f, g) == [x \in DOMAIN f \cup DOMAIN g |-> IF x \in DOMAIN f THEN f[x] ELSE g[x]]

\* Wrong on purpose: an upload that also clears the date it does not have.
SetsEverything(kind) ==
    IF kind = "customers" THEN {} ELSE {"order_count", "last_order_at"}

\* The columns, of those modelled, that the upsert of a kind of request sets.
SetList(kind) ==
    CASE kind = "load"   -> {"tenant", "order_count", "last_order_at"}
      [] kind = "upload" -> {"order_count"}
      [] OTHER           -> {}

Upserted(kind, old, in) ==
    [tenant |-> old.tenant \/ "tenant" \in SetList(kind),
     order_count |-> IF "order_count" \in SetList(kind) THEN in.order_count ELSE old.order_count,
     last_order_at |->
         IF "last_order_at" \in SetList(kind) THEN in.last_order_at ELSE old.last_order_at]

LatestOf(S) == CHOOSE t \in S : \A s \in S : s <= t

\* The SET list of apply_order_aggregates for the orders new, a function of ids.
Credited(row, new) ==
    [row EXCEPT !.order_count = @ + Cardinality(DOMAIN new),
                !.last_order_at = LatestOf({@} \cup {new[o].ordered_at : o \in DOMAIN new})]

OrdersOf(f, c) == [o \in {x \in DOMAIN f : f[x].customer = c} |-> f[o]]

-----------------------------------------------------------------------------
\* Payloads. _order_rows, drop_duplicates: the first row of an order stays.
OrderRows(rows) ==
    [id \in {rows[i].id : i \in DOMAIN rows} |->
        rows[CHOOSE i \in DOMAIN rows : rows[i].id = id /\ \A j \in 1..(i - 1) : rows[j].id # id]]

\* {row.id: row for row in rows}: the last row of an id stays.
Deduped(rows) ==
    [id \in {rows[i].id : i \in DOMAIN rows} |->
        rows[CHOOSE i \in DOMAIN rows :
                 rows[i].id = id /\ \A j \in DOMAIN rows : rows[j].id = id => j <= i]]

\* _customer_rows: the figures of each customer of the file.
FiguresOf(file) ==
    [c \in {file[o].customer : o \in DOMAIN file} |->
        LET mine == OrdersOf(file, c)
        IN  [id |-> c, order_count |-> Cardinality(DOMAIN mine),
             last_order_at |-> LatestOf({mine[o].ordered_at : o \in DOMAIN mine})]]

\* The rows a request works on, by id.
Rows(r) ==
    IF r.kind = "load"
    THEN [kind |-> r.kind, orders |-> OrderRows(r.orders),
          customers |-> FiguresOf(OrderRows(r.orders))]
    ELSE [kind |-> r.kind, orders |-> Deduped(r.orders), customers |-> Deduped(r.customers)]

-----------------------------------------------------------------------------
Init ==
    /\ customers = Nothing
    /\ orders = Nothing
    /\ stage = [w \in Workers |-> "idle"]
    /\ request = [w \in Workers |-> None]
    /\ todo = [w \in Workers |-> {}]
    /\ seen = [w \in Workers |-> {}]
    /\ newCustomers = [w \in Workers |-> Nothing]
    /\ newOrders = [w \in Workers |-> Nothing]
    /\ figures = [c \in Customers |-> [row |-> NewCustomer, orders |-> {}]]
    /\ inserted = Nothing
    /\ reported = [customers |-> 0, orders |-> 0]

Goto(w, s, ids) ==
    /\ stage' = [stage EXCEPT ![w] = s]
    /\ todo' = [todo EXCEPT ![w] = ids]

\* The statement s of request w takes the row x, which nobody else has written.
Take(w, s, x, written) ==
    /\ stage[w] = s
    /\ x \in todo[w]
    /\ \A v \in Workers \ {w} : x \notin DOMAIN written[v]
    /\ Goto(w, s, todo[w] \ {x})

-----------------------------------------------------------------------------
\* A load starts with its customers, the rest with a SELECT.
Receive(w, r) ==
    /\ stage[w] = "idle"
    /\ request' = [request EXCEPT ![w] = Rows(r)]
    /\ IF r.kind = "load" THEN Goto(w, "customers", DOMAIN Rows(r).customers)
       ELSE Goto(w, "select", {})
    /\ UNCHANGED <<tables, seen, newCustomers, newOrders, history>>

\* The ids that exist: of the customers of the payload, of those the orders name,
\* or (load) of the tenant. Orders of unknown customers are dropped.
SelectIds(w) ==
    LET r == request[w]
        ids == {c \in DOMAIN customers : r.kind = "load" => customers[c].tenant}
    IN  /\ stage[w] = "select"
        /\ seen' = [seen EXCEPT ![w] = ids]
        /\ IF r.kind \in {"customers", "upload"} THEN Goto(w, "customers", DOMAIN r.customers)
           ELSE Goto(w, "orders",
                     {o \in DOMAIN r.orders : r.orders[o].customer \in ids})
        /\ UNCHANGED <<tables, request, newCustomers, newOrders, history>>

\* INSERT INTO customers ... ON CONFLICT (external_id) DO UPDATE, one row.
UpsertCustomer(w, c) ==
    LET r   == request[w]
        old == IF c \in DOMAIN customers THEN customers[c] ELSE NewCustomer
        new == [x \in {c} |-> Upserted(r.kind, old, r.customers[c])]
    IN  /\ Take(w, "customers", c, newCustomers)
        /\ newCustomers' = [newCustomers EXCEPT ![w] = Over(new, @)]
        /\ UNCHANGED <<tables, request, seen, newOrders, history>>

OrderOf(w, o) ==
    LET in == request[w].orders[o]
    IN  [x \in {o} |-> [customer |-> in.customer, ordered_at |-> in.ordered_at]]

\* Bulk orders skip a committed order, whoever is about to change it.
Exists(w, o) ==
    /\ stage[w] = "orders" /\ o \in todo[w]
    /\ request[w].kind = "orders" /\ o \in DOMAIN orders

\* Wrong on purpose: an order in an open transaction is neither waited for nor seen.
InsertOrderAnyway(w, o) ==
    /\ stage[w] = "orders" /\ o \in todo[w]
    /\ Goto(w, "orders", todo[w] \ {o})
    /\ newOrders' = [newOrders EXCEPT ![w] =
           IF Exists(w, o) THEN @ ELSE Over(OrderOf(w, o), @)]
    /\ UNCHANGED <<tables, request, seen, newCustomers, history>>

\* INSERT INTO orders ... ON CONFLICT (external_id), one row: DO NOTHING for bulk
\* orders, DO UPDATE for a load.
InsertOrder(w, o) ==
    /\ \/ /\ Exists(w, o)
          /\ Goto(w, "orders", todo[w] \ {o})
          /\ UNCHANGED newOrders
       \/ /\ ~Exists(w, o)
          /\ Take(w, "orders", o, newOrders)
          /\ newOrders' = [newOrders EXCEPT ![w] = Over(OrderOf(w, o), @)]
    /\ UNCHANGED <<tables, request, seen, newCustomers, history>>

\* Wrong on purpose: counters computed from a row that someone else is changing.
CreditWithoutLock(w, c) ==
    LET new == [x \in {c} |-> Credited(customers[c], OrdersOf(newOrders[w], c))]
    IN  /\ stage[w] = "credit" /\ c \in todo[w]
        /\ Goto(w, "credit", todo[w] \ {c})
        /\ newCustomers' = [newCustomers EXCEPT ![w] = Over(new, @)]
        /\ UNCHANGED <<tables, request, seen, newOrders, history>>

\* apply_order_aggregates, one customer: the UPDATE sees the row as last committed.
CreditCustomer(w, c) ==
    LET new == [x \in {c} |-> Credited(customers[c], OrdersOf(newOrders[w], c))]
    IN  /\ Take(w, "credit", c, newCustomers)
        /\ newCustomers' = [newCustomers EXCEPT ![w] = Over(new, @)]
        /\ UNCHANGED <<tables, request, seen, newOrders, history>>

\* A statement is through with its rows. Bulk orders go on to the customers of the
\* orders that were inserted, everything else to its commit.
NextStatement(w) ==
    /\ stage[w] \in {"customers", "orders", "credit"}
    /\ todo[w] = {}
    /\ IF stage[w] = "orders" /\ request[w].kind = "orders"
       THEN Goto(w, "credit", {newOrders[w][o].customer : o \in DOMAIN newOrders[w]})
       ELSE Goto(w, "commit", {})
    /\ UNCHANGED <<tables, request, seen, newCustomers, newOrders, history>>

-----------------------------------------------------------------------------
ForgetWrites(w) ==
    /\ newCustomers' = [newCustomers EXCEPT ![w] = Nothing]
    /\ newOrders' = [newOrders EXCEPT ![w] = Nothing]

Leave(w) ==
    /\ Goto(w, "idle", {})
    /\ request' = [request EXCEPT ![w] = None]
    /\ seen' = [seen EXCEPT ![w] = {}]

\* What w is to be remembered by: which counters it overwrote, which orders it
\* inserted, and how many rows its answer calls inserted.
Record(w) ==
    LET kind == request[w].kind
        named == DOMAIN request[w].customers
    IN  /\ inserted' = IF kind = "orders" THEN Over(newOrders[w], inserted) ELSE inserted
        /\ figures' = [c \in Customers |->
               IF c \in DOMAIN newCustomers[w] /\ kind \in {"upload", "load"}
               THEN [row |-> newCustomers[w][c], orders |-> DOMAIN inserted]
               ELSE figures[c]]
        /\ reported' =
               [customers |-> IF kind \in {"customers", "upload"}
                              THEN reported.customers + Cardinality(named \ seen[w])
                              ELSE reported.customers,
                orders    |-> IF kind = "orders"
                              THEN reported.orders + Cardinality(DOMAIN newOrders[w])
                              ELSE reported.orders]

\* session.commit: the transaction is visible and its locks are free. A load has
\* its orders still to come.
Commit(w) ==
    /\ stage[w] = "commit"
    /\ customers' = Over(newCustomers[w], customers)
    /\ orders' = Over(newOrders[w], orders)
    /\ ForgetWrites(w)
    /\ Record(w)
    /\ IF request[w].kind = "load" /\ newCustomers[w] # Nothing
       THEN Goto(w, "select", {}) /\ UNCHANGED <<request, seen>>
       ELSE Leave(w)

RollBack(w) ==
    /\ ForgetWrites(w)
    /\ Leave(w)
    /\ UNCHANGED <<tables, history>>

\* An exception, a crash, or a deadlock that PostgreSQL breaks; of a load, only the
\* open transaction is lost.
Fail(w) == stage[w] # "idle" /\ RollBack(w)

Next ==
    \E w \in Workers :
        \/ \E r \in Requests : Receive(w, r)
        \/ SelectIds(w)
        \/ \E c \in Customers : UpsertCustomer(w, c) \/ CreditCustomer(w, c)
        \/ \E o \in OrderIds : InsertOrder(w, o)
        \/ NextStatement(w)
        \/ Commit(w)
        \/ Fail(w)

Spec == Init /\ [][Next]_vars
-----------------------------------------------------------------------------
(***************************************************************************)
(* Properties                                                              *)
(***************************************************************************)
Table(f, D, R) == DOMAIN f \subseteq D /\ f \in [DOMAIN f -> R]

TypeOK ==
    /\ Table(customers, Customers, CustomerRow)
    /\ Table(orders, OrderIds, OrderRow)
    /\ stage \in [Workers -> {"idle", "select", "customers", "orders", "credit", "commit"}]
    /\ request \in [Workers -> {Rows(r) : r \in Requests} \cup {None}]
    /\ todo \in [Workers -> SUBSET (Customers \cup OrderIds)]
    /\ seen \in [Workers -> SUBSET Customers]
    /\ newCustomers = [w \in Workers |-> newCustomers[w]]
    /\ newOrders = [w \in Workers |-> newOrders[w]]
    /\ \A w \in Workers : /\ Table(newCustomers[w], Customers, CustomerRow)
                         /\ Table(newOrders[w], OrderIds, OrderRow)
    /\ figures \in [Customers -> [row : CustomerRow, orders : SUBSET OrderIds]]
    /\ Table(inserted, OrderIds, OrderRow)
    /\ reported \in [customers : Nat, orders : Nat]

\* The orders that bulk requests inserted for c since its counters were last
\* overwritten by an upload or a load.
Since(c) == OrdersOf([o \in DOMAIN inserted \ figures[c].orders |-> inserted[o]], c)

\* Counters say what the last upload or load said plus every order inserted since,
\* whichever requests inserted, credited and overwrote at the same time: none is
\* lost, none is counted twice (apply_order_aggregates' increments). An upload has
\* no date: but for a load, last_order_at is none earlier than any inserted order.
CountersSinceFigures ==
    \A c \in DOMAIN customers :
        /\ customers[c] = Credited(figures[c].row, Since(c))
        /\ \A o \in DOMAIN inserted :
               inserted[o].customer = c /\ ~customers[c].tenant =>
                   inserted[o].ordered_at <= customers[c].last_order_at

\* The answers together say how many orders were inserted, each by one request
\* only, although the same order may be in several requests at once; of new
\* customers they never say fewer than there are (upsert_customers and
\* upload_customers look before they write, so two may both call a customer new).
AnswersAddUp ==
    /\ reported.orders = Cardinality(DOMAIN inserted)
    /\ Cardinality({c \in DOMAIN customers : ~customers[c].tenant}) <= reported.customers
-----------------------------------------------------------------------------
(***************************************************************************)
(* The inductive invariant: what each open transaction has written and     *)
(* why that is still right when it commits.                                *)
(***************************************************************************)
StageOK(w) ==
    /\ stage[w] # "idle" => request[w] # None
    /\ stage[w] \in {"idle", "select"} => newCustomers[w] = Nothing /\ newOrders[w] = Nothing
    /\ stage[w] = "commit" => todo[w] = {}
    /\ stage[w] = "customers" =>
           /\ request[w].kind # "orders" /\ newOrders[w] = Nothing
           /\ todo[w] \subseteq DOMAIN request[w].customers
    /\ stage[w] = "orders" =>
           /\ request[w].kind \in {"orders", "load"} /\ newCustomers[w] = Nothing
           /\ todo[w] \subseteq DOMAIN request[w].orders
    /\ stage[w] = "credit" => request[w].kind = "orders"
    /\ request[w].kind \in {"customers", "upload"} => newOrders[w] = Nothing

\* Bulk orders: what is inserted is new, its customers exist, and those updated have
\* the counters that the committed rows would be credited to now.
OrdersOK(w) ==
    request[w].kind = "orders" =>
        /\ DOMAIN newOrders[w] \cap DOMAIN orders = {}
        /\ \A o \in DOMAIN newOrders[w] : newOrders[w][o].customer \in DOMAIN customers
        /\ stage[w] = "orders" =>
               \A o \in todo[w] : request[w].orders[o].customer \in DOMAIN customers
        /\ stage[w] \in {"credit", "commit"} =>
               DOMAIN newCustomers[w] \cup todo[w] =
                   {newOrders[w][o].customer : o \in DOMAIN newOrders[w]}
        /\ \A c \in DOMAIN newCustomers[w] :
               newCustomers[w][c] = Credited(customers[c], OrdersOf(newOrders[w], c))

Stored(c) == IF c \in DOMAIN customers THEN customers[c] ELSE NewCustomer

\* Bulk customers leave the counters as they are; whom they and uploads create they
\* had not seen; who has no tenant was not loaded.
UpsertsOK(w) ==
    /\ seen[w] \subseteq DOMAIN customers
    /\ request[w].kind \in {"customers", "upload"} =>
           \A c \in DOMAIN newCustomers[w] :
               /\ newCustomers[w][c].tenant = Stored(c).tenant
               /\ newCustomers[w][c].last_order_at = Stored(c).last_order_at
    /\ request[w].kind = "load" => \A c \in DOMAIN newCustomers[w] : newCustomers[w][c].tenant
    /\ request[w].kind = "customers" =>
           \A c \in DOMAIN newCustomers[w] : newCustomers[w][c] = Stored(c)
    /\ request[w].kind \in {"customers", "upload"} =>
           DOMAIN newCustomers[w] \subseteq DOMAIN request[w].customers

Exclusive ==
    \A w, v \in Workers : w # v =>
        /\ DOMAIN newCustomers[w] \cap DOMAIN newCustomers[v] = {}
        /\ DOMAIN newOrders[w] \cap DOMAIN newOrders[v] = {}

HistoryOK ==
    /\ DOMAIN inserted \subseteq DOMAIN orders
    /\ \A o \in DOMAIN inserted : inserted[o].customer \in DOMAIN customers
    /\ \A c \in Customers : figures[c].orders \subseteq DOMAIN inserted
    /\ \A c \in Customers \ DOMAIN customers : figures[c].row = NewCustomer

\* Requests are finite, and so is what they have written.
FiniteOK ==
    /\ IsFiniteSet(DOMAIN customers) /\ IsFiniteSet(DOMAIN inserted)
    /\ \A w \in Workers : /\ IsFiniteSet(DOMAIN newCustomers[w])
                         /\ IsFiniteSet(DOMAIN newOrders[w])

IInv ==
    /\ TypeOK
    /\ \A w \in Workers : StageOK(w) /\ OrdersOK(w) /\ UpsertsOK(w)
    /\ Exclusive
    /\ HistoryOK
    /\ FiniteOK
    /\ CountersSinceFigures
    /\ AnswersAddUp
=============================================================================
