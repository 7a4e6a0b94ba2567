------------------------------ MODULE Receipts ------------------------------
(***************************************************************************)
(* process_batch as it runs: several requests at once, each a READ         *)
(* COMMITTED transaction of multi-row statements.  A statement takes its   *)
(* rows one by one.  Inserting a key that another open transaction has     *)
(* inserted waits for that transaction to end, and so does updating a row  *)
(* it has updated.  What a transaction writes is its own until it commits. *)
(* It may fail at any point (an exception, a dropped connection, a crash   *)
(* of the process), which rolls it back, and the answer to a committed     *)
(* batch may be lost on its way.  A batch may be delivered any number of   *)
(* times.                                                                  *)
(***************************************************************************)
EXTENDS ReceiptRules

CONSTANT Workers    \* requests the service handles at the same time

VARIABLES
    \* the committed database
    communication_events, communications, orders, customers,
    \* each request: its place in process_batch, its batch, the rows its
    \* statement has left and the one it is at (0 if none)
    stage, batch, todo, cur,
    \* each transaction: the rows of its batch it has inserted as events and as
    \* orders, the rows it has updated and their new values
    inserted, ordered, updatedComms, commRows, updatedCusts, custRows,
    \* what the callers were told: how many requests reported a key accepted,
    \* and the keys answered for at all
    accepts, answered

db      == <<communication_events, communications, orders, customers>>
scan    == <<stage, todo, cur>>
writes  == <<inserted, ordered, updatedComms, commRows, updatedCusts, custRows>>
replies == <<accepts, answered>>
vars    == <<db, scan, batch, writes, replies>>

Stages == {"idle", "events", "status", "orders", "customers", "commit", "reply"}

TypeOK ==
    /\ communication_events \subseteq Event
    /\ communications \in [Comms -> CommRow]
    /\ orders \subseteq Event
    /\ customers \in [Customers -> CustRow]
    /\ stage \in [Workers -> Stages]
    /\ batch \in [Workers -> Seq(Event)]
    /\ todo \in [Workers -> SUBSET Nat]
    /\ cur \in [Workers -> Nat]
    /\ inserted \in [Workers -> SUBSET Nat]
    /\ ordered \in [Workers -> SUBSET Nat]
    /\ updatedComms \in [Workers -> SUBSET Comms]
    /\ commRows \in [Workers -> [Comms -> CommRow]]
    /\ updatedCusts \in [Workers -> SUBSET Customers]
    /\ custRows \in [Workers -> [Customers -> CustRow]]
    /\ accepts \in [Keys -> Nat]
    /\ answered \subseteq Keys

Init ==
    /\ communication_events = {}
    /\ communications = [c \in Comms |-> NewComm]
    /\ orders = {}
    /\ customers = [u \in Customers |-> NewCust]
    /\ stage = [w \in Workers |-> "idle"]
    /\ batch = [w \in Workers |-> <<>>]
    /\ todo = [w \in Workers |-> {}]
    /\ cur = [w \in Workers |-> 0]
    /\ inserted = [w \in Workers |-> {}]
    /\ ordered = [w \in Workers |-> {}]
    /\ updatedComms = [w \in Workers |-> {}]
    /\ commRows = [w \in Workers |-> [c \in Comms |-> NewComm]]
    /\ updatedCusts = [w \in Workers |-> {}]
    /\ custRows = [w \in Workers |-> [u \in Customers |-> NewCust]]
    /\ accepts = [k \in Keys |-> 0]
    /\ answered = {}

-----------------------------------------------------------------------------
\* The row a request is at, and whose open transaction keeps it from that row.
Row(w)     == batch[w][cur[w]]
Comm(w)    == Row(w).communication_id
Logged     == {Key(e) : e \in communication_events}
HasOrder(c) == \E o \in orders : o.communication_id = c

InsertedKeys(w) == {Key(batch[w][i]) : i \in inserted[w]}
OrderedComms(w) == {batch[w][i].communication_id : i \in ordered[w]}
InTransaction(w) == stage[w] \notin {"idle", "reply"}

\* w is at a row that the open transaction of v has inserted or updated.
WaitsFor(w, v) ==
    /\ v # w
    /\ InTransaction(v)
    /\ cur[w] # 0
    /\ \/ stage[w] = "events"    /\ Key(Row(w)) \in InsertedKeys(v)
       \/ stage[w] = "status"    /\ Comm(w) \in updatedComms[v]
       \/ stage[w] = "orders"    /\ Comm(w) \in OrderedComms(v)
       \/ stage[w] = "customers" /\ CustomerOf[Comm(w)] \in updatedCusts[v]

Blocked(w) == \E v \in Workers : WaitsFor(w, v)

\* Rows come in batch order, except that the planner is free to join the VALUES
\* list of the UPDATE in any order.
NextRows(s, left) ==
    IF left = {} THEN {0}
    ELSE IF s = "status" THEN left
    ELSE {i \in left : \A j \in left : i <= j}

\* Wrong on purpose: rows counted from 0.
StartFromZero(w, s, rows) ==
    /\ stage' = [stage EXCEPT ![w] = s]
    /\ todo' = [todo EXCEPT ![w] = rows]
    /\ \E i \in NextRows(s, rows) : cur' = [cur EXCEPT ![w] = i - 1]

\* Request w starts the statement s over the rows.
Start(w, s, rows) ==
    /\ stage' = [stage EXCEPT ![w] = s]
    /\ todo' = [todo EXCEPT ![w] = rows]
    /\ \E i \in NextRows(s, rows) : cur' = [cur EXCEPT ![w] = i]

\* The statement of w is done with its row and goes on to another.
Advance(w) == Start(w, stage[w], todo[w] \ {cur[w]})

AtRow(w, s) == stage[w] = s /\ cur[w] # 0 /\ ~Blocked(w)
Done(w, s)  == stage[w] = s /\ cur[w] = 0

-----------------------------------------------------------------------------
\* A signed, well-formed batch arrives: deduplicate, drop unknown ids, and start
\* the INSERT of the events.
Receive(w, b) ==
    /\ stage[w] = "idle"
    /\ batch' = [batch EXCEPT ![w] = b]
    /\ Start(w, "events", Valid(b))
    /\ UNCHANGED <<db, writes, replies>>

\* Wrong on purpose: a key in an open transaction counts as a duplicate at once.
InsertEventWithoutWaiting(w) ==
    /\ stage[w] = "events" /\ cur[w] # 0
    /\ inserted' = [inserted EXCEPT ![w] =
           IF Key(Row(w)) \in Logged \cup UNION {InsertedKeys(v) : v \in Workers}
           THEN @ ELSE @ \cup {cur[w]}]
    /\ Advance(w)
    /\ UNCHANGED <<db, batch, ordered, updatedComms, commRows, updatedCusts, custRows, replies>>

\* Wrong on purpose: the log has no unique constraint to conflict with.
InsertEventAnyway(w) ==
    /\ AtRow(w, "events")
    /\ inserted' = [inserted EXCEPT ![w] = @ \cup {cur[w]}]
    /\ Advance(w)
    /\ UNCHANGED <<db, batch, ordered, updatedComms, commRows, updatedCusts, custRows, replies>>

\* INSERT INTO communication_events ... ON CONFLICT DO NOTHING, one row.
InsertEvent(w) ==
    /\ AtRow(w, "events")
    /\ inserted' = [inserted EXCEPT ![w] =
           IF Key(Row(w)) \in Logged THEN @ ELSE @ \cup {cur[w]}]
    /\ Advance(w)
    /\ UNCHANGED <<db, batch, ordered, updatedComms, commRows, updatedCusts, custRows, replies>>

\* RETURNING told which events are new: their best ones go into the UPDATE.
EventsInserted(w) ==
    /\ Done(w, "events")
    /\ IF inserted[w] = {} THEN Start(w, "commit", {})
       ELSE Start(w, "status", Best(batch[w], inserted[w]))
    /\ UNCHANGED <<db, batch, writes, replies>>

\* UPDATE communications, one row: it sees the row as last committed.
RaiseStatus(w) ==
    /\ AtRow(w, "status")
    /\ updatedComms' = [updatedComms EXCEPT ![w] = @ \cup {Comm(w)}]
    /\ commRows' = [commRows EXCEPT ![w][Comm(w)] = Raised(communications[Comm(w)], Row(w))]
    /\ Advance(w)
    /\ UNCHANGED <<db, batch, inserted, ordered, updatedCusts, custRows, replies>>

\* New conversions, if there are any, become orders.
StatusRaised(w) ==
    /\ Done(w, "status")
    /\ LET conv == Converted(batch[w], inserted[w])
       IN  IF conv = {} THEN Start(w, "commit", {}) ELSE Start(w, "orders", conv)
    /\ UNCHANGED <<db, batch, writes, replies>>

\* INSERT INTO orders ... ON CONFLICT (external_id) DO NOTHING, one row.
InsertOrder(w) ==
    /\ AtRow(w, "orders")
    /\ ordered' = [ordered EXCEPT ![w] = IF HasOrder(Comm(w)) THEN @ ELSE @ \cup {cur[w]}]
    /\ Advance(w)
    /\ UNCHANGED <<db, batch, inserted, updatedComms, commRows, updatedCusts, custRows, replies>>

\* apply_order_aggregates groups the inserted orders by customer.
OrdersInserted(w) ==
    /\ Done(w, "orders")
    /\ Start(w, "customers", FirstOfCustomer(batch[w], ordered[w]))
    /\ UNCHANGED <<db, batch, writes, replies>>

\* UPDATE customers for one customer: it too sees the row as last committed.
CreditCustomer(w) ==
    /\ AtRow(w, "customers")
    /\ LET u    == CustomerOf[Comm(w)]
           mine == OfCustomer(batch[w], ordered[w], u)
       IN  /\ updatedCusts' = [updatedCusts EXCEPT ![w] = @ \cup {u}]
           /\ custRows' = [custRows EXCEPT ![w][u] =
                  Credited(customers[u], Cardinality(mine), Latest(batch[w], mine))]
    /\ Advance(w)
    /\ UNCHANGED <<db, batch, inserted, ordered, updatedComms, commRows, replies>>

CustomersCredited(w) ==
    /\ Done(w, "customers")
    /\ Start(w, "commit", {})
    /\ UNCHANGED <<db, batch, writes, replies>>

-----------------------------------------------------------------------------
\* What the transaction of w wrote becomes visible and its locks are released.
Publish(w) ==
    /\ communication_events' = communication_events \cup {batch[w][i] : i \in inserted[w]}
    /\ communications' = [c \in Comms |->
           IF c \in updatedComms[w] THEN commRows[w][c] ELSE communications[c]]
    /\ orders' = orders \cup {batch[w][i] : i \in ordered[w]}
    /\ customers' = [u \in Customers |->
           IF u \in updatedCusts[w] THEN custRows[w][u] ELSE customers[u]]

\* The writes of w are forgotten; the row versions it computed go with them.
ForgetWrites(w) ==
    /\ ordered' = [ordered EXCEPT ![w] = {}]
    /\ updatedComms' = [updatedComms EXCEPT ![w] = {}]
    /\ commRows' = [commRows EXCEPT ![w] = [c \in Comms |-> NewComm]]
    /\ updatedCusts' = [updatedCusts EXCEPT ![w] = {}]
    /\ custRows' = [custRows EXCEPT ![w] = [u \in Customers |-> NewCust]]

\* The request of w is over.
Leave(w) ==
    /\ ForgetWrites(w)
    /\ stage' = [stage EXCEPT ![w] = "idle"]
    /\ batch' = [batch EXCEPT ![w] = <<>>]
    /\ todo' = [todo EXCEPT ![w] = {}]
    /\ cur' = [cur EXCEPT ![w] = 0]
    /\ inserted' = [inserted EXCEPT ![w] = {}]

\* The handler still holds which keys were inserted: result_for needs them.
Commit(w) ==
    /\ stage[w] = "commit"
    /\ Publish(w)
    /\ Start(w, "reply", {})
    /\ ForgetWrites(w)
    /\ UNCHANGED <<batch, inserted, replies>>

\* Wrong on purpose: every known callback is reported accepted.
ReplyAcceptsAll(w) ==
    /\ stage[w] = "reply"
    /\ LET keys == {Key(batch[w][i]) : i \in Valid(batch[w])}
       IN  /\ accepts' = [k \in Keys |-> IF k \in keys THEN accepts[k] + 1 ELSE accepts[k]]
           /\ answered' = answered \cup keys
    /\ Leave(w)
    /\ UNCHANGED db

\* One result per callback: accepted, duplicate or unknown_communication.
Reply(w) ==
    /\ stage[w] = "reply"
    /\ accepts' = [k \in Keys |->
           IF k \in InsertedKeys(w) THEN accepts[k] + 1 ELSE accepts[k]]
    /\ answered' = answered \cup {Key(batch[w][i]) : i \in Valid(batch[w])}
    /\ Leave(w)
    /\ UNCHANGED db

\* The answer does not reach the caller (time-out, broken connection, crash).
LoseReply(w) ==
    /\ stage[w] = "reply"
    /\ Leave(w)
    /\ UNCHANGED <<db, replies>>

\* Wrong on purpose: the handler tries the same batch again at once.
RetryAtOnce(w) ==
    /\ ForgetWrites(w)
    /\ inserted' = [inserted EXCEPT ![w] = {}]
    /\ Start(w, "events", Valid(batch[w]))
    /\ UNCHANGED <<db, batch, replies>>

RollBack(w) ==
    /\ Leave(w)
    /\ UNCHANGED <<db, replies>>

\* Wrong on purpose: every statement commits by itself.
FailInAutocommit(w) ==
    /\ InTransaction(w)
    /\ Publish(w)
    /\ Leave(w)
    /\ UNCHANGED replies

\* Any exception before the commit, or a crash: the session closes without it.
Fail(w) ==
    /\ InTransaction(w)
    /\ RollBack(w)

\* w belongs to a cycle of waiting transactions, and PostgreSQL makes it fail.
Deadlocked(w) ==
    \E S \in SUBSET Workers :
        /\ w \in S
        /\ \A v \in S : (\E u \in S : WaitsFor(v, u)) /\ (\E u \in S : WaitsFor(u, v))

AbortDeadlocked(w) ==
    /\ Deadlocked(w)
    /\ RollBack(w)

-----------------------------------------------------------------------------
\* What a request does when nothing goes wrong.
Step(w) ==
    \/ InsertEvent(w)    \/ EventsInserted(w)
    \/ RaiseStatus(w)    \/ StatusRaised(w)
    \/ InsertOrder(w)    \/ OrdersInserted(w)
    \/ CreditCustomer(w) \/ CustomersCredited(w)
    \/ Commit(w)         \/ Reply(w)

Next ==
    \E w \in Workers :
        \/ \E b \in Batches : Receive(w, b)
        \/ Step(w)
        \/ LoseReply(w)
        \/ Fail(w)
        \/ AbortDeadlocked(w)

Spec == Init /\ [][Next]_vars

\* The event loop runs every request, PostgreSQL grants a lock to the waiters in
\* turn (a request that is next in the queue again and again gets through, hence
\* SF) and its deadlock detector always fires.  Nothing obliges a request to arrive or to fail.
Fairness ==
    \A w \in Workers : SF_vars(Step(w)) /\ WF_vars(AbortDeadlocked(w))

LiveSpec == Spec /\ Fairness
-----------------------------------------------------------------------------
(***************************************************************************)
(* Properties                                                              *)
(***************************************************************************)
LoggedOf(c) == {e \in communication_events : e.communication_id = c}
CustomerOrders(u) == {o \in orders : CustomerOf[o.communication_id] = u}

\* At most one event per communication and type is ever logged, however many
\* requests insert it at once (the unique constraint and process_batch's dedup).
OneEventPerKey ==
    \A e, f \in communication_events : Key(e) = Key(f) => e = f

\* A communication's status is the highest-ranked event in its log, whatever the
\* order in which the callbacks came and the batches committed, and status_rank
\* goes with it.
StatusIsMaxOfLog ==
    \A c \in Comms :
        LET row == communications[c] IN
        /\ row.status_rank = STATUS_RANKS[row.status]
        /\ row.status # "queued" => \E e \in LoggedOf(c) : e.event_type = row.status
        /\ \A e \in LoggedOf(c) : STATUS_RANKS[e.event_type] <= row.status_rank

\* last_event_at is the date of a logged event, none earlier than the event that
\* gave the status its value (the GREATEST of the UPDATE).
LastEventCoversStatus ==
    \A c \in Comms :
        LET row == communications[c] IN
        /\ row.status # "queued" => \E e \in LoggedOf(c) : e.occurred_at = row.last_event_at
        /\ \A e \in LoggedOf(c) :
               e.event_type = row.status => e.occurred_at <= row.last_event_at

\* A conversion and its order exist together or not at all, and the order keeps
\* the date of the event (_create_attributed_orders in the batch's transaction).
ConversionsAreOrders ==
    orders = {e \in communication_events : e.event_type = "converted"}

\* A customer's counters say what its orders say: no order is credited twice and
\* none is forgotten when two requests credit one customer.
AggregatesMatchOrders ==
    \A u \in Customers :
        /\ customers[u].order_count = Cardinality(CustomerOrders(u))
        /\ \A o \in CustomerOrders(u) : o.occurred_at <= customers[u].last_order_at
        /\ customers[u].last_order_at # 0 =>
               \E o \in CustomerOrders(u) : o.occurred_at = customers[u].last_order_at

\* What a caller was told is in the log is in the committed log: "duplicate" is
\* never said of a callback whose first copy was rolled back.
AnsweredIsLogged == answered \subseteq Logged

\* At most one request reports a callback accepted; the others report a duplicate.
AcceptedOnce == \A k \in Keys : accepts[k] <= 1

\* No committed batch takes a status, its rank or its date back, even when the
\* row was read while another request was changing it.
NeverDowngraded ==
    [][\A c \in Comms :
        /\ communications[c].status_rank <= communications'[c].status_rank
        /\ communications[c].last_event_at <= communications'[c].last_event_at]_vars

\* The database goes through states that applying whole batches one after the
\* other would give: concurrent requests are serialisable.
Log == INSTANCE ReceiptLog
           WITH communication_events <- communication_events,
                communications <- communications,
                orders <- orders,
                customers <- customers
RefinesLog == Log!Spec

\* Every request is answered or fails: two batches that lock the same rows in
\* opposite orders do not keep each other waiting for ever.
RequestsFinish ==
    \A w \in Workers : stage[w] # "idle" ~> stage[w] = "idle"
-----------------------------------------------------------------------------
(***************************************************************************)
(* The inductive invariant: how far each request is, what it has written   *)
(* so far, and why nobody else can have changed what that was computed     *)
(* from.                                                                   *)
(***************************************************************************)
ScanOK(w) ==
    /\ stage[w] # "idle" => batch[w] \in Batches
    /\ todo[w] \subseteq Valid(batch[w])
    /\ inserted[w] \subseteq Valid(batch[w])
    /\ IF cur[w] = 0 THEN todo[w] = {} ELSE cur[w] \in todo[w]
    /\ stage[w] \in {"idle", "commit", "reply"} => todo[w] = {}

\* Every kept callback is in the committed log, in the transaction's own inserts
\* or still to come, and what the transaction inserted nobody has committed.
EventsOK(w) ==
    /\ stage[w] = "idle" => inserted[w] = {}
    /\ InTransaction(w) => InsertedKeys(w) \cap Logged = {}
    /\ \A i \in Valid(batch[w]) :
           \/ Key(batch[w][i]) \in Logged
           \/ InTransaction(w) /\ i \in inserted[w]
           \/ stage[w] = "events" /\ i \in todo[w]

BestOf(w) == Best(batch[w], inserted[w])
ConvOf(w) == Converted(batch[w], inserted[w])

\* The rows updated so far hold what the committed rows would be raised to now.
StatusOK(w) ==
    /\ stage[w] \in {"idle", "events", "reply"} => updatedComms[w] = {}
    /\ stage[w] = "status" =>
           /\ todo[w] \subseteq BestOf(w)
           /\ updatedComms[w] = {batch[w][i].communication_id : i \in BestOf(w) \ todo[w]}
    /\ stage[w] \in {"orders", "customers", "commit"} =>
           updatedComms[w] = {batch[w][i].communication_id : i \in BestOf(w)}
    /\ \A i \in BestOf(w) :
           LET c == batch[w][i].communication_id IN
           c \in updatedComms[w] => commRows[w][c] = Raised(communications[c], batch[w][i])

OrdersOK(w) ==
    /\ stage[w] \in {"idle", "events", "status", "reply"} => ordered[w] = {}
    /\ stage[w] = "orders" => todo[w] \subseteq ConvOf(w) /\ ordered[w] = ConvOf(w) \ todo[w]
    /\ stage[w] \in {"customers", "commit"} => ordered[w] = ConvOf(w)

FirstOf(w) == FirstOfCustomer(batch[w], ordered[w])

CustomersOK(w) ==
    /\ stage[w] \in {"idle", "events", "status", "orders", "reply"} => updatedCusts[w] = {}
    /\ stage[w] = "customers" => todo[w] \subseteq FirstOf(w)
    /\ stage[w] \in {"customers", "commit"} =>
           updatedCusts[w] = {Customer(batch[w], i) : i \in FirstOf(w) \ todo[w]}
    /\ \A u \in updatedCusts[w] :
           LET mine == OfCustomer(batch[w], ordered[w], u) IN
           custRows[w][u] = Credited(customers[u], Cardinality(mine), Latest(batch[w], mine))

\* No two requests hold the same key or row.
Exclusive ==
    \A w, v \in Workers : w # v =>
        /\ InsertedKeys(w) \cap InsertedKeys(v) = {}
        /\ updatedComms[w] \cap updatedComms[v] = {}
        /\ updatedCusts[w] \cap updatedCusts[v] = {}

\* A key reported accepted is logged and in no request still to be answered.
AnswersOK ==
    /\ AnsweredIsLogged
    /\ \A k \in Keys :
        accepts[k] # 0 =>
            accepts[k] = 1 /\ k \in Logged /\ \A w \in Workers : k \notin InsertedKeys(w)

RequestOK(w) == ScanOK(w) /\ EventsOK(w) /\ StatusOK(w) /\ OrdersOK(w) /\ CustomersOK(w)

IInv ==
    /\ TypeOK
    /\ \A w \in Workers : RequestOK(w)
    /\ Exclusive
    /\ AnswersOK
    /\ OneEventPerKey
    /\ StatusIsMaxOfLog
    /\ ConversionsAreOrders
=============================================================================
