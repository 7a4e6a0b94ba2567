--------------------------- MODULE Receipts_proofs ---------------------------
(***************************************************************************)
(* Proofs about Receipts, for every set of communications, requests and    *)
(* batches: the inductive invariant IInv, the invariants that follow from  *)
(* it, that Receipts implements ReceiptLog, and two invariants that build  *)
(* on these: the date of a communication covers its status, and the        *)
(* counters of a customer say what the orders say.                         *)
(***************************************************************************)
EXTENDS Receipts, FiniteSetTheorems, WellFoundedInduction, TLAPS

-----------------------------------------------------------------------------
(* Facts about one batch. *)

\* The ranks of STATUS_RANKS are natural numbers, all different, queued lowest.
LEMMA Ranks ==
    /\ \A s \in Status : STATUS_RANKS[s] \in Nat /\ STATUS_RANKS[s] <= 60
    /\ \A s \in EventTypes : STATUS_RANKS[s] > 0
    /\ STATUS_RANKS["queued"] = 0
    /\ \A s, t \in EventTypes : STATUS_RANKS[s] = STATUS_RANKS[t] => s = t
  BY ConstantsAssumption DEF Status, STATUS_RANKS

\* The rows process_batch keeps name known communications, and each key once.
LEMMA ValidRows ==
    ASSUME NEW b \in Batches
    PROVE  /\ b \in Seq(Event)
           /\ Valid(b) \subseteq Nat \ {0}
           /\ \A i \in Valid(b) :
                 /\ b[i] \in Event
                 /\ b[i].communication_id \in Comms
                 /\ b[i].event_type \in EventTypes
                 /\ b[i].occurred_at \in Nat \ {0}
                 /\ Customer(b, i) \in Customers
                 /\ Key(b[i]) \in Keys
           /\ \A i, j \in Valid(b) : Key(b[i]) = Key(b[j]) => i = j
<1>1. b \in Seq(Event)
  BY ConstantsAssumption
<1>2. DOMAIN b = 1..Len(b) /\ Len(b) \in Nat
  BY <1>1
<1>3. Valid(b) \subseteq DOMAIN b
  BY DEF Valid
<1>4. ASSUME NEW i \in Valid(b)
      PROVE  /\ b[i] \in Event
             /\ b[i].communication_id \in Comms
             /\ b[i].event_type \in EventTypes
             /\ b[i].occurred_at \in Nat \ {0}
             /\ Customer(b, i) \in Customers
             /\ Key(b[i]) \in Keys
  <2>1. b[i] \in Event /\ b[i].communication_id \in Comms
    BY <1>1, <1>2, <1>3 DEF Valid
  <2>2. b[i].occurred_at \in Nat \ {0}
    BY <2>1, ConstantsAssumption DEF Event, Times
  <2> QED
    BY <2>1, <2>2, ConstantsAssumption DEF Event, Customer, Key, Keys
<1>5. ASSUME NEW i \in Valid(b), NEW j \in Valid(b), Key(b[i]) = Key(b[j])
      PROVE  i = j
  BY <1>2, <1>3, <1>5 DEF Valid
<1> QED
  BY <1>1, <1>2, <1>3, <1>4, <1>5

\* Among rows with different keys, a communication has at most one best row.
LEMMA BestUnique ==
    ASSUME NEW b \in Batches, NEW S, S \subseteq Valid(b),
           NEW i \in Best(b, S), NEW j \in Best(b, S),
           b[i].communication_id = b[j].communication_id
    PROVE  i = j
<1>1. i \in Valid(b) /\ j \in Valid(b) /\ i \in S /\ j \in S
  BY DEF Best
<1>2. b[i].event_type \in EventTypes /\ b[j].event_type \in EventTypes
  BY <1>1, ValidRows
<1>3. /\ STATUS_RANKS[b[i].event_type] \in Nat
      /\ STATUS_RANKS[b[j].event_type] \in Nat
  BY <1>2, Ranks DEF Status
<1>4. /\ STATUS_RANKS[b[i].event_type] <= STATUS_RANKS[b[j].event_type]
      /\ STATUS_RANKS[b[j].event_type] <= STATUS_RANKS[b[i].event_type]
  BY <1>1 DEF Best
<1>5. b[i].event_type = b[j].event_type
  BY <1>2, <1>3, <1>4, Ranks
<1> QED
  BY <1>1, <1>5, ValidRows DEF Key

\* Raising a row keeps it a row, never lowers it, and reaches the event's rank.
LEMMA RaisedRow ==
    ASSUME NEW row \in CommRow, NEW ev \in Event,
           row.status_rank = STATUS_RANKS[row.status]
    PROVE  LET r == Raised(row, ev) IN
           /\ r \in CommRow
           /\ r.status_rank = STATUS_RANKS[r.status]
           /\ r.status_rank >= row.status_rank
           /\ r.status_rank >= STATUS_RANKS[ev.event_type]
           /\ r.status \in {row.status, ev.event_type}
           /\ r.last_event_at >= row.last_event_at
<1>1. ev.event_type \in Status /\ ev.occurred_at \in Nat
  BY ConstantsAssumption DEF Event, Times, Status
<1>2. STATUS_RANKS[ev.event_type] \in Nat
  BY <1>1, Ranks
<1>3. Later(row.last_event_at, ev.occurred_at) \in Nat
      /\ Later(row.last_event_at, ev.occurred_at) >= row.last_event_at
  BY <1>1 DEF Later, CommRow
<1> QED
  BY <1>1, <1>2, <1>3 DEF Raised, CommRow

-----------------------------------------------------------------------------
(* Steps of one request that leave the database and the others alone. *)

Same(v) ==
    /\ stage'[v] = stage[v] /\ batch'[v] = batch[v]
    /\ todo'[v] = todo[v]   /\ cur'[v] = cur[v]
    /\ inserted'[v] = inserted[v] /\ ordered'[v] = ordered[v]
    /\ updatedComms'[v] = updatedComms[v] /\ commRows'[v] = commRows[v]
    /\ updatedCusts'[v] = updatedCusts[v] /\ custRows'[v] = custRows[v]

\* What Start leaves behind.
LEMMA StartEffect ==
    ASSUME TypeOK, NEW w \in Workers, NEW s \in Stages,
           NEW rows \in SUBSET (Nat \ {0}), Start(w, s, rows)
    PROVE  /\ stage' \in [Workers -> Stages]
           /\ todo' \in [Workers -> SUBSET Nat]
           /\ cur' \in [Workers -> Nat]
           /\ stage'[w] = s
           /\ todo'[w] = rows
           /\ IF cur'[w] = 0 THEN rows = {} ELSE cur'[w] \in rows
           /\ \A v \in Workers \ {w} :
                 stage'[v] = stage[v] /\ todo'[v] = todo[v] /\ cur'[v] = cur[v]
<1>1. PICK i \in NextRows(s, rows) : cur' = [cur EXCEPT ![w] = i]
  BY DEF Start
<1>2. i \in Nat /\ IF i = 0 THEN rows = {} ELSE i \in rows
  BY DEF NextRows
<1>3. cur' \in [Workers -> Nat] /\ cur'[w] = i
      /\ \A v \in Workers \ {w} : cur'[v] = cur[v]
  BY <1>1, <1>2 DEF TypeOK
<1>4. stage' \in [Workers -> Stages] /\ stage'[w] = s
      /\ \A v \in Workers \ {w} : stage'[v] = stage[v]
  BY DEF TypeOK, Start
<1>5. todo' \in [Workers -> SUBSET Nat] /\ todo'[w] = rows
      /\ \A v \in Workers \ {w} : todo'[v] = todo[v]
  BY DEF TypeOK, Start
<1> QED
  BY <1>2, <1>3, <1>4, <1>5

\* A request that nothing happens to stays as it was.
LEMMA Frame ==
    ASSUME NEW v \in Workers, RequestOK(v), Same(v), UNCHANGED db
    PROVE  RequestOK(v)'
<1>1. ScanOK(v)'
  BY DEF RequestOK, Same, ScanOK
<1>2. EventsOK(v)'
  BY DEF RequestOK, Same, EventsOK, InTransaction, InsertedKeys, Logged, db
<1>3. StatusOK(v)'
  BY DEF RequestOK, Same, StatusOK, BestOf, db
<1>4. OrdersOK(v)'
  BY DEF RequestOK, Same, OrdersOK, ConvOf
<1>5. CustomersOK(v)'
  BY DEF RequestOK, Same, CustomersOK, FirstOf, db
<1> QED
  BY <1>1, <1>2, <1>3, <1>4, <1>5 DEF RequestOK

\* A step of w that writes nothing another request holds keeps the invariant,
\* if it keeps what the invariant says of w.
LEMMA LocalStep ==
    ASSUME IInv, NEW w \in Workers, UNCHANGED <<db, replies>>,
           \A v \in Workers \ {w} : Same(v),
           TypeOK', RequestOK(w)',
           \A k \in InsertedKeys(w)' :
               \/ k \in InsertedKeys(w)
               \/ k \notin Logged /\ \A v \in Workers \ {w} : k \notin InsertedKeys(v),
           \A c \in updatedComms'[w] :
               \/ c \in updatedComms[w]
               \/ \A v \in Workers \ {w} : c \notin updatedComms[v],
           \A u \in updatedCusts'[w] :
               \/ u \in updatedCusts[w]
               \/ \A v \in Workers \ {w} : u \notin updatedCusts[v]
    PROVE  IInv'
<1>1. \A v \in Workers : RequestOK(v)'
  BY Frame DEF IInv
<1>2. \A v \in Workers \ {w} : InsertedKeys(v)' = InsertedKeys(v)
  BY DEF Same, InsertedKeys
<1>3. Exclusive'
  <2> SUFFICES ASSUME NEW x \in Workers, NEW y \in Workers, x # y
               PROVE  /\ InsertedKeys(x)' \cap InsertedKeys(y)' = {}
                      /\ updatedComms'[x] \cap updatedComms'[y] = {}
                      /\ updatedCusts'[x] \cap updatedCusts'[y] = {}
    BY DEF Exclusive
  <2>1. InsertedKeys(x)' \cap InsertedKeys(y)' = {}
    BY <1>2 DEF IInv, Exclusive
  <2>2. updatedComms'[x] \cap updatedComms'[y] = {}
    BY DEF IInv, Exclusive, Same
  <2>3. updatedCusts'[x] \cap updatedCusts'[y] = {}
    BY DEF IInv, Exclusive, Same
  <2> QED
    BY <2>1, <2>2, <2>3
<1>4. Logged' = Logged
  BY DEF Logged, db
<1>5. AnswersOK'
  <2>1. AnsweredIsLogged'
    BY <1>4 DEF IInv, AnswersOK, AnsweredIsLogged, replies
  <2>2. ASSUME NEW k \in Keys, accepts'[k] # 0
        PROVE  accepts'[k] = 1 /\ k \in Logged' /\ \A v \in Workers : k \notin InsertedKeys(v)'
    BY <1>2, <1>4, <2>2 DEF IInv, AnswersOK, replies
  <2> QED
    BY <2>1, <2>2 DEF AnswersOK
<1>6. OneEventPerKey' /\ ConversionsAreOrders'
  BY DEF IInv, OneEventPerKey, ConversionsAreOrders, db
<1>7. StatusIsMaxOfLog'
  BY DEF IInv, StatusIsMaxOfLog, LoggedOf, db
<1> QED
  BY <1>1, <1>3, <1>5, <1>6, <1>7 DEF IInv

\* The row a statement is at is one of those it has left, and a valid one.
LEMMA CurrentRow ==
    ASSUME IInv, NEW w \in Workers, stage[w] # "idle", cur[w] # 0
    PROVE  /\ batch[w] \in Batches
           /\ todo[w] \subseteq Valid(batch[w])
           /\ todo[w] \ {cur[w]} \in SUBSET (Nat \ {0})
           /\ cur[w] \in todo[w]
           /\ cur[w] \in Valid(batch[w])
           /\ Row(w) = batch[w][cur[w]]
           /\ Row(w) \in Event
           /\ Comm(w) \in Comms
<1>1. batch[w] \in Batches /\ cur[w] \in todo[w] /\ todo[w] \subseteq Valid(batch[w])
  BY DEF IInv, RequestOK, ScanOK
<1>2. Valid(batch[w]) \subseteq Nat \ {0}
  BY <1>1, ValidRows
<1>3. batch[w][cur[w]] \in Event /\ batch[w][cur[w]].communication_id \in Comms
  BY <1>1, ValidRows
<1> QED
  BY <1>1, <1>2, <1>3 DEF Row, Comm

\* One event of the batch is inserted, or is there already.
LEMMA InsertEventStep ==
    ASSUME IInv, NEW w \in Workers, InsertEvent(w)
    PROVE  IInv'
<1> DEFINE b == batch[w]
           i == cur[w]
<1>1. /\ stage[w] = "events" /\ cur[w] # 0 /\ ~Blocked(w)
      /\ UNCHANGED <<db, batch, ordered, updatedComms, commRows, updatedCusts, custRows, replies>>
      /\ inserted' = [inserted EXCEPT ![w] =
             IF Key(Row(w)) \in Logged THEN inserted[w] ELSE inserted[w] \cup {cur[w]}]
      /\ Start(w, "events", todo[w] \ {cur[w]})
  BY DEF InsertEvent, AtRow, Advance
<1>2. /\ b \in Batches /\ i \in todo[w] /\ i \in Valid(b) /\ Row(w) = b[i]
      /\ todo[w] \subseteq Valid(b)
      /\ todo[w] \ {i} \in SUBSET (Nat \ {0})
  BY <1>1, CurrentRow
<1>3. TypeOK /\ RequestOK(w)
  BY DEF IInv
<1>4. /\ stage' \in [Workers -> Stages] /\ todo' \in [Workers -> SUBSET Nat]
      /\ cur' \in [Workers -> Nat]
      /\ stage'[w] = "events" /\ todo'[w] = todo[w] \ {i}
      /\ IF cur'[w] = 0 THEN todo[w] \ {i} = {} ELSE cur'[w] \in todo[w] \ {i}
      /\ \A v \in Workers \ {w} :
             stage'[v] = stage[v] /\ todo'[v] = todo[v] /\ cur'[v] = cur[v]
  <2>1. "events" \in Stages
    BY DEF Stages
  <2>2. Start(w, "events", todo[w] \ {i}) /\ todo[w] \ {i} \in SUBSET (Nat \ {0})
    BY <1>1, <1>2
  <2> HIDE DEF i
  <2> QED
    BY <1>3, <2>1, <2>2, StartEffect
<1>5. /\ inserted' \in [Workers -> SUBSET Nat]
      /\ inserted'[w] = IF Key(b[i]) \in Logged THEN inserted[w] ELSE inserted[w] \cup {i}
      /\ \A v \in Workers \ {w} : inserted'[v] = inserted[v]
  BY <1>1, <1>2, <1>3 DEF TypeOK
<1>6. TypeOK'
  BY <1>1, <1>3, <1>4, <1>5 DEF TypeOK, db, replies
<1>7. \A v \in Workers \ {w} : Same(v)
  BY <1>1, <1>4, <1>5 DEF Same
<1>8. Logged' = Logged
  BY <1>1 DEF Logged, db
<1>9. \A k \in InsertedKeys(w)' :
          \/ k \in InsertedKeys(w)
          \/ k = Key(b[i]) /\ k \notin Logged
  BY <1>1, <1>5 DEF InsertedKeys
<1>10. \A v \in Workers \ {w} : Key(b[i]) \notin InsertedKeys(v) \/ ~InTransaction(v)
  BY <1>1, <1>2 DEF Blocked, WaitsFor
<1>11. \A v \in Workers \ {w} : ~InTransaction(v) => InsertedKeys(v) \subseteq Logged
  <2> TAKE v \in Workers \ {w}
  <2> HAVE ~InTransaction(v)
  <2>1. stage[v] \in {"idle", "reply"} /\ RequestOK(v)
    BY DEF IInv, InTransaction
  <2>2. \A j \in inserted[v] : Key(batch[v][j]) \in Logged
    BY <2>1 DEF RequestOK, ScanOK, EventsOK, InTransaction
  <2> QED
    BY <2>2 DEF InsertedKeys
<1>12. RequestOK(w)'
  <2>1. ScanOK(w)'
    BY <1>1, <1>2, <1>3, <1>4, <1>5 DEF RequestOK, ScanOK
  <2>2. EventsOK(w)'
    <3>1. InsertedKeys(w) \cap Logged = {}
      BY <1>1, <1>3 DEF RequestOK, EventsOK, InTransaction
    <3>2. (InsertedKeys(w) \cap Logged = {})'
      BY <1>8, <1>9, <3>1
    <3>3. ASSUME NEW j \in Valid(b)
          PROVE  \/ Key(b[j]) \in Logged
                 \/ j \in inserted'[w]
                 \/ j \in todo'[w]
      BY <1>1, <1>3, <1>4, <1>5 DEF RequestOK, EventsOK, InTransaction
    <3> QED
      BY <1>1, <1>4, <1>8, <3>2, <3>3 DEF EventsOK, InTransaction
  <2>3. StatusOK(w)'
    BY <1>1, <1>3, <1>4 DEF RequestOK, StatusOK
  <2>4. OrdersOK(w)'
    BY <1>1, <1>3, <1>4 DEF RequestOK, OrdersOK
  <2>5. CustomersOK(w)'
    BY <1>1, <1>3, <1>4 DEF RequestOK, CustomersOK
  <2> QED
    BY <2>1, <2>2, <2>3, <2>4, <2>5 DEF RequestOK
<1> QED
  BY <1>1, <1>6, <1>7, <1>9, <1>10, <1>11, <1>12, LocalStep

\* A step that only moves w on to another statement.
LEMMA ControlStep ==
    ASSUME IInv, NEW w \in Workers, NEW s \in Stages,
           NEW rows \in SUBSET (Nat \ {0}), Start(w, s, rows),
           UNCHANGED <<db, batch, writes, replies>>, RequestOK(w)'
    PROVE  IInv'
<1>1. TypeOK
  BY DEF IInv
<1>2. /\ stage' \in [Workers -> Stages] /\ todo' \in [Workers -> SUBSET Nat]
      /\ cur' \in [Workers -> Nat]
      /\ \A v \in Workers \ {w} :
             stage'[v] = stage[v] /\ todo'[v] = todo[v] /\ cur'[v] = cur[v]
  BY <1>1, StartEffect
<1>3. TypeOK'
  BY <1>1, <1>2 DEF TypeOK, db, writes, replies
<1>4. \A v \in Workers \ {w} : Same(v)
  BY <1>2 DEF Same, writes
<1>5. InsertedKeys(w)' = InsertedKeys(w)
  BY DEF InsertedKeys, writes
<1>6. UNCHANGED <<db, replies>> /\ updatedComms' = updatedComms /\ updatedCusts' = updatedCusts
  BY DEF writes
<1> QED
  BY <1>3, <1>4, <1>5, <1>6, LocalStep

\* The events are in, and the statuses come next.
LEMMA EventsInsertedStep ==
    ASSUME IInv, NEW w \in Workers, EventsInserted(w)
    PROVE  IInv'
<1> DEFINE b == batch[w]
<1>1. /\ stage[w] = "events" /\ cur[w] = 0
      /\ IF inserted[w] = {} THEN Start(w, "commit", {}) ELSE Start(w, "status", BestOf(w))
      /\ UNCHANGED <<db, batch, writes, replies>>
  BY DEF EventsInserted, Done, BestOf
<1>2. TypeOK /\ RequestOK(w) /\ b \in Batches /\ inserted[w] \subseteq Valid(b)
  BY <1>1 DEF IInv, RequestOK, ScanOK
<1>3. Valid(b) \subseteq Nat \ {0} /\ BestOf(w) \subseteq inserted[w]
  BY <1>2, ValidRows DEF BestOf, Best
<1>4. /\ ordered[w] = {} /\ updatedComms[w] = {} /\ updatedCusts[w] = {} /\ todo[w] = {}
      /\ InsertedKeys(w) \cap Logged = {}
      /\ \A i \in Valid(b) : Key(b[i]) \in Logged \/ i \in inserted[w]
  BY <1>1, <1>2 DEF RequestOK, ScanOK, EventsOK, StatusOK, OrdersOK, CustomersOK, InTransaction
<1>5. /\ BestOf(w)' = BestOf(w) /\ ConvOf(w)' = ConvOf(w) /\ FirstOf(w)' = {}
      /\ Logged' = Logged /\ InsertedKeys(w)' = InsertedKeys(w)
  BY <1>1, <1>4 DEF BestOf, ConvOf, FirstOf, FirstOfCustomer, Logged, InsertedKeys, db, writes
<1>6. /\ inserted'[w] = inserted[w] /\ ordered'[w] = {} /\ updatedComms'[w] = {}
      /\ updatedCusts'[w] = {} /\ batch'[w] = b
  BY <1>1, <1>4 DEF writes
<1>7. CASE inserted[w] = {}
  <2>1. Start(w, "commit", {}) /\ "commit" \in Stages /\ {} \in SUBSET (Nat \ {0})
    BY <1>1, <1>7 DEF Stages
  <2>2. stage'[w] = "commit" /\ todo'[w] = {} /\ cur'[w] = 0
    BY <1>2, <2>1, StartEffect
  <2>3. BestOf(w) = {} /\ ConvOf(w) = {}
    BY <1>7 DEF BestOf, ConvOf, Best, Converted
  <2>4. ScanOK(w)'
    BY <1>2, <1>6, <2>2 DEF ScanOK
  <2>5. EventsOK(w)'
    BY <1>4, <1>5, <1>6, <2>2 DEF EventsOK, InTransaction
  <2>6. StatusOK(w)' /\ OrdersOK(w)' /\ CustomersOK(w)'
    BY <1>5, <1>6, <2>2, <2>3 DEF StatusOK, OrdersOK, CustomersOK
  <2> QED
    BY <1>1, <2>1, <2>4, <2>5, <2>6, ControlStep DEF RequestOK
<1>8. CASE inserted[w] # {}
  <2>1. Start(w, "status", BestOf(w)) /\ "status" \in Stages /\ BestOf(w) \in SUBSET (Nat \ {0})
    BY <1>1, <1>2, <1>3, <1>8 DEF Stages
  <2>2. /\ stage'[w] = "status" /\ todo'[w] = BestOf(w)
        /\ IF cur'[w] = 0 THEN BestOf(w) = {} ELSE cur'[w] \in BestOf(w)
    BY <1>2, <2>1, StartEffect
  <2>3. ScanOK(w)'
    BY <1>2, <1>3, <1>6, <2>2 DEF ScanOK
  <2>4. EventsOK(w)'
    BY <1>4, <1>5, <1>6, <2>2 DEF EventsOK, InTransaction
  <2>5. StatusOK(w)' /\ OrdersOK(w)' /\ CustomersOK(w)'
    BY <1>5, <1>6, <2>2 DEF StatusOK, OrdersOK, CustomersOK
  <2> QED
    BY <1>1, <2>1, <2>3, <2>4, <2>5, ControlStep DEF RequestOK
<1> QED
  BY <1>7, <1>8

\* One communication is raised to the best of its new events.
LEMMA RaiseStatusStep ==
    ASSUME IInv, NEW w \in Workers, RaiseStatus(w)
    PROVE  IInv'
<1> DEFINE b == batch[w]
           i == cur[w]
           c == Comm(w)
           new == Raised(communications[c], Row(w))
<1>1. /\ stage[w] = "status" /\ cur[w] # 0 /\ ~Blocked(w)
      /\ UNCHANGED <<db, batch, inserted, ordered, updatedCusts, custRows, replies>>
      /\ updatedComms' = [updatedComms EXCEPT ![w] = updatedComms[w] \cup {c}]
      /\ commRows' = [commRows EXCEPT ![w][c] = new]
      /\ Start(w, "status", todo[w] \ {cur[w]})
  BY DEF RaiseStatus, AtRow, Advance
<1>2. /\ b \in Batches /\ i \in todo[w] /\ i \in Valid(b) /\ Row(w) = b[i]
      /\ todo[w] \subseteq Valid(b)
      /\ todo[w] \ {i} \in SUBSET (Nat \ {0})
      /\ Row(w) \in Event /\ c \in Comms /\ c = b[i].communication_id
  BY <1>1, CurrentRow DEF Comm
<1>3. TypeOK /\ RequestOK(w) /\ inserted[w] \subseteq Valid(b)
  BY DEF IInv, RequestOK, ScanOK
<1>4. /\ stage' \in [Workers -> Stages] /\ todo' \in [Workers -> SUBSET Nat]
      /\ cur' \in [Workers -> Nat]
      /\ stage'[w] = "status" /\ todo'[w] = todo[w] \ {i}
      /\ IF cur'[w] = 0 THEN todo[w] \ {i} = {} ELSE cur'[w] \in todo[w] \ {i}
      /\ \A v \in Workers \ {w} :
             stage'[v] = stage[v] /\ todo'[v] = todo[v] /\ cur'[v] = cur[v]
  <2>1. "status" \in Stages
    BY DEF Stages
  <2>2. Start(w, "status", todo[w] \ {i}) /\ todo[w] \ {i} \in SUBSET (Nat \ {0})
    BY <1>1, <1>2
  <2> HIDE DEF i
  <2> QED
    BY <1>3, <2>1, <2>2, StartEffect
<1>5. new \in CommRow
  <2>1. communications[c] \in CommRow
        /\ communications[c].status_rank = STATUS_RANKS[communications[c].status]
    BY <1>2, <1>3 DEF TypeOK, IInv, StatusIsMaxOfLog
  <2> QED
    BY <1>2, <2>1, RaisedRow
<1>6. /\ updatedComms' \in [Workers -> SUBSET Comms]
      /\ updatedComms'[w] = updatedComms[w] \cup {c}
      /\ \A v \in Workers \ {w} : updatedComms'[v] = updatedComms[v]
  BY <1>1, <1>2, <1>3 DEF TypeOK
<1>7. /\ commRows' \in [Workers -> [Comms -> CommRow]]
      /\ commRows'[w][c] = new
      /\ \A d \in Comms \ {c} : commRows'[w][d] = commRows[w][d]
      /\ \A v \in Workers \ {w} : commRows'[v] = commRows[v]
  <2> HIDE DEF new, c
  <2> QED
    BY <1>1, <1>2, <1>3, <1>5 DEF TypeOK
<1>8. TypeOK'
  BY <1>1, <1>3, <1>4, <1>6, <1>7 DEF TypeOK, db, replies
<1>9. \A v \in Workers \ {w} : Same(v)
  BY <1>1, <1>4, <1>6, <1>7 DEF Same
<1>10. /\ BestOf(w)' = BestOf(w) /\ ConvOf(w)' = ConvOf(w) /\ FirstOf(w)' = FirstOf(w)
       /\ Logged' = Logged /\ InsertedKeys(w)' = InsertedKeys(w)
  BY <1>1 DEF BestOf, ConvOf, FirstOf, Logged, InsertedKeys, db
<1>11. \A v \in Workers \ {w} : c \notin updatedComms[v]
  <2> TAKE v \in Workers \ {w}
  <2>1. InTransaction(v) => c \notin updatedComms[v]
    BY <1>1 DEF Blocked, WaitsFor
  <2>2. ~InTransaction(v) => updatedComms[v] = {}
    BY DEF IInv, RequestOK, StatusOK, InTransaction
  <2> QED
    BY <2>1, <2>2
<1>12. RequestOK(w)'
  <2>1. ScanOK(w)'
    BY <1>1, <1>2, <1>3, <1>4 DEF RequestOK, ScanOK
  <2>2. EventsOK(w)'
    BY <1>1, <1>3, <1>4, <1>10 DEF RequestOK, EventsOK, InTransaction
  <2>3. StatusOK(w)'
    <3>1. todo[w] \subseteq BestOf(w)
          /\ updatedComms[w] = {b[j].communication_id : j \in BestOf(w) \ todo[w]}
      BY <1>1, <1>3 DEF RequestOK, StatusOK
    <3>2. updatedComms'[w] = {b[j].communication_id : j \in BestOf(w) \ todo'[w]}
      <4>1. BestOf(w) \ todo'[w] = (BestOf(w) \ todo[w]) \cup {i}
        BY <1>2, <1>4, <3>1
      <4> QED
        BY <1>2, <1>6, <3>1, <4>1
    <3>3. ASSUME NEW j \in BestOf(w), b[j].communication_id \in updatedComms'[w]
          PROVE  commRows'[w][b[j].communication_id]
                     = Raised(communications[b[j].communication_id], b[j])
      <4>1. CASE b[j].communication_id = c
        <5>1. i \in BestOf(w)
          BY <1>2, <3>1
        <5>2. i = j
          BY <1>2, <1>3, <4>1, <5>1, BestUnique DEF BestOf
        <5> QED
          BY <1>2, <1>7, <5>2
      <4>2. CASE b[j].communication_id # c
        <5>1. b[j].communication_id \in Comms
          BY <1>2, <1>3, ValidRows DEF BestOf, Best
        <5> QED
          BY <1>3, <1>6, <1>7, <3>3, <4>2, <5>1 DEF RequestOK, StatusOK
      <4> QED
        BY <4>1, <4>2
    <3>4. communications' = communications /\ batch' = batch
      BY <1>1 DEF db
    <3>5. /\ stage'[w] = "status" => todo'[w] \subseteq BestOf(w)'
          /\ stage'[w] \notin {"idle", "events", "reply", "orders", "customers", "commit"}
      BY <1>4, <1>10, <3>1
    <3> HIDE DEF b, new, c, i
    <3> QED
      BY <1>10, <3>2, <3>3, <3>4, <3>5 DEF StatusOK, b
  <2>4. OrdersOK(w)'
    BY <1>1, <1>3, <1>4, <1>10 DEF RequestOK, OrdersOK
  <2>5. CustomersOK(w)'
    BY <1>1, <1>3, <1>4 DEF RequestOK, CustomersOK
  <2> QED
    BY <2>1, <2>2, <2>3, <2>4, <2>5 DEF RequestOK
<1> QED
  BY <1>1, <1>6, <1>8, <1>9, <1>10, <1>11, <1>12, LocalStep

\* The statuses are raised, and the orders come next.
LEMMA StatusRaisedStep ==
    ASSUME IInv, NEW w \in Workers, StatusRaised(w)
    PROVE  IInv'
<1> DEFINE b == batch[w]
<1>1. /\ stage[w] = "status" /\ cur[w] = 0
      /\ IF ConvOf(w) = {} THEN Start(w, "commit", {}) ELSE Start(w, "orders", ConvOf(w))
      /\ UNCHANGED <<db, batch, writes, replies>>
  BY DEF StatusRaised, Done, ConvOf
<1>2. TypeOK /\ RequestOK(w) /\ b \in Batches /\ inserted[w] \subseteq Valid(b)
  BY <1>1 DEF IInv, RequestOK, ScanOK
<1>3. Valid(b) \subseteq Nat \ {0} /\ ConvOf(w) \subseteq inserted[w]
  BY <1>2, ValidRows DEF ConvOf, Converted
<1>4. /\ ordered[w] = {} /\ updatedCusts[w] = {} /\ todo[w] = {}
      /\ updatedComms[w] = {b[i].communication_id : i \in BestOf(w)}
      /\ InsertedKeys(w) \cap Logged = {}
      /\ \A i \in Valid(b) : Key(b[i]) \in Logged \/ i \in inserted[w]
      /\ \A i \in BestOf(w) : commRows[w][b[i].communication_id]
                                  = Raised(communications[b[i].communication_id], b[i])
  <2>1. ordered[w] = {} /\ updatedCusts[w] = {} /\ todo[w] = {}
    BY <1>1, <1>2 DEF RequestOK, ScanOK, OrdersOK, CustomersOK
  <2>2. updatedComms[w] = {b[i].communication_id : i \in BestOf(w)}
    BY <1>1, <1>2, <2>1 DEF RequestOK, StatusOK
  <2>3. \A i \in BestOf(w) : commRows[w][b[i].communication_id]
                                 = Raised(communications[b[i].communication_id], b[i])
    BY <1>1, <1>2, <2>2 DEF RequestOK, StatusOK
  <2>4. /\ InsertedKeys(w) \cap Logged = {}
        /\ \A i \in Valid(b) : Key(b[i]) \in Logged \/ i \in inserted[w]
    BY <1>1, <1>2 DEF RequestOK, EventsOK, InTransaction
  <2> QED
    BY <2>1, <2>2, <2>3, <2>4
<1>5. /\ BestOf(w)' = BestOf(w) /\ ConvOf(w)' = ConvOf(w) /\ FirstOf(w)' = {}
      /\ Logged' = Logged /\ InsertedKeys(w)' = InsertedKeys(w)
  BY <1>1, <1>4 DEF BestOf, ConvOf, FirstOf, FirstOfCustomer, Logged, InsertedKeys, db, writes
<1>6. /\ inserted'[w] = inserted[w] /\ ordered'[w] = {} /\ updatedCusts'[w] = {}
      /\ updatedComms'[w] = updatedComms[w] /\ commRows'[w] = commRows[w]
      /\ batch'[w] = b /\ communications' = communications
  BY <1>1, <1>4 DEF writes, db
<1>7. ASSUME stage'[w] \in {"orders", "commit"}
      PROVE  EventsOK(w)' /\ StatusOK(w)' /\ CustomersOK(w)'
  <2>1. EventsOK(w)'
    BY <1>4, <1>5, <1>6, <1>7 DEF EventsOK, InTransaction
  <2>2. StatusOK(w)'
    BY <1>4, <1>5, <1>6, <1>7 DEF StatusOK
  <2>3. CustomersOK(w)'
    BY <1>5, <1>6, <1>7 DEF CustomersOK
  <2> QED
    BY <2>1, <2>2, <2>3
<1>8. CASE ConvOf(w) = {}
  <2>1. Start(w, "commit", {}) /\ "commit" \in Stages /\ {} \in SUBSET (Nat \ {0})
    BY <1>1, <1>8 DEF Stages
  <2>2. stage'[w] = "commit" /\ todo'[w] = {} /\ cur'[w] = 0
    BY <1>2, <2>1, StartEffect
  <2>3. ScanOK(w)'
    BY <1>2, <1>6, <2>2 DEF ScanOK
  <2>4. OrdersOK(w)'
    BY <1>5, <1>6, <1>8, <2>2 DEF OrdersOK
  <2> QED
    BY <1>1, <1>7, <2>1, <2>2, <2>3, <2>4, ControlStep DEF RequestOK
<1>9. CASE ConvOf(w) # {}
  <2>1. Start(w, "orders", ConvOf(w)) /\ "orders" \in Stages /\ ConvOf(w) \in SUBSET (Nat \ {0})
    BY <1>1, <1>2, <1>3, <1>9 DEF Stages
  <2>2. /\ stage'[w] = "orders" /\ todo'[w] = ConvOf(w)
        /\ IF cur'[w] = 0 THEN ConvOf(w) = {} ELSE cur'[w] \in ConvOf(w)
    BY <1>2, <2>1, StartEffect
  <2>3. ScanOK(w)'
    BY <1>2, <1>3, <1>6, <2>2 DEF ScanOK
  <2>4. OrdersOK(w)'
    BY <1>5, <1>6, <2>2 DEF OrdersOK
  <2> QED
    BY <1>1, <1>7, <2>1, <2>2, <2>3, <2>4, ControlStep DEF RequestOK
<1> QED
  BY <1>8, <1>9

\* One converted communication gets its order, or has it already.
LEMMA InsertOrderStep ==
    ASSUME IInv, NEW w \in Workers, InsertOrder(w)
    PROVE  IInv'
<1> DEFINE b == batch[w]
           i == cur[w]
<1>1. /\ stage[w] = "orders" /\ cur[w] # 0
      /\ UNCHANGED <<db, batch, inserted, updatedComms, commRows, updatedCusts, custRows, replies>>
      /\ ordered' = [ordered EXCEPT ![w] =
             IF HasOrder(Comm(w)) THEN ordered[w] ELSE ordered[w] \cup {cur[w]}]
      /\ Start(w, "orders", todo[w] \ {cur[w]})
  BY DEF InsertOrder, AtRow, Advance
<1>2. /\ b \in Batches /\ i \in todo[w] /\ i \in Valid(b) /\ Row(w) = b[i]
      /\ todo[w] \subseteq Valid(b)
      /\ todo[w] \ {i} \in SUBSET (Nat \ {0})
      /\ Comm(w) = b[i].communication_id
  BY <1>1, CurrentRow DEF Comm
<1>3. TypeOK /\ RequestOK(w) /\ inserted[w] \subseteq Valid(b)
  BY DEF IInv, RequestOK, ScanOK
<1>4. /\ stage' \in [Workers -> Stages] /\ todo' \in [Workers -> SUBSET Nat]
      /\ cur' \in [Workers -> Nat]
      /\ stage'[w] = "orders" /\ todo'[w] = todo[w] \ {i}
      /\ IF cur'[w] = 0 THEN todo[w] \ {i} = {} ELSE cur'[w] \in todo[w] \ {i}
      /\ \A v \in Workers \ {w} :
             stage'[v] = stage[v] /\ todo'[v] = todo[v] /\ cur'[v] = cur[v]
  <2>1. "orders" \in Stages
    BY DEF Stages
  <2>2. Start(w, "orders", todo[w] \ {i}) /\ todo[w] \ {i} \in SUBSET (Nat \ {0})
    BY <1>1, <1>2
  <2> HIDE DEF i
  <2> QED
    BY <1>3, <2>1, <2>2, StartEffect
<1>5. todo[w] \subseteq ConvOf(w) /\ ordered[w] = ConvOf(w) \ todo[w]
  BY <1>1, <1>3 DEF RequestOK, OrdersOK
<1>6. ~HasOrder(Comm(w))
  <2>1. i \in inserted[w] /\ b[i].event_type = "converted"
    BY <1>2, <1>5 DEF ConvOf, Converted
  <2>2. Key(b[i]) \notin Logged
    BY <1>1, <1>3, <2>1 DEF RequestOK, EventsOK, InTransaction, InsertedKeys
  <2>3. \A o \in orders : o.communication_id = b[i].communication_id => Key(b[i]) \in Logged
    BY <2>1 DEF IInv, ConversionsAreOrders, Logged, Key
  <2> QED
    BY <1>2, <2>2, <2>3 DEF HasOrder
<1>7. /\ ordered' \in [Workers -> SUBSET Nat]
      /\ ordered'[w] = ordered[w] \cup {i}
      /\ \A v \in Workers \ {w} : ordered'[v] = ordered[v]
  BY <1>1, <1>2, <1>3, <1>6 DEF TypeOK
<1>8. TypeOK'
  BY <1>1, <1>3, <1>4, <1>7 DEF TypeOK, db, replies
<1>9. \A v \in Workers \ {w} : Same(v)
  BY <1>1, <1>4, <1>7 DEF Same
<1>10. /\ BestOf(w)' = BestOf(w) /\ ConvOf(w)' = ConvOf(w)
       /\ Logged' = Logged /\ InsertedKeys(w)' = InsertedKeys(w)
  BY <1>1 DEF BestOf, ConvOf, Logged, InsertedKeys, db
<1>11. RequestOK(w)'
  <2>1. ScanOK(w)'
    BY <1>1, <1>2, <1>3, <1>4 DEF RequestOK, ScanOK
  <2>2. EventsOK(w)'
    BY <1>1, <1>3, <1>4, <1>10 DEF RequestOK, EventsOK, InTransaction
  <2>3. StatusOK(w)'
    BY <1>1, <1>3, <1>4, <1>10 DEF RequestOK, StatusOK, db
  <2>4. OrdersOK(w)'
    BY <1>2, <1>4, <1>5, <1>7, <1>10 DEF OrdersOK
  <2>5. CustomersOK(w)'
    BY <1>1, <1>3, <1>4 DEF RequestOK, CustomersOK
  <2> QED
    BY <2>1, <2>2, <2>3, <2>4, <2>5 DEF RequestOK
<1> QED
  BY <1>1, <1>8, <1>9, <1>10, <1>11, LocalStep

\* The orders are in, and the customers come next.
LEMMA OrdersInsertedStep ==
    ASSUME IInv, NEW w \in Workers, OrdersInserted(w)
    PROVE  IInv'
<1> DEFINE b == batch[w]
<1>1. /\ stage[w] = "orders" /\ cur[w] = 0
      /\ Start(w, "customers", FirstOf(w))
      /\ UNCHANGED <<db, batch, writes, replies>>
  BY DEF OrdersInserted, Done, FirstOf
<1>2. TypeOK /\ RequestOK(w) /\ b \in Batches /\ inserted[w] \subseteq Valid(b)
  BY <1>1 DEF IInv, RequestOK, ScanOK
<1>3. todo[w] = {} /\ ordered[w] = ConvOf(w) /\ updatedCusts[w] = {}
  BY <1>1, <1>2 DEF RequestOK, ScanOK, OrdersOK, CustomersOK
<1>4. FirstOf(w) \subseteq Valid(b) /\ FirstOf(w) \in SUBSET (Nat \ {0})
  BY <1>2, <1>3, ValidRows DEF ConvOf, Converted, FirstOf, FirstOfCustomer
<1>5. /\ BestOf(w)' = BestOf(w) /\ ConvOf(w)' = ConvOf(w) /\ FirstOf(w)' = FirstOf(w)
      /\ Logged' = Logged /\ InsertedKeys(w)' = InsertedKeys(w)
  BY <1>1 DEF BestOf, ConvOf, FirstOf, Logged, InsertedKeys, db, writes
<1>6. "customers" \in Stages
  BY DEF Stages
<1>7. /\ stage'[w] = "customers" /\ todo'[w] = FirstOf(w)
      /\ IF cur'[w] = 0 THEN FirstOf(w) = {} ELSE cur'[w] \in FirstOf(w)
  BY <1>1, <1>2, <1>4, <1>6, StartEffect
<1>8. ScanOK(w)'
  BY <1>1, <1>2, <1>4, <1>7 DEF ScanOK, writes
<1>9. EventsOK(w)'
  BY <1>1, <1>2, <1>5, <1>7 DEF RequestOK, EventsOK, InTransaction, writes
<1>10. StatusOK(w)'
  BY <1>1, <1>2, <1>5, <1>7 DEF RequestOK, StatusOK, writes, db
<1>11. OrdersOK(w)'
  BY <1>1, <1>3, <1>5, <1>7 DEF OrdersOK, writes
<1>12. CustomersOK(w)'
  BY <1>1, <1>3, <1>5, <1>7 DEF CustomersOK, writes
<1> QED
  BY <1>1, <1>4, <1>6, <1>8, <1>9, <1>10, <1>11, <1>12, ControlStep DEF RequestOK

-----------------------------------------------------------------------------
(* The grouping of apply_order_aggregates. *)

\* Every non-empty set of natural numbers has a least element.
LEMMA LeastNatural ==
    ASSUME NEW T \in SUBSET Nat, T # {}
    PROVE  \E t \in T : \A s \in T : t <= s
<1> DEFINE R == OpToRel(<, Nat)
<1>1. IsWellFoundedOn(R, Nat)
  BY NatLessThanWellFounded
<1>2. PICK t \in T : \A s \in T : <<s, t>> \notin R
  <2> HIDE DEF R
  <2> QED
    BY <1>1, WFMin
<1>3. \A s \in T : ~(s < t)
  BY <1>2 DEF OpToRel
<1> QED
  BY <1>3

\* A non-empty set of dates has a latest one.
LEMMA GreatestTime ==
    ASSUME NEW T \in SUBSET Times, T # {}
    PROVE  \E t \in T : \A s \in T : s <= t
<1> DEFINE D == {MaxTime - t : t \in T}
<1>1. MaxTime \in Nat /\ \A t \in T : t \in Nat /\ MaxTime - t \in Nat
  BY ConstantsAssumption DEF Times
<1>2. D \in SUBSET Nat /\ D # {}
  BY <1>1
<1>3. PICK d \in D : \A e \in D : d <= e
  <2> HIDE DEF D
  <2> QED
    BY <1>2, LeastNatural
<1>4. PICK t \in T : d = MaxTime - t
  BY <1>3
<1>5. \A s \in T : MaxTime - t <= MaxTime - s
  BY <1>3, <1>4
<1> QED
  BY <1>1, <1>5

\* What apply_order_aggregates computes for one customer is a count and a date,
\* and the date is the latest of the orders it counts.
LEMMA Aggregate ==
    ASSUME NEW b \in Batches, NEW S \in SUBSET Valid(b), S # {}
    PROVE  /\ IsFiniteSet(S)
           /\ Cardinality(S) \in Nat
           /\ Latest(b, S) \in {b[i].occurred_at : i \in S}
           /\ Latest(b, S) \in Nat
           /\ \A i \in S : b[i].occurred_at <= Latest(b, S)
<1>1. b \in Seq(Event)
  BY ConstantsAssumption
<1>2. IsFiniteSet(S) /\ Cardinality(S) \in Nat
  <2>1. Len(b) \in Nat /\ S \in SUBSET (1..Len(b))
    BY <1>1 DEF Valid
  <2>2. IsFiniteSet(1..Len(b))
    BY <2>1, FS_Interval
  <2>3. IsFiniteSet(S)
    BY <2>1, <2>2, FS_Subset
  <2> QED
    BY <2>3, FS_CardinalityType
<1> DEFINE T == {b[i].occurred_at : i \in S}
<1>3. T \in SUBSET Times /\ T # {}
  BY ValidRows DEF Event
<1>4. \E t \in T : \A s \in T : s <= t
  <2> HIDE DEF T
  <2> QED
    BY <1>3, GreatestTime
<1>5. \E t \in T : \A i \in S : b[i].occurred_at <= t
  BY <1>4
<1>6. Latest(b, S) \in T /\ \A i \in S : b[i].occurred_at <= Latest(b, S)
  <2>1. Latest(b, S) = CHOOSE t \in T : \A i \in S : b[i].occurred_at <= t
    BY DEF Latest
  <2> HIDE DEF T
  <2> QED
    BY <1>5, <2>1
<1>7. Latest(b, S) \in Nat
  BY <1>3, <1>6 DEF Times
<1> QED
  BY <1>2, <1>6, <1>7

\* A customer with an order among the rows has exactly one first row.
LEMMA FirstRow ==
    ASSUME NEW b \in Batches, NEW S \in SUBSET Valid(b)
    PROVE  /\ \A i \in S : \E j \in FirstOfCustomer(b, S) : Customer(b, j) = Customer(b, i)
           /\ \A i, j \in FirstOfCustomer(b, S) : Customer(b, i) = Customer(b, j) => i = j
<1>1. S \subseteq Nat
  BY ValidRows
<1>2. ASSUME NEW i \in S
      PROVE  \E j \in FirstOfCustomer(b, S) : Customer(b, j) = Customer(b, i)
  <2> DEFINE T == {j \in S : Customer(b, j) = Customer(b, i)}
  <2>1. T \in SUBSET Nat /\ T # {}
    BY <1>1, <1>2
  <2>2. PICK j \in T : \A k \in T : j <= k
    <3> HIDE DEF T
    <3> QED
      BY <2>1, LeastNatural
  <2>3. j \in FirstOfCustomer(b, S)
    BY <2>2 DEF FirstOfCustomer
  <2> QED
    BY <2>2, <2>3
<1>3. ASSUME NEW i \in FirstOfCustomer(b, S), NEW j \in FirstOfCustomer(b, S),
             Customer(b, i) = Customer(b, j)
      PROVE  i = j
  <2>1. i <= j /\ j <= i /\ i \in Nat /\ j \in Nat
    BY <1>1, <1>3 DEF FirstOfCustomer
  <2> QED
    BY <2>1
<1> QED
  BY <1>2, <1>3

\* One customer is credited with the orders of the batch.
LEMMA CreditCustomerStep ==
    ASSUME IInv, NEW w \in Workers, CreditCustomer(w)
    PROVE  IInv'
<1> DEFINE b == batch[w]
           i == cur[w]
           u == CustomerOf[Comm(w)]
           mine == OfCustomer(b, ordered[w], u)
           new == Credited(customers[u], Cardinality(mine), Latest(b, mine))
<1>1. /\ stage[w] = "customers" /\ cur[w] # 0 /\ ~Blocked(w)
      /\ UNCHANGED <<db, batch, inserted, ordered, updatedComms, commRows, replies>>
      /\ updatedCusts' = [updatedCusts EXCEPT ![w] = updatedCusts[w] \cup {u}]
      /\ custRows' = [custRows EXCEPT ![w][u] = new]
      /\ Start(w, "customers", todo[w] \ {cur[w]})
  BY DEF CreditCustomer, AtRow, Advance
<1>2. /\ b \in Batches /\ i \in todo[w] /\ i \in Valid(b) /\ Row(w) = b[i]
      /\ todo[w] \subseteq Valid(b)
      /\ todo[w] \ {i} \in SUBSET (Nat \ {0})
      /\ u = Customer(b, i) /\ u \in Customers
  <2>1. /\ b \in Batches /\ i \in todo[w] /\ i \in Valid(b) /\ Row(w) = b[i]
        /\ todo[w] \subseteq Valid(b)
        /\ todo[w] \ {i} \in SUBSET (Nat \ {0})
    BY <1>1, CurrentRow
  <2>2. u = Customer(b, i)
    BY <2>1 DEF Comm, Customer
  <2> QED
    BY <2>1, <2>2, ValidRows
<1>3. TypeOK /\ RequestOK(w) /\ inserted[w] \subseteq Valid(b)
  BY DEF IInv, RequestOK, ScanOK
<1>4. /\ stage' \in [Workers -> Stages] /\ todo' \in [Workers -> SUBSET Nat]
      /\ cur' \in [Workers -> Nat]
      /\ stage'[w] = "customers" /\ todo'[w] = todo[w] \ {i}
      /\ IF cur'[w] = 0 THEN todo[w] \ {i} = {} ELSE cur'[w] \in todo[w] \ {i}
      /\ \A v \in Workers \ {w} :
             stage'[v] = stage[v] /\ todo'[v] = todo[v] /\ cur'[v] = cur[v]
  <2>1. "customers" \in Stages
    BY DEF Stages
  <2>2. Start(w, "customers", todo[w] \ {i}) /\ todo[w] \ {i} \in SUBSET (Nat \ {0})
    BY <1>1, <1>2
  <2> HIDE DEF i
  <2> QED
    BY <1>3, <2>1, <2>2, StartEffect
<1>5. /\ todo[w] \subseteq FirstOf(w) /\ FirstOf(w) \subseteq ordered[w]
      /\ ordered[w] = ConvOf(w) /\ ordered[w] \subseteq Valid(b)
      /\ updatedCusts[w] = {Customer(b, j) : j \in FirstOf(w) \ todo[w]}
  <2>1. ordered[w] = ConvOf(w) /\ todo[w] \subseteq FirstOf(w)
        /\ updatedCusts[w] = {Customer(b, j) : j \in FirstOf(w) \ todo[w]}
    BY <1>1, <1>3 DEF RequestOK, OrdersOK, CustomersOK
  <2>2. FirstOf(w) \subseteq ordered[w]
    BY DEF FirstOf, FirstOfCustomer
  <2>3. ConvOf(w) \subseteq inserted[w]
    BY DEF ConvOf, Converted
  <2> QED
    BY <1>3, <2>1, <2>2, <2>3
<1>6. new \in CustRow
  <2>1. i \in mine /\ mine \in SUBSET Valid(b)
    BY <1>2, <1>5 DEF OfCustomer
  <2> HIDE DEF mine, u, b
  <2>2. Cardinality(mine) \in Nat /\ Latest(b, mine) \in Nat
    BY <1>2, <2>1, Aggregate
  <2>3. customers[u] \in CustRow
    BY <1>2, <1>3 DEF TypeOK
  <2>4. Later(customers[u].last_order_at, Latest(b, mine)) \in Nat
    BY <2>2, <2>3 DEF CustRow, Later
  <2> QED
    BY <2>2, <2>3, <2>4 DEF Credited, CustRow
<1>7. /\ updatedCusts' \in [Workers -> SUBSET Customers]
      /\ updatedCusts'[w] = updatedCusts[w] \cup {u}
      /\ \A v \in Workers \ {w} : updatedCusts'[v] = updatedCusts[v]
  <2> HIDE DEF u
  <2> QED
    BY <1>1, <1>2, <1>3 DEF TypeOK
<1>8. /\ custRows' \in [Workers -> [Customers -> CustRow]]
      /\ custRows'[w][u] = new
      /\ \A d \in Customers \ {u} : custRows'[w][d] = custRows[w][d]
      /\ \A v \in Workers \ {w} : custRows'[v] = custRows[v]
  <2> HIDE DEF new, u
  <2> QED
    BY <1>1, <1>2, <1>3, <1>6 DEF TypeOK
<1>9. TypeOK'
  BY <1>1, <1>3, <1>4, <1>7, <1>8 DEF TypeOK, db, replies
<1>10. \A v \in Workers \ {w} : Same(v)
  BY <1>1, <1>4, <1>7, <1>8 DEF Same
<1>11. /\ BestOf(w)' = BestOf(w) /\ ConvOf(w)' = ConvOf(w) /\ FirstOf(w)' = FirstOf(w)
       /\ Logged' = Logged /\ InsertedKeys(w)' = InsertedKeys(w)
  BY <1>1 DEF BestOf, ConvOf, FirstOf, Logged, InsertedKeys, db
<1>12. \A v \in Workers \ {w} : u \notin updatedCusts[v]
  <2> TAKE v \in Workers \ {w}
  <2>1. InTransaction(v) => u \notin updatedCusts[v]
    BY <1>1 DEF Blocked, WaitsFor
  <2>2. ~InTransaction(v) => updatedCusts[v] = {}
    BY DEF IInv, RequestOK, CustomersOK, InTransaction
  <2> QED
    BY <2>1, <2>2
<1>13. RequestOK(w)'
  <2>1. ScanOK(w)'
    BY <1>1, <1>2, <1>3, <1>4 DEF RequestOK, ScanOK
  <2>2. EventsOK(w)'
    BY <1>1, <1>3, <1>4, <1>11 DEF RequestOK, EventsOK, InTransaction
  <2>3. StatusOK(w)'
    BY <1>1, <1>3, <1>4, <1>11 DEF RequestOK, StatusOK, db
  <2>4. OrdersOK(w)'
    BY <1>1, <1>4, <1>5, <1>11 DEF OrdersOK
  <2>5. CustomersOK(w)'
    <3>1. updatedCusts'[w] = {Customer(b, j) : j \in FirstOf(w) \ todo'[w]}
      <4>1. FirstOf(w) \ todo'[w] = (FirstOf(w) \ todo[w]) \cup {i}
        BY <1>2, <1>4, <1>5
      <4> QED
        BY <1>2, <1>5, <1>7, <4>1
    <3>2. ASSUME NEW d \in updatedCusts'[w]
          PROVE  custRows'[w][d] = Credited(customers[d],
                     Cardinality(OfCustomer(b, ordered[w], d)),
                     Latest(b, OfCustomer(b, ordered[w], d)))
      <4>1. CASE d = u
        BY <1>8, <4>1
      <4>2. CASE d # u
        <5>1. d \in updatedCusts[w] /\ d \in Customers
          BY <1>3, <1>7, <4>2 DEF TypeOK
        <5>2. custRows'[w][d] = custRows[w][d]
          BY <1>8, <4>2, <5>1
        <5> QED
          BY <1>3, <5>1, <5>2 DEF RequestOK, CustomersOK
      <4> QED
        BY <4>1, <4>2
    <3>3. customers' = customers /\ batch' = batch /\ ordered' = ordered
      BY <1>1 DEF db
    <3>4. stage'[w] = "customers" /\ todo'[w] \subseteq FirstOf(w)'
      BY <1>4, <1>5, <1>11
    <3> HIDE DEF new, u, mine, i
    <3> QED
      BY <1>11, <3>1, <3>2, <3>3, <3>4 DEF CustomersOK
  <2> QED
    BY <2>1, <2>2, <2>3, <2>4, <2>5 DEF RequestOK
<1> QED
  BY <1>1, <1>7, <1>9, <1>10, <1>11, <1>12, <1>13, LocalStep

\* The customers are credited, and the commit comes next.
LEMMA CustomersCreditedStep ==
    ASSUME IInv, NEW w \in Workers, CustomersCredited(w)
    PROVE  IInv'
<1>1. /\ stage[w] = "customers" /\ cur[w] = 0
      /\ Start(w, "commit", {})
      /\ UNCHANGED <<db, batch, writes, replies>>
  BY DEF CustomersCredited, Done
<1>2. TypeOK /\ RequestOK(w) /\ todo[w] = {}
  BY <1>1 DEF IInv, RequestOK, ScanOK
<1>3. /\ BestOf(w)' = BestOf(w) /\ ConvOf(w)' = ConvOf(w) /\ FirstOf(w)' = FirstOf(w)
      /\ Logged' = Logged /\ InsertedKeys(w)' = InsertedKeys(w)
  BY <1>1 DEF BestOf, ConvOf, FirstOf, Logged, InsertedKeys, db, writes
<1>4. "commit" \in Stages /\ {} \in SUBSET (Nat \ {0})
  BY DEF Stages
<1>5. stage'[w] = "commit" /\ todo'[w] = {} /\ cur'[w] = 0
  BY <1>1, <1>2, <1>4, StartEffect
<1>6. ScanOK(w)' /\ EventsOK(w)' /\ StatusOK(w)' /\ OrdersOK(w)'
  <2>1. ScanOK(w)'
    BY <1>1, <1>2, <1>5 DEF RequestOK, ScanOK, writes
  <2>2. EventsOK(w)'
    BY <1>1, <1>2, <1>3, <1>5 DEF RequestOK, EventsOK, InTransaction, writes
  <2>3. StatusOK(w)'
    BY <1>1, <1>2, <1>3, <1>5 DEF RequestOK, StatusOK, writes, db
  <2>4. OrdersOK(w)'
    BY <1>1, <1>2, <1>3, <1>5 DEF RequestOK, OrdersOK, writes
  <2> QED
    BY <2>1, <2>2, <2>3, <2>4
<1>7. CustomersOK(w)'
  BY <1>1, <1>2, <1>3, <1>5 DEF RequestOK, CustomersOK, writes, db
<1> QED
  BY <1>1, <1>4, <1>6, <1>7, ControlStep DEF RequestOK

-----------------------------------------------------------------------------
(* The beginning and the end of a request. *)

\* A batch comes in and nothing is written yet.
LEMMA ReceiveStep ==
    ASSUME IInv, NEW w \in Workers, NEW a \in Batches, Receive(w, a)
    PROVE  IInv'
<1>1. /\ stage[w] = "idle"
      /\ batch' = [batch EXCEPT ![w] = a]
      /\ Start(w, "events", Valid(a))
      /\ UNCHANGED <<db, writes, replies>>
  BY DEF Receive
<1>2. TypeOK /\ RequestOK(w)
  BY DEF IInv
<1>3. a \in Seq(Event) /\ Valid(a) \in SUBSET (Nat \ {0})
  BY ValidRows
<1>4. "events" \in Stages
  BY DEF Stages
<1>5. /\ stage' \in [Workers -> Stages] /\ todo' \in [Workers -> SUBSET Nat]
      /\ cur' \in [Workers -> Nat]
      /\ stage'[w] = "events" /\ todo'[w] = Valid(a)
      /\ IF cur'[w] = 0 THEN Valid(a) = {} ELSE cur'[w] \in Valid(a)
      /\ \A v \in Workers \ {w} :
             stage'[v] = stage[v] /\ todo'[v] = todo[v] /\ cur'[v] = cur[v]
  BY <1>1, <1>2, <1>3, <1>4, StartEffect
<1>6. /\ batch' \in [Workers -> Seq(Event)] /\ batch'[w] = a
      /\ \A v \in Workers \ {w} : batch'[v] = batch[v]
  BY <1>1, <1>2, <1>3 DEF TypeOK
<1>7. /\ inserted'[w] = {} /\ ordered'[w] = {} /\ updatedComms'[w] = {} /\ updatedCusts'[w] = {}
      /\ updatedComms' = updatedComms /\ updatedCusts' = updatedCusts
  BY <1>1, <1>2 DEF RequestOK, EventsOK, StatusOK, OrdersOK, CustomersOK, writes
<1>8. TypeOK'
  BY <1>1, <1>2, <1>5, <1>6 DEF TypeOK, db, writes, replies
<1>9. \A v \in Workers \ {w} : Same(v)
  BY <1>1, <1>5, <1>6 DEF Same, writes
<1>10. InsertedKeys(w)' = {}
  BY <1>7 DEF InsertedKeys
<1>11. RequestOK(w)'
  <2>1. ScanOK(w)'
    BY <1>5, <1>6, <1>7 DEF ScanOK
  <2>2. EventsOK(w)'
    BY <1>5, <1>6, <1>7, <1>10 DEF EventsOK
  <2>3. StatusOK(w)' /\ OrdersOK(w)' /\ CustomersOK(w)'
    BY <1>5, <1>7 DEF StatusOK, OrdersOK, CustomersOK
  <2> QED
    BY <2>1, <2>2, <2>3 DEF RequestOK
<1>12. UNCHANGED <<db, replies>>
  BY <1>1
<1> QED
  BY <1>7, <1>8, <1>9, <1>10, <1>11, <1>12, LocalStep

\* A request that left without open writes is as good as new.
LEMMA LeaveEffect ==
    ASSUME IInv, NEW w \in Workers, Leave(w)
    PROVE  /\ stage' \in [Workers -> Stages] /\ batch' \in [Workers -> Seq(Event)]
           /\ todo' \in [Workers -> SUBSET Nat] /\ cur' \in [Workers -> Nat]
           /\ inserted' \in [Workers -> SUBSET Nat] /\ ordered' \in [Workers -> SUBSET Nat]
           /\ updatedComms' \in [Workers -> SUBSET Comms]
           /\ commRows' \in [Workers -> [Comms -> CommRow]]
           /\ updatedCusts' \in [Workers -> SUBSET Customers]
           /\ custRows' \in [Workers -> [Customers -> CustRow]]
           /\ stage'[w] = "idle" /\ inserted'[w] = {}
           /\ updatedComms'[w] = {} /\ updatedCusts'[w] = {}
           /\ InsertedKeys(w)' = {}
           /\ RequestOK(w)'
           /\ \A v \in Workers \ {w} : Same(v)
<1>1. TypeOK
  BY DEF IInv
<1>2. <<>> \in Seq(Event) /\ "idle" \in Stages /\ {} \in SUBSET Nat /\ 0 \in Nat
  BY DEF Stages
<1>3. [c \in Comms |-> NewComm] \in [Comms -> CommRow]
  BY DEF NewComm, CommRow, Status
<1>4. [u \in Customers |-> NewCust] \in [Customers -> CustRow]
  BY DEF NewCust, CustRow
<1>5. /\ stage' \in [Workers -> Stages] /\ batch' \in [Workers -> Seq(Event)]
      /\ todo' \in [Workers -> SUBSET Nat] /\ cur' \in [Workers -> Nat]
      /\ inserted' \in [Workers -> SUBSET Nat]
      /\ stage'[w] = "idle" /\ batch'[w] = <<>> /\ todo'[w] = {} /\ cur'[w] = 0
      /\ inserted'[w] = {}
      /\ \A v \in Workers \ {w} :
             /\ stage'[v] = stage[v] /\ batch'[v] = batch[v] /\ todo'[v] = todo[v]
             /\ cur'[v] = cur[v] /\ inserted'[v] = inserted[v]
  BY <1>1, <1>2 DEF TypeOK, Leave
<1>6. /\ ordered' \in [Workers -> SUBSET Nat]
      /\ updatedComms' \in [Workers -> SUBSET Comms]
      /\ updatedCusts' \in [Workers -> SUBSET Customers]
      /\ ordered'[w] = {} /\ updatedComms'[w] = {} /\ updatedCusts'[w] = {}
      /\ \A v \in Workers \ {w} :
             /\ ordered'[v] = ordered[v] /\ updatedComms'[v] = updatedComms[v]
             /\ updatedCusts'[v] = updatedCusts[v]
  BY <1>1 DEF TypeOK, Leave, ForgetWrites
<1>7. /\ commRows' \in [Workers -> [Comms -> CommRow]]
      /\ \A v \in Workers \ {w} : commRows'[v] = commRows[v]
  BY <1>1, <1>3 DEF TypeOK, Leave, ForgetWrites
<1>8. /\ custRows' \in [Workers -> [Customers -> CustRow]]
      /\ \A v \in Workers \ {w} : custRows'[v] = custRows[v]
  BY <1>1, <1>4 DEF TypeOK, Leave, ForgetWrites
<1>9. \A v \in Workers \ {w} : Same(v)
  BY <1>5, <1>6, <1>7, <1>8 DEF Same
<1>10. InsertedKeys(w)' = {}
  BY <1>5 DEF InsertedKeys
<1>11. RequestOK(w)'
  <2>1. Valid(<<>>) = {}
    BY DEF Valid
  <2>2. ScanOK(w)' /\ EventsOK(w)'
    BY <1>5, <1>10, <2>1 DEF ScanOK, EventsOK, InTransaction
  <2>3. StatusOK(w)' /\ OrdersOK(w)' /\ CustomersOK(w)'
    BY <1>5, <1>6 DEF StatusOK, OrdersOK, CustomersOK
  <2> QED
    BY <2>2, <2>3 DEF RequestOK
<1> QED
  BY <1>5, <1>6, <1>7, <1>8, <1>9, <1>10, <1>11

\* Steps that end a request and tell nobody: roll-back, and a lost answer.
LEMMA LeaveStep ==
    ASSUME IInv, NEW w \in Workers, Leave(w), UNCHANGED <<db, replies>>
    PROVE  IInv'
<1>1. TypeOK'
  BY LeaveEffect DEF IInv, TypeOK, db, replies
<1> QED
  BY <1>1, LeaveEffect, LocalStep

\* The reply leaves the committed rows as they are.
LEMMA ReplyStep ==
    ASSUME IInv, NEW w \in Workers, Reply(w)
    PROVE  IInv'
<1>1. /\ stage[w] = "reply" /\ Leave(w) /\ UNCHANGED db
      /\ accepts' = [k \in Keys |->
             IF k \in InsertedKeys(w) THEN accepts[k] + 1 ELSE accepts[k]]
      /\ answered' = answered \cup {Key(batch[w][i]) : i \in Valid(batch[w])}
  BY DEF Reply
<1>2. TypeOK /\ RequestOK(w) /\ batch[w] \in Batches
  BY <1>1 DEF IInv, RequestOK, ScanOK
<1>3. /\ InsertedKeys(w)' = {} /\ updatedComms'[w] = {} /\ updatedCusts'[w] = {}
      /\ RequestOK(w)'
      /\ \A v \in Workers \ {w} : Same(v)
  BY <1>1, LeaveEffect
<1>4. \A i \in Valid(batch[w]) : Key(batch[w][i]) \in Logged /\ Key(batch[w][i]) \in Keys
  BY <1>1, <1>2, ValidRows DEF RequestOK, EventsOK, InTransaction
<1>5. TypeOK'
  <2>1. accepts' \in [Keys -> Nat] /\ answered' \subseteq Keys
    BY <1>1, <1>2, <1>4 DEF TypeOK
  <2> QED
    BY <1>1, <1>2, <2>1, LeaveEffect DEF TypeOK, db
<1>6. \A v \in Workers : RequestOK(v)'
  BY <1>1, <1>3, Frame DEF IInv
<1>7. \A v \in Workers \ {w} : InsertedKeys(v)' = InsertedKeys(v)
  BY <1>3 DEF Same, InsertedKeys
<1>8. Exclusive'
  BY <1>3, <1>7 DEF IInv, Exclusive, Same
<1>9. Logged' = Logged
  BY <1>1 DEF Logged, db
<1>10. AnswersOK'
  <2>1. AnsweredIsLogged'
    BY <1>1, <1>4, <1>9 DEF IInv, AnswersOK, AnsweredIsLogged
  <2>2. ASSUME NEW k \in Keys, accepts'[k] # 0
        PROVE  accepts'[k] = 1 /\ k \in Logged' /\ \A v \in Workers : k \notin InsertedKeys(v)'
    <3>1. CASE k \in InsertedKeys(w)
      <4>1. accepts[k] = 0
        BY <3>1 DEF IInv, AnswersOK
      <4>2. accepts'[k] = 1
        BY <1>1, <3>1, <4>1
      <4>3. k \in Logged
        BY <1>2, <1>4, <3>1 DEF InsertedKeys, RequestOK, ScanOK
      <4>4. \A v \in Workers \ {w} : k \notin InsertedKeys(v)
        BY <3>1 DEF IInv, Exclusive
      <4> QED
        BY <1>3, <1>7, <1>9, <4>2, <4>3, <4>4
    <3>2. CASE k \notin InsertedKeys(w)
      BY <1>1, <1>3, <1>7, <1>9, <2>2, <3>2 DEF IInv, AnswersOK
    <3> QED
      BY <3>1, <3>2
  <2> QED
    BY <2>1, <2>2 DEF AnswersOK
<1>11. OneEventPerKey' /\ ConversionsAreOrders'
  BY <1>1 DEF IInv, OneEventPerKey, ConversionsAreOrders, db
<1>12. StatusIsMaxOfLog'
  BY <1>1 DEF IInv, StatusIsMaxOfLog, LoggedOf, db
<1> QED
  BY <1>5, <1>6, <1>8, <1>10, <1>11, <1>12 DEF IInv

\* Among the rows inserted for a communication, one is best.
LEMMA BestExists ==
    ASSUME NEW b \in Batches, NEW S \in SUBSET Valid(b), NEW i \in S
    PROVE  \E j \in Best(b, S) : /\ b[j].communication_id = b[i].communication_id
                                 /\ STATUS_RANKS[b[i].event_type] <= STATUS_RANKS[b[j].event_type]
<1> DEFINE Rank(j) == STATUS_RANKS[b[j].event_type]
           T == {j \in S : b[j].communication_id = b[i].communication_id}
           D == {60 - Rank(j) : j \in T}
<1>1. \A j \in S : Rank(j) \in 0..60
  <2>1. \A j \in S : b[j].event_type \in Status
    BY ValidRows DEF Status
  <2> QED
    BY <2>1, Ranks
<1>2. D \in SUBSET Nat /\ D # {}
  BY <1>1
<1>3. PICK d \in D : \A e \in D : d <= e
  <2> HIDE DEF D
  <2> QED
    BY <1>2, LeastNatural
<1>4. PICK j \in T : d = 60 - Rank(j)
  BY <1>3
<1>5. \A k \in T : Rank(k) <= Rank(j)
  <2> TAKE k \in T
  <2>1. 60 - Rank(j) <= 60 - Rank(k)
    BY <1>3, <1>4
  <2>2. Rank(j) \in 0..60 /\ Rank(k) \in 0..60
    BY <1>1
  <2> HIDE DEF Rank
  <2> QED
    BY <2>1, <2>2
<1>6. j \in Best(b, S)
  BY <1>5 DEF Best
<1> QED
  BY <1>5, <1>6

-----------------------------------------------------------------------------
(* The commit. *)

\* What is known of a request that is about to commit.
LEMMA ReadyToCommit ==
    ASSUME IInv, NEW w \in Workers, stage[w] = "commit"
    PROVE  /\ batch[w] \in Batches
           /\ inserted[w] \in SUBSET Valid(batch[w])
           /\ InsertedKeys(w) \cap Logged = {}
           /\ \A i \in Valid(batch[w]) : Key(batch[w][i]) \in Logged \/ i \in inserted[w]
           /\ updatedComms[w] = {batch[w][i].communication_id : i \in BestOf(w)}
           /\ \A i \in BestOf(w) : commRows[w][batch[w][i].communication_id]
                  = Raised(communications[batch[w][i].communication_id], batch[w][i])
           /\ ordered[w] = ConvOf(w)
           /\ ConvOf(w) \in SUBSET Valid(batch[w])
           /\ updatedCusts[w] = {Customer(batch[w], i) : i \in ConvOf(w)}
           /\ \A u \in updatedCusts[w] :
                  LET mine == OfCustomer(batch[w], ConvOf(w), u) IN
                  custRows[w][u] = Credited(customers[u], Cardinality(mine), Latest(batch[w], mine))
<1> DEFINE b == batch[w]
<1>1. RequestOK(w) /\ b \in Batches /\ inserted[w] \in SUBSET Valid(b) /\ todo[w] = {}
  BY DEF IInv, RequestOK, ScanOK
<1>2. /\ InsertedKeys(w) \cap Logged = {}
      /\ \A i \in Valid(b) : Key(b[i]) \in Logged \/ i \in inserted[w]
  BY <1>1 DEF RequestOK, EventsOK, InTransaction
<1>3. updatedComms[w] = {b[i].communication_id : i \in BestOf(w)}
  BY <1>1 DEF RequestOK, StatusOK
<1>4. \A i \in BestOf(w) : commRows[w][b[i].communication_id]
          = Raised(communications[b[i].communication_id], b[i])
  BY <1>1, <1>3 DEF RequestOK, StatusOK
<1>5. ordered[w] = ConvOf(w) /\ ConvOf(w) \in SUBSET Valid(b)
  BY <1>1 DEF RequestOK, OrdersOK, ConvOf, Converted
<1>6. updatedCusts[w] = {Customer(b, i) : i \in FirstOf(w)}
  BY <1>1 DEF RequestOK, CustomersOK
<1>7. updatedCusts[w] = {Customer(b, i) : i \in ConvOf(w)}
  <2>1. \A i \in ConvOf(w) : \E j \in FirstOf(w) : Customer(b, j) = Customer(b, i)
    BY <1>1, <1>5, FirstRow DEF FirstOf
  <2>2. FirstOf(w) \subseteq ConvOf(w)
    BY <1>5 DEF FirstOf, FirstOfCustomer
  <2> QED
    BY <1>6, <2>1, <2>2
<1>8. \A u \in updatedCusts[w] :
          LET mine == OfCustomer(b, ConvOf(w), u) IN
          custRows[w][u] = Credited(customers[u], Cardinality(mine), Latest(b, mine))
  BY <1>1, <1>5 DEF RequestOK, CustomersOK
<1> QED
  BY <1>1, <1>2, <1>3, <1>4, <1>5, <1>7, <1>8

\* A committed batch raises exactly the communications it logged events of.
LEMMA CommittedRows ==
    ASSUME IInv, NEW w \in Workers, Commit(w), NEW c \in Comms
    PROVE  \/ /\ \A i \in inserted[w] : batch[w][i].communication_id # c
              /\ communications'[c] = communications[c]
           \/ \E i \in BestOf(w) :
                 /\ batch[w][i].communication_id = c
                 /\ communications'[c] = Raised(communications[c], batch[w][i])
                 /\ \A j \in inserted[w] : batch[w][j].communication_id = c =>
                        STATUS_RANKS[batch[w][j].event_type] <= STATUS_RANKS[batch[w][i].event_type]
<1> DEFINE b == batch[w]
<1>1. /\ b \in Batches /\ inserted[w] \in SUBSET Valid(b)
      /\ updatedComms[w] = {b[i].communication_id : i \in BestOf(w)}
      /\ \A i \in BestOf(w) : commRows[w][b[i].communication_id]
                                  = Raised(communications[b[i].communication_id], b[i])
  BY ReadyToCommit DEF Commit
<1>2. communications'[c] = IF c \in updatedComms[w] THEN commRows[w][c] ELSE communications[c]
  BY DEF Commit, Publish
<1>3. CASE c \in updatedComms[w]
  <2>1. PICK i \in BestOf(w) : b[i].communication_id = c
    BY <1>1, <1>3
  <2>2. communications'[c] = Raised(communications[c], b[i])
    BY <1>1, <1>2, <1>3, <2>1
  <2>3. \A j \in inserted[w] : b[j].communication_id = c =>
            STATUS_RANKS[b[j].event_type] <= STATUS_RANKS[b[i].event_type]
    BY <2>1 DEF BestOf, Best
  <2> QED
    BY <2>1, <2>2, <2>3
<1>4. CASE c \notin updatedComms[w]
  <2>1. ASSUME NEW i \in inserted[w], b[i].communication_id = c
        PROVE  FALSE
    <3>1. \E j \in BestOf(w) : b[j].communication_id = c
      BY <1>1, <2>1, BestExists DEF BestOf
    <3> QED
      BY <1>1, <1>4, <3>1
  <2> QED
    BY <1>2, <1>4, <2>1
<1> QED
  BY <1>3, <1>4

\* Committing keeps the database's own invariants.
LEMMA CommitKeepsDatabase ==
    ASSUME IInv, NEW w \in Workers, Commit(w)
    PROVE  /\ communication_events' \subseteq Event
           /\ communications' \in [Comms -> CommRow]
           /\ orders' \subseteq Event
           /\ customers' \in [Customers -> CustRow]
           /\ OneEventPerKey' /\ StatusIsMaxOfLog' /\ ConversionsAreOrders'
<1> DEFINE b == batch[w]
<1>1. /\ b \in Batches /\ inserted[w] \in SUBSET Valid(b)
      /\ InsertedKeys(w) \cap Logged = {}
      /\ ordered[w] = ConvOf(w)
  BY ReadyToCommit DEF Commit
<1>2. /\ communication_events' = communication_events \cup {b[i] : i \in inserted[w]}
      /\ communications' = [c \in Comms |->
             IF c \in updatedComms[w] THEN commRows[w][c] ELSE communications[c]]
      /\ orders' = orders \cup {b[i] : i \in ordered[w]}
      /\ customers' = [u \in Customers |->
             IF u \in updatedCusts[w] THEN custRows[w][u] ELSE customers[u]]
  BY DEF Commit, Publish
<1>3. TypeOK
  BY DEF IInv
<1>4. {b[i] : i \in inserted[w]} \subseteq Event /\ ConvOf(w) \subseteq inserted[w]
  BY <1>1, ValidRows DEF ConvOf, Converted
<1>5. communication_events' \subseteq Event /\ orders' \subseteq Event
  BY <1>1, <1>2, <1>3, <1>4 DEF TypeOK
<1>6. communications' \in [Comms -> CommRow] /\ customers' \in [Customers -> CustRow]
  BY <1>2, <1>3 DEF TypeOK
<1>7. OneEventPerKey'
  <2>1. \A i, j \in inserted[w] : Key(b[i]) = Key(b[j]) => b[i] = b[j]
    BY <1>1, ValidRows
  <2>2. \A e \in communication_events, i \in inserted[w] : Key(e) # Key(b[i])
    BY <1>1 DEF Logged, InsertedKeys
  <2> QED
    BY <1>2, <2>1, <2>2 DEF IInv, OneEventPerKey
<1>8. ConversionsAreOrders'
  BY <1>1, <1>2 DEF IInv, ConversionsAreOrders, ConvOf, Converted
<1>9. StatusIsMaxOfLog'
  <2> SUFFICES ASSUME NEW c \in Comms
               PROVE  LET row == communications'[c] IN
                      /\ row.status_rank = STATUS_RANKS[row.status]
                      /\ row.status # "queued" =>
                             \E e \in LoggedOf(c)' : e.event_type = row.status
                      /\ \A e \in LoggedOf(c)' : STATUS_RANKS[e.event_type] <= row.status_rank
    BY DEF StatusIsMaxOfLog
  <2>1. /\ communications[c] \in CommRow
        /\ communications[c].status_rank = STATUS_RANKS[communications[c].status]
        /\ communications[c].status # "queued" =>
               \E e \in LoggedOf(c) : e.event_type = communications[c].status
        /\ \A e \in LoggedOf(c) : STATUS_RANKS[e.event_type] <= communications[c].status_rank
    BY <1>3 DEF IInv, StatusIsMaxOfLog, TypeOK
  <2>2. LoggedOf(c)' = LoggedOf(c) \cup {b[i] : i \in {j \in inserted[w] : b[j].communication_id = c}}
    BY <1>2 DEF LoggedOf
  <2>3. CASE /\ \A i \in inserted[w] : b[i].communication_id # c
             /\ communications'[c] = communications[c]
    BY <2>1, <2>2, <2>3
  <2>4. ASSUME NEW i \in BestOf(w), b[i].communication_id = c,
               communications'[c] = Raised(communications[c], b[i]),
               \A j \in inserted[w] : b[j].communication_id = c =>
                   STATUS_RANKS[b[j].event_type] <= STATUS_RANKS[b[i].event_type]
        PROVE  LET row == communications'[c] IN
               /\ row.status_rank = STATUS_RANKS[row.status]
               /\ row.status # "queued" =>
                      \E e \in LoggedOf(c)' : e.event_type = row.status
               /\ \A e \in LoggedOf(c)' : STATUS_RANKS[e.event_type] <= row.status_rank
    <3> DEFINE old == communications[c]
               row == communications'[c]
    <3>1. i \in inserted[w] /\ b[i] \in Event
      BY <1>1, <1>4 DEF BestOf, Best
    <3>2. /\ row \in CommRow
          /\ row.status_rank = STATUS_RANKS[row.status]
          /\ row.status_rank >= old.status_rank
          /\ row.status_rank >= STATUS_RANKS[b[i].event_type]
          /\ row.status \in {old.status, b[i].event_type}
      BY <2>1, <2>4, <3>1, RaisedRow
    <3>3. row.status # "queued" => \E e \in LoggedOf(c)' : e.event_type = row.status
      <4>1. b[i] \in LoggedOf(c)'
        BY <2>2, <2>4, <3>1
      <4>2. row.status = b[i].event_type \/ row.status = old.status
        BY <3>2
      <4> HIDE DEF row, old
      <4> QED
        BY <2>1, <2>2, <4>1, <4>2 DEF old
    <3>4. ASSUME NEW e \in LoggedOf(c)'
          PROVE  STATUS_RANKS[e.event_type] <= row.status_rank
      <4>1. e \in Event
        BY <1>5, <3>4 DEF LoggedOf
      <4>2. STATUS_RANKS[e.event_type] \in Nat /\ STATUS_RANKS[b[i].event_type] \in Nat
        BY <3>1, <4>1, Ranks DEF Event, Status
      <4>3. old.status_rank \in Nat /\ row.status_rank \in Nat
        BY <2>1, <3>2 DEF CommRow
      <4>4. CASE e \in LoggedOf(c)
        <5>1. STATUS_RANKS[e.event_type] <= old.status_rank
          BY <2>1, <4>4
        <5> HIDE DEF row, old
        <5> QED
          BY <3>2, <4>2, <4>3, <5>1
      <4>5. CASE \E j \in inserted[w] : b[j].communication_id = c /\ e = b[j]
        <5>1. STATUS_RANKS[e.event_type] <= STATUS_RANKS[b[i].event_type]
          BY <2>4, <4>5
        <5> HIDE DEF row, old
        <5> QED
          BY <3>2, <4>2, <4>3, <5>1
      <4> QED
        BY <2>2, <4>4, <4>5
    <3> QED
      BY <3>2, <3>3, <3>4
  <2> QED
    BY <2>3, <2>4, CommittedRows
<1> QED
  BY <1>5, <1>6, <1>7, <1>8, <1>9

\* What was written becomes what is there.
LEMMA CommitStep ==
    ASSUME IInv, NEW w \in Workers, Commit(w)
    PROVE  IInv'
<1> DEFINE b == batch[w]
<1>1. /\ stage[w] = "commit"
      /\ Publish(w) /\ Start(w, "reply", {}) /\ ForgetWrites(w)
      /\ UNCHANGED <<batch, inserted, replies>>
  BY DEF Commit
<1>2. TypeOK /\ RequestOK(w)
  BY DEF IInv
<1>3. /\ b \in Batches /\ inserted[w] \in SUBSET Valid(b)
      /\ \A i \in Valid(b) : Key(b[i]) \in Logged \/ i \in inserted[w]
  BY <1>1, ReadyToCommit
<1>4. /\ stage' \in [Workers -> Stages] /\ todo' \in [Workers -> SUBSET Nat]
      /\ cur' \in [Workers -> Nat]
      /\ stage'[w] = "reply" /\ todo'[w] = {} /\ cur'[w] = 0
      /\ \A v \in Workers \ {w} :
             stage'[v] = stage[v] /\ todo'[v] = todo[v] /\ cur'[v] = cur[v]
  <2>1. "reply" \in Stages /\ {} \in SUBSET (Nat \ {0})
    BY DEF Stages
  <2> QED
    BY <1>1, <1>2, <2>1, StartEffect
<1>5. /\ ordered' \in [Workers -> SUBSET Nat]
      /\ updatedComms' \in [Workers -> SUBSET Comms]
      /\ updatedCusts' \in [Workers -> SUBSET Customers]
      /\ ordered'[w] = {} /\ updatedComms'[w] = {} /\ updatedCusts'[w] = {}
      /\ \A v \in Workers \ {w} :
             /\ ordered'[v] = ordered[v] /\ updatedComms'[v] = updatedComms[v]
             /\ updatedCusts'[v] = updatedCusts[v]
  BY <1>1, <1>2 DEF TypeOK, ForgetWrites
<1>6. /\ commRows' \in [Workers -> [Comms -> CommRow]]
      /\ \A v \in Workers \ {w} : commRows'[v] = commRows[v]
  <2>1. [c \in Comms |-> NewComm] \in [Comms -> CommRow]
    BY DEF NewComm, CommRow, Status
  <2> QED
    BY <1>1, <1>2, <2>1 DEF TypeOK, ForgetWrites
<1>7. /\ custRows' \in [Workers -> [Customers -> CustRow]]
      /\ \A v \in Workers \ {w} : custRows'[v] = custRows[v]
  <2>1. [u \in Customers |-> NewCust] \in [Customers -> CustRow]
    BY DEF NewCust, CustRow
  <2> QED
    BY <1>1, <1>2, <2>1 DEF TypeOK, ForgetWrites
<1>8. TypeOK'
  BY <1>1, <1>2, <1>4, <1>5, <1>6, <1>7, CommitKeepsDatabase DEF TypeOK, replies
<1>9. \A v \in Workers \ {w} : Same(v)
  BY <1>1, <1>4, <1>5, <1>6, <1>7 DEF Same
<1>10. Logged' = Logged \cup InsertedKeys(w)
  BY <1>1 DEF Logged, Publish, InsertedKeys
<1>11. \A v \in Workers : InsertedKeys(v)' = InsertedKeys(v)
  BY <1>1 DEF InsertedKeys
<1>12. RequestOK(w)'
  <2>1. ScanOK(w)'
    BY <1>1, <1>3, <1>4 DEF ScanOK
  <2>2. EventsOK(w)'
    BY <1>1, <1>3, <1>4, <1>10 DEF EventsOK, InTransaction, InsertedKeys
  <2>3. StatusOK(w)' /\ OrdersOK(w)' /\ CustomersOK(w)'
    BY <1>4, <1>5 DEF StatusOK, OrdersOK, CustomersOK
  <2> QED
    BY <2>1, <2>2, <2>3 DEF RequestOK
<1>13. ASSUME NEW v \in Workers \ {w}
       PROVE  RequestOK(v)'
  <2>1. Same(v) /\ RequestOK(v)
    BY <1>9 DEF IInv
  <2>2. ScanOK(v)'
    BY <2>1 DEF RequestOK, Same, ScanOK
  <2>3. EventsOK(v)'
    <3>1. InsertedKeys(v) \cap InsertedKeys(w) = {}
      BY DEF IInv, Exclusive
    <3>2. InTransaction(v)' = InTransaction(v)
      BY <2>1 DEF Same, InTransaction
    <3> QED
      BY <1>10, <1>11, <2>1, <3>1, <3>2 DEF RequestOK, EventsOK, Same
  <2>4. StatusOK(v)'
    <3>1. \A c \in updatedComms[v] : c \in Comms /\ communications'[c] = communications[c]
      <4>1. updatedComms[v] \subseteq Comms /\ updatedComms[v] \cap updatedComms[w] = {}
        BY <1>2 DEF TypeOK, IInv, Exclusive
      <4> QED
        BY <1>1, <4>1 DEF Publish
    <3>2. BestOf(v)' = BestOf(v)
      BY <1>1 DEF BestOf
    <3> QED
      BY <2>1, <3>1, <3>2 DEF RequestOK, StatusOK, Same
  <2>5. OrdersOK(v)'
    BY <2>1 DEF RequestOK, OrdersOK, ConvOf, Same
  <2>6. CustomersOK(v)'
    <3>1. \A u \in updatedCusts[v] : customers'[u] = customers[u]
      <4>1. updatedCusts[v] \subseteq Customers /\ updatedCusts[v] \cap updatedCusts[w] = {}
        BY <1>2 DEF TypeOK, IInv, Exclusive
      <4> QED
        BY <1>1, <4>1 DEF Publish
    <3>2. FirstOf(v)' = FirstOf(v)
      BY <2>1 DEF FirstOf, Same
    <3> QED
      BY <2>1, <3>1, <3>2 DEF RequestOK, CustomersOK, Same
  <2> QED
    BY <2>2, <2>3, <2>4, <2>5, <2>6 DEF RequestOK
<1>14. Exclusive'
  BY <1>5, <1>11 DEF IInv, Exclusive
<1>15. AnswersOK'
  BY <1>1, <1>10, <1>11 DEF IInv, AnswersOK, AnsweredIsLogged, replies
<1> QED
  BY <1>8, <1>12, <1>13, <1>14, <1>15, CommitKeepsDatabase DEF IInv

-----------------------------------------------------------------------------
(* The theorems. *)

\* Empty tables, and no request under way.
LEMMA InitInvariant == Init => IInv
<1> SUFFICES ASSUME Init PROVE IInv
  OBVIOUS
<1> USE DEF Init
<1>1. <<>> \in Seq(Event) /\ "idle" \in Stages
  BY DEF Stages
<1>2. NewComm \in CommRow /\ NewCust \in CustRow
  BY DEF NewComm, NewCust, CommRow, CustRow, Status
<1>3. TypeOK
  BY <1>1, <1>2 DEF TypeOK
<1>4. \A w \in Workers : RequestOK(w)
  <2> TAKE w \in Workers
  <2>1. Valid(<<>>) = {}
    BY DEF Valid
  <2>2. ScanOK(w) /\ EventsOK(w)
    BY <2>1 DEF ScanOK, EventsOK, InTransaction
  <2>3. StatusOK(w) /\ OrdersOK(w) /\ CustomersOK(w)
    BY DEF StatusOK, OrdersOK, CustomersOK, BestOf, Best
  <2> QED
    BY <2>2, <2>3 DEF RequestOK
<1>5. Exclusive
  BY DEF Exclusive, InsertedKeys
<1>6. AnswersOK
  BY DEF AnswersOK, AnsweredIsLogged
<1>7. OneEventPerKey /\ ConversionsAreOrders
  BY DEF OneEventPerKey, ConversionsAreOrders
<1>8. StatusIsMaxOfLog
  BY Ranks DEF StatusIsMaxOfLog, LoggedOf, NewComm
<1> QED
  BY <1>3, <1>4, <1>5, <1>6, <1>7, <1>8 DEF IInv

\* Every step keeps the invariant.
LEMMA NextInvariant == IInv /\ [Next]_vars => IInv'
<1> SUFFICES ASSUME IInv, [Next]_vars PROVE IInv'
  OBVIOUS
<1>1. CASE UNCHANGED vars
  <2>1. UNCHANGED <<db, scan, batch, writes, replies>>
    BY <1>1 DEF vars
  <2>2. TypeOK'
    BY <2>1 DEF IInv, TypeOK, db, scan, writes, replies
  <2>3. \A v \in Workers : RequestOK(v)'
    <3> TAKE v \in Workers
    <3>1. Same(v) /\ UNCHANGED db
      BY <2>1 DEF Same, scan, writes
    <3> QED
      BY <3>1, Frame DEF IInv
  <2>4. Exclusive'
    BY <2>1 DEF IInv, Exclusive, InsertedKeys, writes
  <2>5. AnswersOK'
    BY <2>1 DEF IInv, AnswersOK, AnsweredIsLogged, InsertedKeys, Logged, db, writes, replies
  <2>6. OneEventPerKey' /\ ConversionsAreOrders'
    BY <2>1 DEF IInv, OneEventPerKey, ConversionsAreOrders, db
  <2>7. StatusIsMaxOfLog'
    BY <2>1 DEF IInv, StatusIsMaxOfLog, LoggedOf, db
  <2> QED
    BY <2>2, <2>3, <2>4, <2>5, <2>6, <2>7 DEF IInv
<1>2. ASSUME NEW w \in Workers, NEW b \in Batches, Receive(w, b)
      PROVE  IInv'
  BY <1>2, ReceiveStep
<1>3. ASSUME NEW w \in Workers, Step(w)
      PROVE  IInv'
  BY <1>3, InsertEventStep, EventsInsertedStep, RaiseStatusStep, StatusRaisedStep,
     InsertOrderStep, OrdersInsertedStep, CreditCustomerStep, CustomersCreditedStep,
     CommitStep, ReplyStep DEF Step
<1>4. ASSUME NEW w \in Workers, LoseReply(w) \/ Fail(w) \/ AbortDeadlocked(w)
      PROVE  IInv'
  <2>1. Leave(w) /\ UNCHANGED <<db, replies>>
    BY <1>4 DEF LoseReply, Fail, AbortDeadlocked, RollBack
  <2> QED
    BY <2>1, LeaveStep
<1> QED
  BY <1>1, <1>2, <1>3, <1>4 DEF Next

\* The inductive invariant holds throughout, for every set of communications,
\* customers, batches and concurrent requests.
THEOREM Invariant == Spec => []IInv
<1>1. Init => IInv
  BY InitInvariant
<1>2. IInv /\ [Next]_vars => IInv'
  BY NextInvariant
<1> QED
  BY <1>1, <1>2, PTL DEF Spec

\* process_batch keeps every table and every request well-typed.
THEOREM TypeCorrect == Spec => []TypeOK
<1>1. IInv => TypeOK
  BY DEF IInv
<1> QED
  BY <1>1, Invariant, PTL

\* The unique constraint, the deduplication and the waiting inserts leave one
\* event per communication and type.
THEOREM OneEvent == Spec => []OneEventPerKey
<1>1. IInv => OneEventPerKey
  BY DEF IInv
<1> QED
  BY <1>1, Invariant, PTL

\* Whatever the order of callbacks and commits, a status is the highest-ranked
\* event of its communication's log.
THEOREM StatusFromLog == Spec => []StatusIsMaxOfLog
<1>1. IInv => StatusIsMaxOfLog
  BY DEF IInv
<1> QED
  BY <1>1, Invariant, PTL

\* Conversions and their orders are committed together, once.
THEOREM OrdersFromConversions == Spec => []ConversionsAreOrders
<1>1. IInv => ConversionsAreOrders
  BY DEF IInv
<1> QED
  BY <1>1, Invariant, PTL

\* A caller is told accepted or duplicate only of what is in the committed log.
THEOREM AnswersAreDurable == Spec => []AnsweredIsLogged
<1>1. IInv => AnsweredIsLogged
  BY DEF IInv, AnswersOK
<1> QED
  BY <1>1, Invariant, PTL

\* Accepted is said of a callback by one request at most.
THEOREM AcceptedByOne == Spec => []AcceptedOnce
<1>1. IInv => AcceptedOnce
  <2>1. IInv => \A k \in Keys : accepts[k] = 0 \/ accepts[k] = 1
    BY DEF IInv, AnswersOK
  <2> QED
    BY <2>1 DEF AcceptedOnce
<1> QED
  BY <1>1, Invariant, PTL

\* Nothing is lost by overlapping requests: no step takes a status rank or a date back.
THEOREM NoDowngrade == Spec => NeverDowngraded
<1> DEFINE Kept == \A c \in Comms :
        /\ communications[c].status_rank <= communications'[c].status_rank
        /\ communications[c].last_event_at <= communications'[c].last_event_at
<1>1. IInv /\ [Next]_vars => [Kept]_vars
  <2> SUFFICES ASSUME IInv, Next PROVE Kept
    OBVIOUS
  <2> SUFFICES ASSUME NEW c \in Comms
               PROVE  /\ communications[c].status_rank <= communications'[c].status_rank
                      /\ communications[c].last_event_at <= communications'[c].last_event_at
    OBVIOUS
  <2>1. communications[c] \in CommRow
        /\ communications[c].status_rank = STATUS_RANKS[communications[c].status]
    BY DEF IInv, TypeOK, StatusIsMaxOfLog
  <2>2. CASE communications'[c] = communications[c]
    BY <2>1, <2>2 DEF CommRow
  <2>3. ASSUME NEW w \in Workers, Commit(w)
        PROVE  /\ communications[c].status_rank <= communications'[c].status_rank
               /\ communications[c].last_event_at <= communications'[c].last_event_at
    <3>1. CASE communications'[c] = communications[c]
      BY <2>2, <3>1
    <3>2. ASSUME NEW i \in BestOf(w), communications'[c] = Raised(communications[c], batch[w][i])
          PROVE  /\ communications[c].status_rank <= communications'[c].status_rank
                 /\ communications[c].last_event_at <= communications'[c].last_event_at
      <4>1. batch[w][i] \in Event
        BY <2>3, ReadyToCommit, ValidRows DEF Commit, BestOf, Best
      <4>2. /\ Raised(communications[c], batch[w][i]) \in CommRow
            /\ Raised(communications[c], batch[w][i]).status_rank >= communications[c].status_rank
            /\ Raised(communications[c], batch[w][i]).last_event_at >= communications[c].last_event_at
        BY <2>1, <4>1, RaisedRow
      <4> QED
        BY <2>1, <3>2, <4>2 DEF CommRow
    <3> QED
      BY <2>3, <3>1, <3>2, CommittedRows
  <2>4. (\E w \in Workers : Commit(w)) \/ UNCHANGED db
    BY DEF Next, Step, Receive, InsertEvent, EventsInserted, RaiseStatus, StatusRaised,
       InsertOrder, OrdersInserted, CreditCustomer, CustomersCredited, Reply, LoseReply,
       Fail, AbortDeadlocked, RollBack
  <2> QED
    BY <2>2, <2>3, <2>4 DEF db
<1> QED
  BY <1>1, Invariant, PTL DEF Spec, NeverDowngraded

-----------------------------------------------------------------------------
(* Receipts implements ReceiptLog: a commit is one Apply, all else a stutter. *)

\* ReceiptLog reads a batch the way process_batch does.
LEMMA LogRules ==
    /\ \A e : Log!Key(e) = Key(e)
    /\ \A b : Log!Valid(b) = Valid(b)
    /\ \A b, S : Log!Best(b, S) = Best(b, S)
    /\ \A b, S : Log!Converted(b, S) = Converted(b, S)
    /\ \A b, S, u : Log!OfCustomer(b, S, u) = OfCustomer(b, S, u)
    /\ \A b, S : Log!Latest(b, S) = Latest(b, S)
    /\ \A row, ev : Log!Raised(row, ev) = Raised(row, ev)
    /\ \A row, n, t : Log!Credited(row, n, t) = Credited(row, n, t)
    /\ \A S : Log!Cardinality(S) = Cardinality(S)
    /\ Log!Logged = Logged
    /\ Log!NewComm = NewComm /\ Log!NewCust = NewCust
<1>1. \A e : Log!Key(e) = Key(e)
  BY DEF Log!Key, Key
<1>2. \A b : Log!Valid(b) = Valid(b)
  BY <1>1 DEF Log!Valid, Valid
<1>3. Log!STATUS_RANKS = STATUS_RANKS
  BY DEF Log!STATUS_RANKS, STATUS_RANKS
<1>4. \A b, S : Log!Best(b, S) = Best(b, S)
  BY <1>3 DEF Log!Best, Best
<1>5. \A b, S : Log!Converted(b, S) = Converted(b, S)
  BY DEF Log!Converted, Converted
<1>6. \A b, S, u : Log!OfCustomer(b, S, u) = OfCustomer(b, S, u)
  BY DEF Log!OfCustomer, OfCustomer, Log!Customer, Customer
<1>7. \A b, S : Log!Latest(b, S) = Latest(b, S)
  BY DEF Log!Latest, Latest
<1>8. \A s, t : Log!Later(s, t) = Later(s, t)
  BY DEF Log!Later, Later
<1>9. \A row, ev : Log!Raised(row, ev) = Raised(row, ev)
  BY <1>3, <1>8 DEF Log!Raised, Raised
<1>10. \A row, n, t : Log!Credited(row, n, t) = Credited(row, n, t)
  BY <1>8 DEF Log!Credited, Credited
<1>11. Log!Logged = Logged
  BY <1>1 DEF Log!Logged, Logged
<1>12. Log!NewComm = NewComm /\ Log!NewCust = NewCust
  BY DEF Log!NewComm, NewComm, Log!NewCust, NewCust
<1>13. \A S : Log!Cardinality(S) = Cardinality(S)
  BY DEF Log!Cardinality, Cardinality
<1> QED
  BY <1>1, <1>2, <1>4, <1>5, <1>6, <1>7, <1>9, <1>10, <1>11, <1>12, <1>13

\* A commit is one step of the abstract log.
LEMMA CommitIsApply ==
    ASSUME IInv, NEW w \in Workers, Commit(w)
    PROVE  Log!Next
<1> DEFINE b == batch[w]
           new == inserted[w]
           conv == Converted(b, new)
<1>1. /\ b \in Batches /\ new \in SUBSET Valid(b)
      /\ InsertedKeys(w) \cap Logged = {}
      /\ \A i \in Valid(b) : Key(b[i]) \in Logged \/ i \in new
      /\ updatedComms[w] = {b[i].communication_id : i \in BestOf(w)}
      /\ ordered[w] = conv
      /\ conv \in SUBSET Valid(b)
      /\ updatedCusts[w] = {Customer(b, i) : i \in conv}
      /\ \A u \in updatedCusts[w] : custRows[w][u] = Credited(customers[u],
             Cardinality(OfCustomer(b, conv, u)), Latest(b, OfCustomer(b, conv, u)))
  BY ReadyToCommit DEF Commit, ConvOf
<1>2. /\ communication_events' = communication_events \cup {b[i] : i \in new}
      /\ communications' = [c \in Comms |->
             IF c \in updatedComms[w] THEN commRows[w][c] ELSE communications[c]]
      /\ orders' = orders \cup {b[i] : i \in conv}
      /\ customers' = [u \in Customers |->
             IF u \in updatedCusts[w] THEN custRows[w][u] ELSE customers[u]]
  BY <1>1 DEF Commit, Publish
<1>3. new = {i \in Valid(b) : Key(b[i]) \notin Logged}
  BY <1>1 DEF InsertedKeys
<1>4. communications' =
          [c \in Comms |->
              IF \E i \in Best(b, new) : b[i].communication_id = c
              THEN Raised(communications[c],
                          b[CHOOSE i \in Best(b, new) : b[i].communication_id = c])
              ELSE communications[c]]
  <2> SUFFICES ASSUME NEW c \in Comms
               PROVE  (IF c \in updatedComms[w] THEN commRows[w][c] ELSE communications[c])
                      = IF \E i \in Best(b, new) : b[i].communication_id = c
                        THEN Raised(communications[c],
                                    b[CHOOSE i \in Best(b, new) : b[i].communication_id = c])
                        ELSE communications[c]
    BY <1>2
  <2>1. c \in updatedComms[w] <=> \E i \in Best(b, new) : b[i].communication_id = c
    BY <1>1 DEF BestOf
  <2>2. ASSUME NEW i \in Best(b, new), b[i].communication_id = c
        PROVE  commRows[w][c] = Raised(communications[c], b[i])
    BY <2>2, ReadyToCommit DEF Commit, BestOf
  <2> QED
    BY <2>1, <2>2
<1>5. customers' =
          [u \in Customers |->
              LET mine == OfCustomer(b, conv, u)
              IN  IF mine = {} THEN customers[u]
                  ELSE Credited(customers[u], Cardinality(mine), Latest(b, mine))]
  <2>1. \A u \in Customers : u \in updatedCusts[w] <=> OfCustomer(b, conv, u) # {}
    BY <1>1 DEF OfCustomer
  <2> HIDE DEF conv, b
  <2> QED
    BY <1>1, <1>2, <2>1
<1>6. Log!Apply(b)
  <2> HIDE DEF b, new, conv
  <2>1. {i \in Log!Valid(b) : Log!Key(b[i]) \notin Log!Logged} = new
    BY <1>3, LogRules
  <2>2. Log!Best(b, new) = Best(b, new) /\ Log!Converted(b, new) = conv
    BY LogRules DEF conv
  <2>3. communications' =
            [c \in Comms |->
                IF \E i \in Best(b, new) : b[i].communication_id = c
                THEN Log!Raised(communications[c],
                                b[CHOOSE i \in Best(b, new) : b[i].communication_id = c])
                ELSE communications[c]]
    BY <1>4, LogRules
  <2>4. customers' =
            [u \in Customers |->
                IF Log!OfCustomer(b, conv, u) = {} THEN customers[u]
                ELSE Log!Credited(customers[u], Log!Cardinality(Log!OfCustomer(b, conv, u)),
                                  Log!Latest(b, Log!OfCustomer(b, conv, u)))]
    BY <1>5, LogRules
  <2>5. Log!AppendNew(b, new)
    BY <1>2, <2>2, <2>3, <2>4 DEF Log!AppendNew
  <2> QED
    BY <2>1, <2>5 DEF Log!Apply
<1> QED
  BY <1>1, <1>6 DEF Log!Next

\* Nothing but a commit changes the database.
LEMMA OnlyCommits ==
    ASSUME [Next]_vars
    PROVE  (\E w \in Workers : Commit(w)) \/ UNCHANGED db
  BY DEF Next, Step, Receive, InsertEvent, EventsInserted, RaiseStatus, StatusRaised,
     InsertOrder, OrdersInserted, CreditCustomer, CustomersCredited, Reply, LoseReply,
     Fail, AbortDeadlocked, RollBack, vars

\* Concurrent requests with statement-level interleaving, failures and deadlock
\* victims look like whole batches applied one after the other.
THEOREM Serialisable == Spec => RefinesLog
<1>1. Init => Log!Init
  BY LogRules DEF Init, Log!Init
<1>2. IInv /\ [Next]_vars => [Log!Next]_(Log!vars)
  <2> SUFFICES ASSUME IInv, [Next]_vars, ~(UNCHANGED db) PROVE Log!Next
    BY DEF Log!vars, db
  <2>1. \E w \in Workers : Commit(w)
    BY OnlyCommits
  <2> QED
    BY <2>1, CommitIsApply
<1> QED
  BY <1>1, <1>2, Invariant, PTL DEF Spec, RefinesLog, Log!Spec

-----------------------------------------------------------------------------
(* What one commit does to the dates and the counters. *)

\* What a commit appends is new: no callback of it was logged before.
LEMMA AppendedIsNew ==
    ASSUME IInv, NEW w \in Workers, Commit(w)
    PROVE  /\ batch[w] \in Batches
           /\ inserted[w] \in SUBSET Valid(batch[w])
           /\ communication_events' = communication_events \cup {batch[w][i] : i \in inserted[w]}
           /\ \A e \in communication_events, i \in inserted[w] : Key(e) # Key(batch[w][i])
<1>1. /\ batch[w] \in Batches
      /\ inserted[w] \in SUBSET Valid(batch[w])
      /\ InsertedKeys(w) \cap Logged = {}
  BY ReadyToCommit DEF Commit
<1>2. communication_events' = communication_events \cup {batch[w][i] : i \in inserted[w]}
  BY DEF Commit, Publish
<1> QED
  BY <1>1, <1>2 DEF InsertedKeys, Logged

-----------------------------------------------------------------------------
(* Dates of communications. *)

\* LastEventCoversStatus with what it rests on: a communication without a status has
\* no date either.
DatesOK ==
    /\ LastEventCoversStatus
    /\ \A c \in Comms : communications[c].status = "queued" => communications[c].last_event_at = 0

\* A commit that raises c by its best event keeps the dates of c right: an older
\* event with the new status would have had the rank already, and another new one
\* would have the key of the best.
LEMMA RaisedDate ==
    ASSUME IInv, DatesOK, NEW w \in Workers, Commit(w), NEW c \in Comms,
           NEW i \in BestOf(w), batch[w][i].communication_id = c,
           communications'[c] = Raised(communications[c], batch[w][i])
    PROVE  LET row == communications'[c] IN
           /\ row.status # "queued" /\ \E e \in LoggedOf(c)' : e.occurred_at = row.last_event_at
           /\ \A e \in LoggedOf(c)' :
                  e.event_type = row.status => e.occurred_at <= row.last_event_at
<1> DEFINE b == batch[w]
           old == communications[c]
           row == communications'[c]
           ev == b[i]
<1>1. /\ b \in Batches /\ inserted[w] \in SUBSET Valid(b)
      /\ communication_events' = communication_events \cup {b[j] : j \in inserted[w]}
      /\ \A e \in communication_events, j \in inserted[w] : Key(e) # Key(b[j])
  BY AppendedIsNew
<1>2. i \in inserted[w] /\ i \in Valid(b)
  BY <1>1 DEF BestOf, Best
<1>3. /\ ev \in Event /\ ev.event_type \in EventTypes /\ ev.occurred_at \in Nat \ {0}
  BY <1>1, <1>2, ValidRows
<1>4. /\ old \in CommRow
      /\ old.status_rank = STATUS_RANKS[old.status]
      /\ \A e \in LoggedOf(c) : STATUS_RANKS[e.event_type] <= old.status_rank
  BY DEF IInv, TypeOK, StatusIsMaxOfLog
<1>5. /\ old.status # "queued" => \E e \in LoggedOf(c) : e.occurred_at = old.last_event_at
      /\ \A e \in LoggedOf(c) : e.event_type = old.status => e.occurred_at <= old.last_event_at
      /\ old.status = "queued" => old.last_event_at = 0
  BY DEF DatesOK, LastEventCoversStatus
<1>6. /\ old.status \in Status /\ old.status_rank \in Nat /\ old.last_event_at \in Nat
      /\ STATUS_RANKS[ev.event_type] \in Nat /\ STATUS_RANKS[ev.event_type] > 0
  BY <1>3, <1>4, Ranks DEF CommRow, Status
<1>7. LoggedOf(c)' = LoggedOf(c) \cup {b[j] : j \in {k \in inserted[w] : b[k].communication_id = c}}
  BY <1>1 DEF LoggedOf
<1>8. ev \in LoggedOf(c)' /\ LoggedOf(c) \subseteq LoggedOf(c)'
  BY <1>2, <1>7
<1>9. /\ row.last_event_at \in {old.last_event_at, ev.occurred_at}
      /\ row.last_event_at >= old.last_event_at /\ row.last_event_at >= ev.occurred_at
      /\ row.last_event_at \in Nat
  BY <1>3, <1>6 DEF Raised, Later
<1>10. \/ old.status_rank < STATUS_RANKS[ev.event_type] /\ row.status = ev.event_type
       \/ ~(old.status_rank < STATUS_RANKS[ev.event_type]) /\ row.status = old.status
  BY DEF Raised
<1>11. row.status # "queued"
  <2>1. ev.event_type # "queued"
    BY <1>3, ConstantsAssumption
  <2>2. old.status = "queued" => old.status_rank = 0
    BY <1>4, Ranks
  <2> QED
    BY <1>6, <1>10, <2>1, <2>2
<1>12. \E e \in LoggedOf(c)' : e.occurred_at = row.last_event_at
  <2>1. CASE row.last_event_at = ev.occurred_at
    BY <1>8, <2>1
  <2>2. CASE row.last_event_at # ev.occurred_at
    <3>1. row.last_event_at = old.last_event_at /\ old.last_event_at > 0
      BY <1>3, <1>6, <1>9, <2>2
    <3>2. PICK e \in LoggedOf(c) : e.occurred_at = old.last_event_at
      BY <1>5, <3>1
    <3> QED
      BY <1>8, <3>1, <3>2
  <2> QED
    BY <2>1, <2>2
<1>13. ASSUME NEW e \in LoggedOf(c)', e.event_type = row.status
       PROVE  e.occurred_at <= row.last_event_at
  <2>1. CASE e \in LoggedOf(c)
    <3>1. e \in Event /\ e.occurred_at \in Nat /\ STATUS_RANKS[e.event_type] \in Nat
      <4>1. e \in Event
        BY <2>1 DEF LoggedOf, IInv, TypeOK
      <4>2. e.occurred_at \in Nat
        BY <4>1, ConstantsAssumption DEF Event, Times
      <4> QED
        BY <4>1, <4>2, Ranks DEF Event, Status
    <3>2. row.status = old.status
      BY <1>4, <1>6, <1>10, <1>13, <2>1, <3>1
    <3>3. e.occurred_at <= old.last_event_at
      BY <1>5, <1>13, <2>1, <3>2
    <3> QED
      BY <1>6, <1>9, <3>1, <3>3
  <2>2. ASSUME NEW j \in inserted[w], b[j].communication_id = c, e = b[j]
        PROVE  e.occurred_at <= row.last_event_at
    <3>1. j \in Valid(b) /\ b[j].event_type \in EventTypes /\ STATUS_RANKS[b[j].event_type] \in Nat
      BY <1>1, ValidRows, Ranks DEF Status
    <3>2. STATUS_RANKS[b[j].event_type] <= STATUS_RANKS[ev.event_type]
      BY <2>2 DEF BestOf, Best
    <3>3. CASE row.status = ev.event_type
      <4>1. Key(b[j]) = Key(b[i])
        BY <1>13, <2>2, <3>3 DEF Key
      <4>2. j = i
        BY <1>1, <1>2, <3>1, <4>1, ValidRows
      <4> QED
        BY <1>9, <2>2, <4>2
    <3>4. CASE row.status # ev.event_type
      <4>1. row.status = old.status /\ ~(old.status_rank < STATUS_RANKS[ev.event_type])
        BY <1>10, <3>4
      <4>2. STATUS_RANKS[b[j].event_type] = old.status_rank
        BY <1>4, <1>13, <2>2, <4>1
      <4>3. STATUS_RANKS[b[j].event_type] = STATUS_RANKS[ev.event_type]
        BY <1>6, <3>1, <3>2, <4>1, <4>2
      <4>4. b[j].event_type = ev.event_type
        BY <1>3, <3>1, <4>3, Ranks
      <4> QED
        BY <1>13, <2>2, <3>4, <4>4
    <3> QED
      BY <3>3, <3>4
  <2> HIDE DEF row
  <2> QED
    BY <1>7, <2>1, <2>2
<1> QED
  BY <1>11, <1>12, <1>13

\* A commit moves the date with the status, and logs what it comes from.
LEMMA CommitKeepsDates ==
    ASSUME IInv, DatesOK, NEW w \in Workers, Commit(w)
    PROVE  DatesOK'
<1> SUFFICES ASSUME NEW c \in Comms
             PROVE  LET row == communications'[c] IN
                    /\ row.status # "queued" =>
                           \E e \in LoggedOf(c)' : e.occurred_at = row.last_event_at
                    /\ \A e \in LoggedOf(c)' :
                           e.event_type = row.status => e.occurred_at <= row.last_event_at
                    /\ row.status = "queued" => row.last_event_at = 0
  BY DEF DatesOK, LastEventCoversStatus
<1>1. CASE /\ \A i \in inserted[w] : batch[w][i].communication_id # c
           /\ communications'[c] = communications[c]
  <2>1. LoggedOf(c)' = LoggedOf(c)
    BY <1>1, AppendedIsNew DEF LoggedOf
  <2> QED
    BY <1>1, <2>1 DEF DatesOK, LastEventCoversStatus
<1>2. ASSUME NEW i \in BestOf(w), batch[w][i].communication_id = c,
             communications'[c] = Raised(communications[c], batch[w][i])
      PROVE  LET row == communications'[c] IN
             /\ row.status # "queued" =>
                    \E e \in LoggedOf(c)' : e.occurred_at = row.last_event_at
             /\ \A e \in LoggedOf(c)' :
                    e.event_type = row.status => e.occurred_at <= row.last_event_at
             /\ row.status = "queued" => row.last_event_at = 0
  BY <1>2, RaisedDate
<1> QED
  BY <1>1, <1>2, CommittedRows

\* A communication's date is that of a logged event and none earlier than the event
\* that gave it its status, whatever the order of callbacks and commits.
THEOREM DateCoversStatus == Spec => []LastEventCoversStatus
<1>1. Init => DatesOK
  BY DEF Init, DatesOK, LastEventCoversStatus, LoggedOf, NewComm
<1>2. IInv /\ DatesOK /\ [Next]_vars => DatesOK'
  <2> SUFFICES ASSUME IInv, DatesOK, [Next]_vars PROVE DatesOK'
    OBVIOUS
  <2>1. CASE UNCHANGED db
    BY <2>1 DEF DatesOK, LastEventCoversStatus, LoggedOf, db
  <2> QED
    BY <2>1, OnlyCommits, CommitKeepsDates
<1>3. DatesOK => LastEventCoversStatus
  BY DEF DatesOK
<1> QED
  BY <1>1, <1>2, <1>3, Invariant, PTL DEF Spec

-----------------------------------------------------------------------------
(* Counters of customers. *)

\* The rows a request keeps are different callbacks: there are as many callbacks
\* as rows.
LEMMA RowsAreDistinct ==
    ASSUME NEW b \in Batches, NEW S \in SUBSET Valid(b)
    PROVE  /\ IsFiniteSet(S) /\ Cardinality(S) \in Nat
           /\ IsFiniteSet({b[i] : i \in S})
           /\ Cardinality({b[i] : i \in S}) = Cardinality(S)
<1> DEFINE f == [i \in S |-> b[i]]
           T == {b[i] : i \in S}
<1>1. IsFiniteSet(S)
  BY Aggregate, FS_EmptySet
<1>2. \A i, j \in S : b[i] = b[j] => i = j
  BY ValidRows
<1>3. f \in Bijection(S, T)
  BY <1>2 DEF Bijection, Injection, Surjection, IsInjective
<1>4. ExistsBijection(S, T)
  BY <1>3 DEF ExistsBijection
<1> QED
  BY <1>1, <1>4, FS_Bijection, FS_CardinalityType

\* AggregatesMatchOrders with what counting needs: only finitely many orders at a time.
CountersOK == IsFiniteSet(orders) /\ AggregatesMatchOrders

\* A commit credits each customer with exactly the orders it adds.
LEMMA CommitKeepsCounters ==
    ASSUME IInv, CountersOK, NEW w \in Workers, Commit(w)
    PROVE  CountersOK'
<1> DEFINE b == batch[w]
           conv == ConvOf(w)
<1>1. /\ b \in Batches
      /\ conv \in SUBSET Valid(b)
      /\ updatedCusts[w] = {Customer(b, i) : i \in conv}
      /\ \A u \in updatedCusts[w] :
             LET mine == OfCustomer(b, conv, u) IN
             custRows[w][u] = Credited(customers[u], Cardinality(mine), Latest(b, mine))
      /\ ordered[w] = conv
  BY ReadyToCommit DEF Commit
<1>2. /\ orders' = orders \cup {b[i] : i \in conv}
      /\ \A u \in Customers : customers'[u] =
             IF u \in updatedCusts[w] THEN custRows[w][u] ELSE customers[u]
  BY <1>1 DEF Commit, Publish
<1>3. \A i \in conv : b[i] \notin orders
  BY AppendedIsNew DEF IInv, ConversionsAreOrders, ConvOf, Converted
<1>4. IsFiniteSet(orders')
  BY <1>1, <1>2, RowsAreDistinct, FS_Union DEF CountersOK
<1> HIDE DEF conv, b
<1>5. ASSUME NEW u \in Customers
      PROVE  /\ customers'[u].order_count = Cardinality(CustomerOrders(u)')
             /\ \A o \in CustomerOrders(u)' : o.occurred_at <= customers'[u].last_order_at
             /\ customers'[u].last_order_at # 0 =>
                    \E o \in CustomerOrders(u)' : o.occurred_at = customers'[u].last_order_at
  <2> DEFINE mine == OfCustomer(b, conv, u)
             old == customers[u]
             added == {b[i] : i \in mine}
  <2>1. /\ old.order_count \in Nat /\ old.last_order_at \in Nat
        /\ old.order_count = Cardinality(CustomerOrders(u))
        /\ \A o \in CustomerOrders(u) : o.occurred_at <= old.last_order_at
        /\ old.last_order_at # 0 => \E o \in CustomerOrders(u) : o.occurred_at = old.last_order_at
    BY DEF IInv, TypeOK, CustRow, CountersOK, AggregatesMatchOrders
  <2>2. mine \in SUBSET Valid(b)
    BY <1>1 DEF OfCustomer
  <2>3. CustomerOrders(u)' = CustomerOrders(u) \cup added
    BY <1>2 DEF CustomerOrders, OfCustomer, Customer
  <2>4. CustomerOrders(u) \cap added = {}
    BY <1>3 DEF CustomerOrders, OfCustomer
  <2>5. IsFiniteSet(CustomerOrders(u))
    BY FS_Subset DEF CountersOK, CustomerOrders
  <2>6. CASE mine = {}
    <3>1. u \notin updatedCusts[w]
      BY <1>1, <2>6 DEF OfCustomer
    <3>2. customers'[u] = old /\ CustomerOrders(u)' = CustomerOrders(u)
      BY <1>2, <2>3, <2>6, <3>1
    <3> QED
      BY <2>1, <3>2
  <2>7. CASE mine # {}
    <3> DEFINE n == Cardinality(mine)
               latest == Latest(b, mine)
    <3>1. u \in updatedCusts[w]
      BY <1>1, <2>7 DEF OfCustomer
    <3>2. customers'[u] = Credited(old, n, latest)
      BY <1>1, <1>2, <3>1
    <3>3. /\ latest \in {b[i].occurred_at : i \in mine}
          /\ latest \in Nat
          /\ \A i \in mine : b[i].occurred_at <= latest
      BY <1>1, <2>2, <2>7, Aggregate
    <3>4. IsFiniteSet(added) /\ Cardinality(added) = n /\ n \in Nat
      BY <1>1, <2>2, RowsAreDistinct
    <3>5. \A i \in mine : b[i].occurred_at \in Nat
      BY <1>1, <2>2, ValidRows
    <3>6. \A o \in CustomerOrders(u) : o.occurred_at \in Nat
      BY ConstantsAssumption DEF IInv, TypeOK, CustomerOrders, Event, Times
    <3> HIDE DEF mine, old, n, latest
    <3>7. Cardinality(CustomerOrders(u)') = old.order_count + n
      <4>1. Cardinality(CustomerOrders(u) \cap added) = 0
        BY <2>4, FS_EmptySet
      <4>2. Cardinality(CustomerOrders(u)') =
                Cardinality(CustomerOrders(u)) + Cardinality(added)
                    - Cardinality(CustomerOrders(u) \cap added)
        BY <2>3, <2>5, <3>4, FS_Union
      <4> QED
        BY <2>1, <3>4, <4>1, <4>2
    <3>8. customers'[u].order_count = old.order_count + n
      BY <3>2 DEF Credited
    <3>9. /\ customers'[u].last_order_at \in {old.last_order_at, latest}
          /\ customers'[u].last_order_at >= old.last_order_at
          /\ customers'[u].last_order_at >= latest
      BY <2>1, <3>2, <3>3 DEF Credited, Later
    <3>10. \A o \in CustomerOrders(u)' : o.occurred_at <= customers'[u].last_order_at
      BY <2>1, <2>3, <3>3, <3>5, <3>6, <3>9
    <3>11. customers'[u].last_order_at # 0 =>
               \E o \in CustomerOrders(u)' : o.occurred_at = customers'[u].last_order_at
      BY <2>1, <2>3, <3>3, <3>9
    <3> QED
      BY <3>7, <3>8, <3>10, <3>11
  <2> QED
    BY <2>6, <2>7
<1> QED
  BY <1>4, <1>5 DEF CountersOK, AggregatesMatchOrders

\* apply_order_aggregates never loses an order or counts one twice: a customer's
\* counters are those of its committed orders, however requests interleave.
THEOREM CountersMatchOrders == Spec => []AggregatesMatchOrders
<1>1. Init => CountersOK
  <2> SUFFICES ASSUME Init PROVE CountersOK
    OBVIOUS
  <2>1. IsFiniteSet(orders) /\ \A u \in Customers : CustomerOrders(u) = {}
    BY FS_EmptySet DEF Init, CustomerOrders
  <2> QED
    BY <2>1, FS_EmptySet DEF Init, CountersOK, AggregatesMatchOrders, NewCust
<1>2. IInv /\ CountersOK /\ [Next]_vars => CountersOK'
  <2> SUFFICES ASSUME IInv, CountersOK, [Next]_vars PROVE CountersOK'
    OBVIOUS
  <2>1. CASE UNCHANGED db
    BY <2>1 DEF CountersOK, AggregatesMatchOrders, CustomerOrders, db
  <2> QED
    BY <2>1, OnlyCommits, CommitKeepsCounters
<1>3. CountersOK => AggregatesMatchOrders
  BY DEF CountersOK
<1> QED
  BY <1>1, <1>2, <1>3, Invariant, PTL DEF Spec

=============================================================================
