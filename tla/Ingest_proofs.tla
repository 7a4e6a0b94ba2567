---------------------------- MODULE Ingest_proofs ----------------------------
(***************************************************************************)
(* Proofs about Ingest, for every set of customers, orders, requests and   *)
(* workers: the inductive invariant IInv, and with it that the counters of *)
(* a customer and the answers of the bulk endpoints add up.                *)
(***************************************************************************)
EXTENDS Ingest, FiniteSetTheorems, WellFoundedInduction, TLAPS

-----------------------------------------------------------------------------
(* Numbers: the first and the last of a set. *)

\* Every non-empty set of natural numbers has a least element.
LEMMA Least ==
    ASSUME NEW S \in SUBSET Nat, S # {}
    PROVE  \E s \in S : \A t \in S : s <= t
<1> DEFINE R == OpToRel(<, Nat)
<1>1. IsWellFoundedOn(R, Nat)
  BY NatLessThanWellFounded
<1>2. PICK s \in S : \A t \in S : <<t, s>> \notin R
  <2> HIDE DEF R
  <2> QED
    BY <1>1, WFMin
<1>3. \A t \in S : ~(t < s)
  BY <1>2 DEF OpToRel
<1> QED
  BY <1>3

\* LatestOf is the greatest of a bounded set.
LEMMA Greatest ==
    ASSUME NEW n \in Nat, NEW S \in SUBSET (0..n), S # {}
    PROVE  LatestOf(S) \in S /\ \A s \in S : s <= LatestOf(S)
<1> DEFINE D == {n - s : s \in S}
<1>1. \A s \in S : s \in Nat /\ n - s \in Nat
  OBVIOUS
<1>2. D \in SUBSET Nat /\ D # {}
  BY <1>1
<1>3. PICK d \in D : \A e \in D : d <= e
  <2> HIDE DEF D
  <2> QED
    BY <1>2, Least
<1>4. PICK t \in S : d = n - t
  BY <1>3
<1>5. \A s \in S : n - t <= n - s
  BY <1>3, <1>4
<1>6. \A s \in S : s <= t
  BY <1>1, <1>5
<1> QED
  BY <1>6 DEF LatestOf

-----------------------------------------------------------------------------
(* Functions written row by row. *)

\* What Over(f, g) holds for each id.
LEMMA OverRows ==
    ASSUME NEW f, NEW g
    PROVE  /\ DOMAIN Over(f, g) = DOMAIN f \cup DOMAIN g
           /\ \A x \in DOMAIN f : Over(f, g)[x] = f[x]
           /\ \A x \in DOMAIN g \ DOMAIN f : Over(f, g)[x] = g[x]
  BY DEF Over

\* Over keeps tables tables, and finite ones finite.
LEMMA OverTable ==
    ASSUME NEW D, NEW R, NEW f, NEW g, Table(f, D, R), Table(g, D, R)
    PROVE  /\ Table(Over(f, g), D, R)
           /\ IsFiniteSet(DOMAIN f) /\ IsFiniteSet(DOMAIN g) => IsFiniteSet(DOMAIN Over(f, g))
<1>1. Over(f, g) = [x \in DOMAIN Over(f, g) |-> Over(f, g)[x]]
  BY DEF Over
<1>2. DOMAIN Over(f, g) = DOMAIN f \cup DOMAIN g
  BY OverRows
<1>3. \A x \in DOMAIN Over(f, g) : Over(f, g)[x] \in R
  <2>1. \A x \in DOMAIN f : f[x] \in R
    BY DEF Table
  <2>2. \A x \in DOMAIN g : g[x] \in R
    BY DEF Table
  <2>3. /\ \A x \in DOMAIN f : Over(f, g)[x] = f[x]
        /\ \A x \in DOMAIN g \ DOMAIN f : Over(f, g)[x] = g[x]
    BY OverRows
  <2> QED
    BY <1>2, <2>1, <2>2, <2>3
<1>4. DOMAIN f \subseteq D /\ DOMAIN g \subseteq D
  BY DEF Table
<1>5. Table(Over(f, g), D, R)
  <2> DEFINE h == Over(f, g)
  <2>1. h = [x \in DOMAIN h |-> h[x]] /\ (\A x \in DOMAIN h : h[x] \in R) /\ DOMAIN h \subseteq D
    BY <1>1, <1>2, <1>3, <1>4
  <2> HIDE DEF h
  <2>2. h \in [DOMAIN h -> R]
    BY <2>1
  <2> QED
    BY <2>1, <2>2 DEF Table, h
<1> QED
  BY <1>2, <1>5, FS_Union

\* One row on top of a table.
Put(f, x, v) == Over([y \in {x} |-> v], f)

\* g is the table f with row v for x.
Replaces(D, R, f, x, v, g) ==
    /\ Table(g, D, R) /\ IsFiniteSet(DOMAIN g)
    /\ DOMAIN g = DOMAIN f \cup {x}
    /\ g[x] = v
    /\ \A y \in DOMAIN f \ {x} : g[y] = f[y]

\* That is what Put makes of a table.
LEMMA OneRow ==
    ASSUME NEW D, NEW R, NEW f, NEW x \in D, NEW v \in R,
           Table(f, D, R), IsFiniteSet(DOMAIN f)
    PROVE  Replaces(D, R, f, x, v, Put(f, x, v))
<1> DEFINE one == [y \in {x} |-> v]
<1>1. DOMAIN one = {x} /\ one[x] = v /\ Table(one, D, R)
  BY DEF Table
<1>2. IsFiniteSet(DOMAIN one)
  BY <1>1, FS_Singleton
<1> HIDE DEF one
<1>3. /\ DOMAIN Over(one, f) = DOMAIN one \cup DOMAIN f
      /\ \A y \in DOMAIN one : Over(one, f)[y] = one[y]
      /\ \A y \in DOMAIN f \ DOMAIN one : Over(one, f)[y] = f[y]
  BY OverRows
<1>4. Table(Over(one, f), D, R) /\ IsFiniteSet(DOMAIN Over(one, f))
  BY <1>1, <1>2, OverTable
<1>5. /\ Table(Over(one, f), D, R) /\ IsFiniteSet(DOMAIN Over(one, f))
      /\ DOMAIN Over(one, f) = DOMAIN f \cup {x}
      /\ Over(one, f)[x] = v
      /\ \A y \in DOMAIN f \ {x} : Over(one, f)[y] = f[y]
  BY <1>1, <1>3, <1>4
<1> QED
  BY <1>5 DEF one, Put, Replaces

\* The empty table.
LEMMA NothingTable ==
    /\ \A D, R : Table(Nothing, D, R)
    /\ DOMAIN Nothing = {} /\ IsFiniteSet(DOMAIN Nothing)
<1>1. DOMAIN Nothing = {} /\ Nothing \in [{} -> {}]
  BY DEF Nothing
<1>2. \A R : Nothing \in [{} -> R]
  BY DEF Nothing
<1> QED
  BY <1>1, <1>2, FS_EmptySet DEF Table

-----------------------------------------------------------------------------
(* The rows of a payload. *)

\* The ids that a sequence of rows names are finitely many.
LEMMA IdsFinite ==
    ASSUME NEW T, NEW rows \in Seq(T)
    PROVE  IsFiniteSet({rows[i].id : i \in DOMAIN rows})
<1> DEFINE N == 1..Len(rows)
           Ids == {rows[i].id : i \in DOMAIN rows}
           f == [i \in N |-> rows[i].id]
<1>1. IsFiniteSet(N)
  BY FS_Interval
<1>2. f \in Surjection(N, Ids)
  BY DEF Surjection
<1> QED
  BY <1>1, <1>2, FS_Surjection

\* Both ways of dropping duplicates leave one row of the payload for each id.
LEMMA OneRowPerId ==
    ASSUME NEW T, NEW D, NEW rows \in Seq(T), \A t \in T : t.id \in D
    PROVE  /\ Table(Deduped(rows), D, T) /\ IsFiniteSet(DOMAIN Deduped(rows))
           /\ Table(OrderRows(rows), D, T) /\ IsFiniteSet(DOMAIN OrderRows(rows))
<1> DEFINE Ids == {rows[i].id : i \in DOMAIN rows}
<1>1. DOMAIN rows = 1..Len(rows) /\ Len(rows) \in Nat /\ \A i \in DOMAIN rows : rows[i] \in T
  OBVIOUS
<1>2. Ids \subseteq D /\ IsFiniteSet(Ids)
  BY <1>1, IdsFinite
<1>3. ASSUME NEW id \in Ids
      PROVE  /\ \E i \in DOMAIN rows :
                    rows[i].id = id /\ \A j \in DOMAIN rows : rows[j].id = id => j <= i
             /\ \E i \in DOMAIN rows :
                    rows[i].id = id /\ \A j \in 1..(i - 1) : rows[j].id # id
  <2> DEFINE I == {i \in DOMAIN rows : rows[i].id = id}
  <2>1. I \in SUBSET (0..Len(rows)) /\ I \in SUBSET Nat /\ I # {}
    BY <1>1
  <2>2. LatestOf(I) \in I /\ \A i \in I : i <= LatestOf(I)
    <3> HIDE DEF I
    <3> QED
      BY <1>1, <2>1, Greatest
  <2>3. PICK i \in I : \A j \in I : i <= j
    <3> HIDE DEF I
    <3> QED
      BY <2>1, Least
  <2>4. \A j \in 1..(i - 1) : rows[j].id # id
    BY <1>1, <2>3
  <2> QED
    BY <2>2, <2>3, <2>4
<1>4. /\ DOMAIN Deduped(rows) = Ids /\ DOMAIN OrderRows(rows) = Ids
      /\ Deduped(rows) \in [Ids -> T] /\ OrderRows(rows) \in [Ids -> T]
  BY <1>1, <1>3 DEF Deduped, OrderRows
<1> QED
  BY <1>2, <1>4 DEF Table

-----------------------------------------------------------------------------
(* Counters: what crediting a customer does. *)

\* OrdersOf picks the orders of c and leaves them as they are.
LEMMA OrdersOfRows ==
    ASSUME NEW f, NEW c
    PROVE  /\ DOMAIN OrdersOf(f, c) = {o \in DOMAIN f : f[o].customer = c}
           /\ \A o \in DOMAIN OrdersOf(f, c) : OrdersOf(f, c)[o] = f[o]
           /\ IsFiniteSet(DOMAIN f) => IsFiniteSet(DOMAIN OrdersOf(f, c))
<1>1. DOMAIN OrdersOf(f, c) = {o \in DOMAIN f : f[o].customer = c}
  BY DEF OrdersOf
<1> QED
  BY <1>1, FS_Subset DEF OrdersOf

\* The orders that are credited: a function whose values have dates.
Dated(f) == IsFiniteSet(DOMAIN f) /\ \A o \in DOMAIN f : f[o].ordered_at \in 1..MaxTime

\* new is row with the orders f added: their number to the count, the latest of all
\* dates, and the same tenant.
Adds(row, f, new) ==
    /\ new \in CustomerRow
    /\ new.tenant = row.tenant
    /\ new.order_count = row.order_count + Cardinality(DOMAIN f)
    /\ \/ new.last_order_at = row.last_order_at
       \/ \E o \in DOMAIN f : new.last_order_at = f[o].ordered_at
    /\ row.last_order_at <= new.last_order_at
    /\ \A o \in DOMAIN f : f[o].ordered_at <= new.last_order_at

\* That is what crediting does.
LEMMA CreditedRow ==
    ASSUME NEW row \in CustomerRow, NEW f, Dated(f)
    PROVE  Adds(row, f, Credited(row, f))
<1> DEFINE S == {row.last_order_at} \cup {f[o].ordered_at : o \in DOMAIN f}
<1>1. MaxTime \in Nat /\ row.last_order_at \in 0..MaxTime /\ row.order_count \in Nat
  BY RequestsAssumption DEF CustomerRow
<1>2. S \in SUBSET (0..MaxTime) /\ S # {}
  BY <1>1 DEF Dated
<1>3. PICK m \in S : m = LatestOf(S) /\ \A s \in S : s <= m
  <2> HIDE DEF S
  <2> QED
    BY <1>1, <1>2, Greatest
<1>4. Cardinality(DOMAIN f) \in Nat
  BY FS_CardinalityType DEF Dated
<1>5. Credited(row, f) = [row EXCEPT !.order_count = @ + Cardinality(DOMAIN f),
                                     !.last_order_at = m]
  BY <1>3 DEF Credited
<1>6. /\ Credited(row, f).tenant = row.tenant
      /\ Credited(row, f).order_count = row.order_count + Cardinality(DOMAIN f)
      /\ Credited(row, f).last_order_at = m
      /\ Credited(row, f) \in CustomerRow
  <2>1. m \in 0..MaxTime /\ row.order_count + Cardinality(DOMAIN f) \in Nat
    BY <1>1, <1>2, <1>3, <1>4
  <2> HIDE DEF S
  <2>2. /\ Credited(row, f).tenant = row.tenant
        /\ Credited(row, f).order_count = row.order_count + Cardinality(DOMAIN f)
        /\ Credited(row, f).last_order_at = m
    BY <1>5 DEF CustomerRow
  <2>3. Credited(row, f) \in CustomerRow
    BY <1>5, <2>1 DEF CustomerRow
  <2> QED
    BY <2>2, <2>3
<1>7. /\ m = row.last_order_at \/ \E o \in DOMAIN f : m = f[o].ordered_at
      /\ row.last_order_at <= m
      /\ \A o \in DOMAIN f : f[o].ordered_at <= m
  BY <1>3
<1> QED
  BY <1>6, <1>7 DEF Adds

\* Two customer rows are equal when their columns are.
LEMMA SameRow ==
    ASSUME NEW r \in CustomerRow, NEW s \in CustomerRow, r.tenant = s.tenant,
           r.order_count = s.order_count, r.last_order_at = s.last_order_at
    PROVE  r = s
  BY DEF CustomerRow

\* No order, no change.
LEMMA CreditedNone ==
    ASSUME NEW row \in CustomerRow, NEW f, DOMAIN f = {}
    PROVE  Credited(row, f) = row
<1>1. Dated(f) /\ Cardinality(DOMAIN f) = 0
  BY FS_EmptySet DEF Dated
<1>2. /\ Credited(row, f) \in CustomerRow
      /\ Credited(row, f).tenant = row.tenant
      /\ Credited(row, f).order_count = row.order_count + 0
      /\ Credited(row, f).last_order_at = row.last_order_at
  BY <1>1, CreditedRow DEF Adds
<1>3. row.order_count \in Nat
  BY DEF CustomerRow
<1> QED
  BY <1>2, <1>3, SameRow

\* Crediting some orders and then others is crediting all of them at once.
LEMMA CreditedTwice ==
    ASSUME NEW row \in CustomerRow, NEW f, NEW g, NEW h, Dated(f), Dated(g),
           DOMAIN f \cap DOMAIN g = {}, DOMAIN h = DOMAIN f \cup DOMAIN g,
           \A o \in DOMAIN f : h[o] = f[o], \A o \in DOMAIN g : h[o] = g[o]
    PROVE  Dated(h) /\ Credited(Credited(row, f), g) = Credited(row, h)
<1>1. IsFiniteSet(DOMAIN f) /\ IsFiniteSet(DOMAIN g) /\ IsFiniteSet(DOMAIN h)
  BY FS_Union DEF Dated
<1>2. Dated(h)
  BY <1>1 DEF Dated
<1>3. /\ Cardinality(DOMAIN f) \in Nat /\ Cardinality(DOMAIN g) \in Nat
      /\ Cardinality(DOMAIN h) = Cardinality(DOMAIN f) + Cardinality(DOMAIN g)
  <2>1. Cardinality(DOMAIN f \cap DOMAIN g) = 0
    BY FS_EmptySet
  <2>2. Cardinality(DOMAIN f) \in Nat /\ Cardinality(DOMAIN g) \in Nat
    BY <1>1, FS_CardinalityType
  <2>3. Cardinality(DOMAIN f \cup DOMAIN g) =
            Cardinality(DOMAIN f) + Cardinality(DOMAIN g) - Cardinality(DOMAIN f \cap DOMAIN g)
    BY <1>1, FS_Union
  <2> QED
    BY <2>1, <2>2, <2>3
<1>4. PICK a \in CustomerRow : a = Credited(row, f) /\ Adds(row, f, a)
  BY CreditedRow DEF Adds
<1>5. PICK x \in CustomerRow : x = Credited(a, g) /\ Adds(a, g, x)
  BY CreditedRow DEF Adds
<1>6. PICK y \in CustomerRow : y = Credited(row, h) /\ Adds(row, h, y)
  <2>1. Adds(row, h, Credited(row, h))
    BY <1>2, CreditedRow
  <2> QED
    BY <2>1 DEF Adds
<1>7. /\ a.tenant = row.tenant
      /\ a.order_count = row.order_count + Cardinality(DOMAIN f)
      /\ row.last_order_at <= a.last_order_at
      /\ \A o \in DOMAIN f : f[o].ordered_at <= a.last_order_at
      /\ \/ a.last_order_at = row.last_order_at
         \/ \E o \in DOMAIN f : a.last_order_at = f[o].ordered_at
  BY <1>4 DEF Adds
<1>8. /\ x.tenant = a.tenant
      /\ x.order_count = a.order_count + Cardinality(DOMAIN g)
      /\ a.last_order_at <= x.last_order_at
      /\ \A o \in DOMAIN g : g[o].ordered_at <= x.last_order_at
      /\ \/ x.last_order_at = a.last_order_at
         \/ \E o \in DOMAIN g : x.last_order_at = g[o].ordered_at
  BY <1>5 DEF Adds
<1>9. /\ y.tenant = row.tenant
      /\ y.order_count = row.order_count + Cardinality(DOMAIN h)
      /\ row.last_order_at <= y.last_order_at
      /\ \A o \in DOMAIN f : f[o].ordered_at <= y.last_order_at
      /\ \A o \in DOMAIN g : g[o].ordered_at <= y.last_order_at
      /\ \/ y.last_order_at = row.last_order_at
         \/ \E o \in DOMAIN f : y.last_order_at = f[o].ordered_at
         \/ \E o \in DOMAIN g : y.last_order_at = g[o].ordered_at
  BY <1>6 DEF Adds
<1>10. /\ row.last_order_at \in Nat /\ a.last_order_at \in Nat
       /\ x.last_order_at \in Nat /\ y.last_order_at \in Nat /\ row.order_count \in Nat
  BY RequestsAssumption DEF CustomerRow
<1>11. /\ \A o \in DOMAIN f : f[o].ordered_at \in Nat
       /\ \A o \in DOMAIN g : g[o].ordered_at \in Nat
  BY RequestsAssumption DEF Dated
<1>12. x.order_count = y.order_count
  BY <1>3, <1>7, <1>8, <1>9, <1>10
<1>13. x.last_order_at <= y.last_order_at
  <2>1. a.last_order_at <= y.last_order_at
    BY <1>7, <1>9
  <2> QED
    BY <1>8, <1>9, <2>1
<1>14. y.last_order_at <= x.last_order_at
  <2>1. row.last_order_at <= x.last_order_at
    BY <1>7, <1>8, <1>10
  <2>2. \A o \in DOMAIN f : f[o].ordered_at <= x.last_order_at
    BY <1>7, <1>8, <1>10, <1>11
  <2> QED
    BY <1>8, <1>9, <2>1, <2>2
<1>15. x.last_order_at = y.last_order_at
  BY <1>10, <1>13, <1>14
<1>16. x = y
  BY <1>7, <1>8, <1>9, <1>12, <1>15, SameRow
<1> QED
  BY <1>2, <1>4, <1>5, <1>6, <1>16

-----------------------------------------------------------------------------
(* The requests. *)

\* The figures of a load are customer rows: a count and a date.
LEMMA FiguresTable ==
    ASSUME NEW file, Table(file, OrderIds, OrderIn), IsFiniteSet(DOMAIN file)
    PROVE  /\ Table(FiguresOf(file), Customers, CustomerIn)
           /\ IsFiniteSet(DOMAIN FiguresOf(file))
<1> DEFINE C == {file[o].customer : o \in DOMAIN file}
           f == [o \in DOMAIN file |-> file[o].customer]
<1>1. \A o \in DOMAIN file : file[o] \in OrderIn
  BY DEF Table
<1>2. C \subseteq Customers
  BY <1>1 DEF OrderIn
<1>3. IsFiniteSet(C)
  <2>1. f \in Surjection(DOMAIN file, C)
    BY DEF Surjection
  <2> QED
    BY <2>1, FS_Surjection
<1>4. ASSUME NEW c \in C
      PROVE  LET mine == OrdersOf(file, c) IN
             [id |-> c, order_count |-> Cardinality(DOMAIN mine),
              last_order_at |-> LatestOf({mine[o].ordered_at : o \in DOMAIN mine})] \in CustomerIn
  <2> DEFINE mine == OrdersOf(file, c)
             S == {mine[o].ordered_at : o \in DOMAIN mine}
  <2>1. /\ DOMAIN mine = {o \in DOMAIN file : file[o].customer = c}
        /\ \A o \in DOMAIN mine : mine[o] = file[o]
        /\ IsFiniteSet(DOMAIN mine)
    BY OrdersOfRows
  <2>2. Cardinality(DOMAIN mine) \in Nat
    BY <2>1, FS_CardinalityType
  <2>3. MaxTime \in Nat /\ S \in SUBSET (0..MaxTime) /\ S # {}
    BY <1>1, <2>1, RequestsAssumption DEF OrderIn
  <2>4. LatestOf(S) \in 0..MaxTime
    <3> HIDE DEF S
    <3> QED
      BY <2>3, Greatest
  <2> QED
    BY <1>2, <2>2, <2>4 DEF CustomerIn
<1>5. DOMAIN FiguresOf(file) = C /\ FiguresOf(file) \in [C -> CustomerIn]
  BY <1>4 DEF FiguresOf
<1> QED
  BY <1>2, <1>3, <1>5 DEF Table

\* A request under way: what it works on are finite tables of rows.
RequestRows(r) ==
    /\ r.kind \in Kinds
    /\ Table(r.customers, Customers, CustomerIn) /\ IsFiniteSet(DOMAIN r.customers)
    /\ Table(r.orders, OrderIds, OrderIn)

\* Every payload gives such a request, of its own kind.
LEMMA RowsOfRequest ==
    ASSUME NEW r \in Requests
    PROVE  RequestRows(Rows(r)) /\ Rows(r).kind = r.kind
<1>1. r.kind \in Kinds /\ r.customers \in Seq(CustomerIn) /\ r.orders \in Seq(OrderIn)
  BY RequestsAssumption
<1>2. /\ Table(Deduped(r.customers), Customers, CustomerIn)
      /\ IsFiniteSet(DOMAIN Deduped(r.customers))
  <2>1. \A t \in CustomerIn : t.id \in Customers
    BY DEF CustomerIn
  <2> QED
    BY <1>1, <2>1, OneRowPerId
<1>3. /\ Table(Deduped(r.orders), OrderIds, OrderIn)
      /\ Table(OrderRows(r.orders), OrderIds, OrderIn)
      /\ IsFiniteSet(DOMAIN OrderRows(r.orders))
  <2>1. \A t \in OrderIn : t.id \in OrderIds
    BY DEF OrderIn
  <2> QED
    BY <1>1, <2>1, OneRowPerId
<1>4. CASE r.kind = "load"
  <2>1. /\ Table(FiguresOf(OrderRows(r.orders)), Customers, CustomerIn)
        /\ IsFiniteSet(DOMAIN FiguresOf(OrderRows(r.orders)))
    BY <1>3, FiguresTable
  <2> QED
    BY <1>1, <1>3, <1>4, <2>1 DEF Rows, RequestRows
<1>5. CASE r.kind # "load"
  BY <1>1, <1>2, <1>3, <1>5 DEF Rows, RequestRows
<1> QED
  BY <1>4, <1>5

\* A worker has such a request, or none.
LEMMA RequestOf ==
    ASSUME TypeOK, NEW w \in Workers
    PROVE  /\ request[w] = None \/ RequestRows(request[w])
           /\ None.kind = "none" /\ DOMAIN None.customers = {}
           /\ request[w].kind \in Kinds => RequestRows(request[w])
<1>1. None.kind = "none" /\ DOMAIN None.customers = {}
  BY NothingTable DEF None
<1>2. request[w] = None \/ \E r \in Requests : request[w] = Rows(r)
  BY DEF TypeOK
<1> QED
  BY <1>1, <1>2, RowsOfRequest DEF Kinds

-----------------------------------------------------------------------------
(* Steps of one request that leave the database and the others alone. *)

WorkerOK(w) == StageOK(w) /\ OrdersOK(w) /\ UpsertsOK(w)

Same(v) ==
    /\ stage'[v] = stage[v] /\ request'[v] = request[v]
    /\ todo'[v] = todo[v] /\ seen'[v] = seen[v]
    /\ newCustomers'[v] = newCustomers[v] /\ newOrders'[v] = newOrders[v]

Stages == {"idle", "select", "customers", "orders", "credit", "commit"}
Ids == Customers \cup OrderIds

\* What Goto leaves behind.
LEMMA GotoEffect ==
    ASSUME TypeOK, NEW w \in Workers, NEW s \in Stages, NEW ids \in SUBSET Ids, Goto(w, s, ids)
    PROVE  /\ stage' \in [Workers -> Stages] /\ todo' \in [Workers -> SUBSET Ids]
           /\ stage'[w] = s /\ todo'[w] = ids
           /\ \A v \in Workers \ {w} : stage'[v] = stage[v] /\ todo'[v] = todo[v]
<1>1. stage \in [Workers -> Stages] /\ todo \in [Workers -> SUBSET Ids]
  BY DEF TypeOK, Stages, Ids
<1> QED
  BY <1>1 DEF Goto

\* Replacing what one request has written.
LEMMA WriteEffect ==
    ASSUME NEW w \in Workers, NEW D, NEW R, NEW f, NEW g, NEW t,
           f = [v \in Workers |-> f[v]], \A v \in Workers : Table(f[v], D, R),
           Table(t, D, R), g = [f EXCEPT ![w] = t]
    PROVE  /\ g = [v \in Workers |-> g[v]] /\ \A v \in Workers : Table(g[v], D, R)
           /\ g[w] = t /\ \A v \in Workers \ {w} : g[v] = f[v]
<1>1. DOMAIN f = Workers
  OBVIOUS
<1>2. g = [v \in Workers |-> IF v = w THEN t ELSE f[v]]
  BY <1>1
<1>3. g[w] = t /\ \A v \in Workers \ {w} : g[v] = f[v]
  BY <1>2
<1>4. g = [v \in Workers |-> g[v]]
  BY <1>2
<1> QED
  BY <1>3, <1>4

\* A request that nothing happens to stays as it was.
LEMMA Frame ==
    ASSUME NEW v \in Workers, WorkerOK(v), Same(v), UNCHANGED tables
    PROVE  WorkerOK(v)'
<1>1. StageOK(v)'
  BY DEF WorkerOK, Same, StageOK
<1>2. OrdersOK(v)'
  BY DEF WorkerOK, Same, OrdersOK, tables
<1>3. UpsertsOK(v)'
  BY DEF WorkerOK, Same, UpsertsOK, Stored, tables
<1> QED
  BY <1>1, <1>2, <1>3 DEF WorkerOK

\* A step of w that writes no row another request has written keeps the invariant,
\* if it keeps what the invariant says of w.
LEMMA LocalStep ==
    ASSUME IInv, NEW w \in Workers, UNCHANGED <<tables, history>>,
           \A v \in Workers \ {w} : Same(v),
           TypeOK', WorkerOK(w)',
           IsFiniteSet(DOMAIN newCustomers'[w]), IsFiniteSet(DOMAIN newOrders'[w]),
           \A x \in DOMAIN newCustomers'[w] :
               x \in DOMAIN newCustomers[w] \/ \A v \in Workers \ {w} : x \notin DOMAIN newCustomers[v],
           \A x \in DOMAIN newOrders'[w] :
               x \in DOMAIN newOrders[w] \/ \A v \in Workers \ {w} : x \notin DOMAIN newOrders[v]
    PROVE  IInv'
<1>1. \A v \in Workers : WorkerOK(v)'
  BY Frame DEF IInv, WorkerOK
<1>2. Exclusive'
  BY DEF IInv, Exclusive, Same
<1>3. HistoryOK' /\ AnswersAddUp'
  BY DEF IInv, HistoryOK, AnswersAddUp, tables, history
<1>4. FiniteOK'
  BY DEF IInv, FiniteOK, Same, tables, history
<1>5. CountersSinceFigures'
  BY DEF IInv, CountersSinceFigures, Since, tables, history
<1> QED
  BY <1>1, <1>2, <1>3, <1>4, <1>5 DEF IInv, WorkerOK

\* A request arrives with nothing written.
LEMMA ReceiveStep ==
    ASSUME IInv, NEW w \in Workers, NEW r \in Requests, Receive(w, r)
    PROVE  IInv'
<1> DEFINE R == Rows(r)
<1>1. /\ stage[w] = "idle"
      /\ request' = [request EXCEPT ![w] = R]
      /\ IF r.kind = "load" THEN Goto(w, "customers", DOMAIN R.customers)
         ELSE Goto(w, "select", {})
      /\ UNCHANGED <<tables, seen, newCustomers, newOrders, history>>
  BY DEF Receive
<1>2. TypeOK /\ WorkerOK(w)
  BY DEF IInv, WorkerOK
<1>3. RequestRows(R) /\ R.kind = r.kind /\ R \in {Rows(x) : x \in Requests}
  BY RowsOfRequest
<1> HIDE DEF R
<1>4. newCustomers[w] = Nothing /\ newOrders[w] = Nothing
  BY <1>1, <1>2 DEF WorkerOK, StageOK
<1>5. PICK s \in Stages, ids \in SUBSET Ids :
          /\ Goto(w, s, ids)
          /\ \/ s = "select" /\ ids = {}
             \/ r.kind = "load" /\ s = "customers" /\ ids = DOMAIN R.customers
  <2>1. DOMAIN R.customers \in SUBSET Ids
    BY <1>3 DEF RequestRows, Table, Ids
  <2>2. "select" \in Stages /\ "customers" \in Stages /\ {} \in SUBSET Ids
    BY DEF Stages
  <2>3. CASE r.kind = "load"
    BY <1>1, <2>1, <2>2, <2>3
  <2>4. CASE r.kind # "load"
    BY <1>1, <2>2, <2>4
  <2> QED
    BY <2>3, <2>4
<1>6. /\ stage' \in [Workers -> Stages] /\ todo' \in [Workers -> SUBSET Ids]
      /\ stage'[w] = s /\ todo'[w] = ids
      /\ \A v \in Workers \ {w} : stage'[v] = stage[v] /\ todo'[v] = todo[v]
  BY <1>2, <1>5, GotoEffect
<1>7. /\ request' \in [Workers -> {Rows(x) : x \in Requests} \cup {None}]
      /\ request'[w] = R /\ \A v \in Workers \ {w} : request'[v] = request[v]
  BY <1>1, <1>2, <1>3 DEF TypeOK
<1>8. TypeOK'
  BY <1>1, <1>2, <1>6, <1>7 DEF TypeOK, Stages, Ids, tables, history
<1>9. \A v \in Workers \ {w} : Same(v)
  BY <1>1, <1>6, <1>7 DEF Same
<1>10. DOMAIN Nothing = {} /\ IsFiniteSet(DOMAIN Nothing)
  BY NothingTable
<1>11. WorkerOK(w)'
  <2>1. newCustomers'[w] = Nothing /\ newOrders'[w] = Nothing /\ R # None
    <3>1. R.kind # None.kind
      BY <1>2, <1>3, RequestOf DEF RequestRows, Kinds
    <3> QED
      BY <1>1, <1>4, <3>1
  <2>2. StageOK(w)'
    BY <1>3, <1>5, <1>6, <1>7, <2>1 DEF StageOK
  <2>3. OrdersOK(w)'
    BY <1>5, <1>6, <1>10, <2>1 DEF OrdersOK
  <2>4. UpsertsOK(w)'
    BY <1>1, <1>2, <1>10, <2>1 DEF WorkerOK, UpsertsOK, tables
  <2> QED
    BY <2>2, <2>3, <2>4 DEF WorkerOK
<1> QED
  BY <1>1, <1>4, <1>8, <1>9, <1>10, <1>11, LocalStep

\* The SELECT sees customers that stay, and keeps the orders that name one of them.
LEMMA SelectIdsStep ==
    ASSUME IInv, NEW w \in Workers, SelectIds(w)
    PROVE  IInv'
<1> DEFINE r == request[w]
           ids == {c \in DOMAIN customers : r.kind = "load" => customers[c].tenant}
           known == {o \in DOMAIN r.orders : r.orders[o].customer \in ids}
<1>1. /\ stage[w] = "select"
      /\ seen' = [seen EXCEPT ![w] = ids]
      /\ IF r.kind \in {"customers", "upload"} THEN Goto(w, "customers", DOMAIN r.customers)
         ELSE Goto(w, "orders", known)
      /\ UNCHANGED <<tables, request, newCustomers, newOrders, history>>
  BY DEF SelectIds
<1>2. TypeOK /\ WorkerOK(w)
  BY DEF IInv, WorkerOK
<1>3. newCustomers[w] = Nothing /\ newOrders[w] = Nothing /\ r # None
  BY <1>1, <1>2 DEF WorkerOK, StageOK
<1>4. RequestRows(r)
  BY <1>2, <1>3, RequestOf
<1>5. ids \subseteq DOMAIN customers /\ ids \subseteq Customers
  BY <1>2 DEF TypeOK, Table
<1>6. /\ known \subseteq DOMAIN r.orders
      /\ \A o \in known : r.orders[o].customer \in DOMAIN customers
  OBVIOUS
<1> HIDE DEF ids, known
<1>7. PICK s \in Stages, rows \in SUBSET Ids :
          /\ Goto(w, s, rows)
          /\ \/ r.kind \in {"customers", "upload"} /\ s = "customers" /\ rows = DOMAIN r.customers
             \/ r.kind \in {"orders", "load"} /\ s = "orders" /\ rows = known
  <2>1. DOMAIN r.customers \in SUBSET Ids /\ known \in SUBSET Ids
    BY <1>4, <1>6 DEF RequestRows, Table, Ids
  <2>2. r.kind \in {"customers", "upload", "orders", "load"}
    BY <1>4 DEF RequestRows, Kinds
  <2> HIDE DEF r
  <2> QED
    BY <1>1, <2>1, <2>2 DEF Stages
<1>8. /\ stage' \in [Workers -> Stages] /\ todo' \in [Workers -> SUBSET Ids]
      /\ stage'[w] = s /\ todo'[w] = rows
      /\ \A v \in Workers \ {w} : stage'[v] = stage[v] /\ todo'[v] = todo[v]
  BY <1>2, <1>7, GotoEffect
<1>9. /\ seen' \in [Workers -> SUBSET Customers]
      /\ seen'[w] = ids /\ \A v \in Workers \ {w} : seen'[v] = seen[v]
  BY <1>1, <1>2, <1>5 DEF TypeOK
<1>10. TypeOK'
  BY <1>1, <1>2, <1>8, <1>9 DEF TypeOK, Stages, Ids, tables, history
<1>11. \A v \in Workers \ {w} : Same(v)
  BY <1>1, <1>8, <1>9 DEF Same
<1>12. DOMAIN Nothing = {} /\ IsFiniteSet(DOMAIN Nothing)
  BY NothingTable
<1>13. WorkerOK(w)'
  <2>1. newCustomers'[w] = Nothing /\ newOrders'[w] = Nothing /\ request'[w] = r
    BY <1>1, <1>3
  <2>2. StageOK(w)'
    BY <1>3, <1>6, <1>7, <1>8, <2>1 DEF StageOK
  <2>3. OrdersOK(w)'
    BY <1>1, <1>6, <1>7, <1>8, <1>12, <2>1 DEF OrdersOK, tables
  <2>4. UpsertsOK(w)'
    BY <1>1, <1>5, <1>9, <1>12, <2>1 DEF UpsertsOK, tables
  <2> QED
    BY <2>2, <2>3, <2>4 DEF WorkerOK
<1> QED
  BY <1>1, <1>3, <1>10, <1>11, <1>12, <1>13, LocalStep

\* A request that gives up leaves no trace.
LEMMA FailStep ==
    ASSUME IInv, NEW w \in Workers, Fail(w)
    PROVE  IInv'
<1>1. /\ newCustomers' = [newCustomers EXCEPT ![w] = Nothing]
      /\ newOrders' = [newOrders EXCEPT ![w] = Nothing]
      /\ Goto(w, "idle", {})
      /\ request' = [request EXCEPT ![w] = None]
      /\ seen' = [seen EXCEPT ![w] = {}]
      /\ UNCHANGED <<tables, history>>
  BY DEF Fail, RollBack, ForgetWrites, Leave
<1>2. TypeOK
  BY DEF IInv
<1>3. /\ stage' \in [Workers -> Stages] /\ todo' \in [Workers -> SUBSET Ids]
      /\ stage'[w] = "idle" /\ todo'[w] = {}
      /\ \A v \in Workers \ {w} : stage'[v] = stage[v] /\ todo'[v] = todo[v]
  <2>1. "idle" \in Stages /\ {} \in SUBSET Ids
    BY DEF Stages
  <2> QED
    BY <1>1, <1>2, <2>1, GotoEffect
<1>4. /\ newCustomers' = [v \in Workers |-> newCustomers'[v]]
      /\ \A v \in Workers : Table(newCustomers'[v], Customers, CustomerRow)
      /\ newCustomers'[w] = Nothing
      /\ \A v \in Workers \ {w} : newCustomers'[v] = newCustomers[v]
  <2>1. Table(Nothing, Customers, CustomerRow)
    BY NothingTable
  <2> QED
    BY <1>1, <1>2, <2>1, WriteEffect DEF TypeOK
<1>5. /\ newOrders' = [v \in Workers |-> newOrders'[v]]
      /\ \A v \in Workers : Table(newOrders'[v], OrderIds, OrderRow)
      /\ newOrders'[w] = Nothing
      /\ \A v \in Workers \ {w} : newOrders'[v] = newOrders[v]
  <2>1. Table(Nothing, OrderIds, OrderRow)
    BY NothingTable
  <2> QED
    BY <1>1, <1>2, <2>1, WriteEffect DEF TypeOK
<1>6. /\ request' \in [Workers -> {Rows(x) : x \in Requests} \cup {None}]
      /\ seen' \in [Workers -> SUBSET Customers]
      /\ request'[w] = None /\ seen'[w] = {}
      /\ \A v \in Workers \ {w} : request'[v] = request[v] /\ seen'[v] = seen[v]
  BY <1>1, <1>2 DEF TypeOK
<1>7. TypeOK'
  BY <1>1, <1>2, <1>3, <1>4, <1>5, <1>6 DEF TypeOK, Stages, Ids, tables, history
<1>8. \A v \in Workers \ {w} : Same(v)
  BY <1>3, <1>4, <1>5, <1>6 DEF Same
<1>9. DOMAIN Nothing = {} /\ IsFiniteSet(DOMAIN Nothing) /\ None.kind = "none"
  BY <1>2, NothingTable, RequestOf
<1>10. WorkerOK(w)'
  BY <1>3, <1>4, <1>5, <1>6, <1>9 DEF WorkerOK, StageOK, OrdersOK, UpsertsOK
<1> QED
  BY <1>1, <1>4, <1>5, <1>7, <1>8, <1>9, <1>10, LocalStep

-----------------------------------------------------------------------------
(* Steps that write one row. *)

\* The upsert of one customer: what is not in its SET list stays.
LEMMA UpsertCustomerStep ==
    ASSUME IInv, NEW w \in Workers, NEW c \in Customers, UpsertCustomer(w, c)
    PROVE  IInv'
<1> DEFINE r == request[w]
           row == Upserted(r.kind, Stored(c), r.customers[c])
           mine == newCustomers[w]
<1>1. /\ stage[w] = "customers" /\ c \in todo[w]
      /\ \A v \in Workers \ {w} : c \notin DOMAIN newCustomers[v]
      /\ Goto(w, "customers", todo[w] \ {c})
      /\ newCustomers' = [newCustomers EXCEPT ![w] = Put(mine, c, row)]
      /\ UNCHANGED <<tables, request, seen, newOrders, history>>
  BY DEF UpsertCustomer, Take, Stored, Put
<1>2. TypeOK /\ WorkerOK(w)
  BY DEF IInv, WorkerOK
<1>3. /\ r # None /\ r.kind # "orders" /\ newOrders[w] = Nothing
      /\ todo[w] \subseteq DOMAIN r.customers
  BY <1>1, <1>2 DEF WorkerOK, StageOK
<1>4. RequestRows(r) /\ r.kind \in {"customers", "upload", "load"}
  BY <1>2, <1>3, RequestOf DEF RequestRows, Kinds
<1>5. r.customers[c] \in CustomerIn
  BY <1>1, <1>3, <1>4 DEF RequestRows, Table
<1>6. Stored(c) \in CustomerRow
  <2>1. NewCustomer \in CustomerRow
    BY RequestsAssumption DEF NewCustomer, CustomerRow
  <2> QED
    BY <1>2, <2>1 DEF Stored, TypeOK, Table
<1>7. /\ row \in CustomerRow
      /\ row.tenant = (Stored(c).tenant \/ r.kind = "load")
      /\ r.kind # "load" => row.last_order_at = Stored(c).last_order_at
      /\ r.kind = "customers" => row.order_count = Stored(c).order_count
  BY <1>4, <1>5, <1>6 DEF Upserted, SetList, CustomerRow, CustomerIn
<1>8. r.kind = "customers" => row = Stored(c)
  <2> HAVE r.kind = "customers"
  <2>1. Stored(c).tenant \in BOOLEAN
    BY <1>6 DEF CustomerRow
  <2>2. row.tenant = Stored(c).tenant
    BY <1>7, <2>1
  <2> HIDE DEF row
  <2> QED
    BY <1>6, <1>7, <2>2, SameRow
<1> HIDE DEF row, r, mine
<1>9. /\ Table(mine, Customers, CustomerRow) /\ IsFiniteSet(DOMAIN mine)
  BY <1>2 DEF mine, IInv, FiniteOK, TypeOK
<1> DEFINE now == Put(mine, c, row)
<1>10. /\ Table(now, Customers, CustomerRow) /\ IsFiniteSet(DOMAIN now)
       /\ DOMAIN now = DOMAIN mine \cup {c}
       /\ now[c] = row /\ \A x \in DOMAIN mine \ {c} : now[x] = mine[x]
  <2>1. row \in CustomerRow
    BY <1>7
  <2>2. Replaces(Customers, CustomerRow, mine, c, row, now)
    BY <1>9, <2>1, OneRow
  <2> QED
    BY <2>2 DEF Replaces
<1> HIDE DEF now
<1>11. newCustomers' = [newCustomers EXCEPT ![w] = now]
  BY <1>1 DEF now
<1>12. /\ newCustomers' = [v \in Workers |-> newCustomers'[v]]
       /\ \A v \in Workers : Table(newCustomers'[v], Customers, CustomerRow)
       /\ newCustomers'[w] = now
       /\ \A v \in Workers \ {w} : newCustomers'[v] = newCustomers[v]
  BY <1>2, <1>10, <1>11, WriteEffect DEF TypeOK
<1>13. /\ stage' \in [Workers -> Stages] /\ todo' \in [Workers -> SUBSET Ids]
       /\ stage'[w] = "customers" /\ todo'[w] = todo[w] \ {c}
       /\ \A v \in Workers \ {w} : stage'[v] = stage[v] /\ todo'[v] = todo[v]
  <2>1. "customers" \in Stages /\ todo[w] \ {c} \in SUBSET Ids
    BY <1>2 DEF Stages, TypeOK, Ids
  <2> QED
    BY <1>1, <1>2, <2>1, GotoEffect
<1>14. TypeOK'
  BY <1>1, <1>2, <1>12, <1>13 DEF TypeOK, Stages, Ids, tables, history
<1>15. \A v \in Workers \ {w} : Same(v)
  BY <1>1, <1>12, <1>13 DEF Same
<1>16. WorkerOK(w)'
  <2>1. /\ request'[w] = r /\ newOrders'[w] = Nothing /\ seen'[w] = seen[w]
        /\ customers' = customers
    BY <1>1, <1>3 DEF r, tables
  <2>2. StageOK(w)'
    BY <1>3, <1>13, <2>1 DEF StageOK
  <2>3. OrdersOK(w)'
    BY <1>4, <2>1 DEF OrdersOK
  <2>4. \A x \in DOMAIN now : x = c \/ (x \in DOMAIN mine /\ now[x] = mine[x])
    BY <1>10
  <2>5. \A x : Stored(x)' = Stored(x)
    BY <2>1 DEF Stored
  <2>6. /\ seen[w] \subseteq DOMAIN customers
        /\ r.kind \in {"customers", "upload"} =>
               \A x \in DOMAIN mine : /\ mine[x].tenant = Stored(x).tenant
                                     /\ mine[x].last_order_at = Stored(x).last_order_at
        /\ r.kind = "load" => \A x \in DOMAIN mine : mine[x].tenant
        /\ r.kind = "customers" => \A x \in DOMAIN mine : mine[x] = Stored(x)
        /\ r.kind \in {"customers", "upload"} => DOMAIN mine \subseteq DOMAIN r.customers
    BY <1>2 DEF WorkerOK, UpsertsOK, r, mine
  <2>7. Stored(c).tenant \in BOOLEAN
    BY <1>6 DEF CustomerRow
  <2>8. r.kind \in {"customers", "upload"} =>
            \A x \in DOMAIN now : /\ now[x].tenant = Stored(x).tenant
                                 /\ now[x].last_order_at = Stored(x).last_order_at
    BY <1>7, <1>10, <2>4, <2>6, <2>7
  <2>9. r.kind = "load" => \A x \in DOMAIN now : now[x].tenant
    BY <1>7, <1>10, <2>4, <2>6, <2>7
  <2>10. r.kind = "customers" => \A x \in DOMAIN now : now[x] = Stored(x)
    BY <1>8, <1>10, <2>4, <2>6
  <2>11. r.kind \in {"customers", "upload"} => DOMAIN now \subseteq DOMAIN r.customers
    BY <1>1, <1>3, <1>10, <2>6
  <2>12. UpsertsOK(w)'
    BY <1>12, <2>1, <2>5, <2>6, <2>8, <2>9, <2>10, <2>11 DEF UpsertsOK
  <2> QED
    BY <2>2, <2>3, <2>12 DEF WorkerOK
<1>17. newOrders'[w] = newOrders[w] /\ IsFiniteSet(DOMAIN newOrders'[w])
  BY <1>1 DEF IInv, FiniteOK
<1>18. \A x \in DOMAIN newCustomers'[w] :
           x \in DOMAIN newCustomers[w] \/ \A v \in Workers \ {w} : x \notin DOMAIN newCustomers[v]
  BY <1>1, <1>10, <1>12 DEF mine
<1> QED
  BY <1>1, <1>10, <1>12, <1>14, <1>15, <1>16, <1>17, <1>18, LocalStep

\* An order that bulk orders insert is new and names a customer that is there.
LEMMA InsertOrderStep ==
    ASSUME IInv, NEW w \in Workers, NEW o \in OrderIds, InsertOrder(w, o)
    PROVE  IInv'
<1> DEFINE r == request[w]
           row == [customer |-> r.orders[o].customer, ordered_at |-> r.orders[o].ordered_at]
           mine == newOrders[w]
           now == Put(mine, o, row)
<1>1. /\ stage[w] = "orders" /\ o \in todo[w]
      /\ Goto(w, "orders", todo[w] \ {o})
      /\ UNCHANGED <<tables, request, seen, newCustomers, history>>
      /\ \/ newOrders' = newOrders
         \/ /\ r.kind = "orders" => o \notin DOMAIN orders
            /\ \A v \in Workers \ {w} : o \notin DOMAIN newOrders[v]
            /\ newOrders' = [newOrders EXCEPT ![w] = now]
  BY DEF InsertOrder, Exists, Take, OrderOf, Put
<1>2. TypeOK /\ WorkerOK(w)
  BY DEF IInv, WorkerOK
<1>3. /\ r # None /\ r.kind \in {"orders", "load"} /\ newCustomers[w] = Nothing
      /\ todo[w] \subseteq DOMAIN r.orders
  BY <1>1, <1>2 DEF WorkerOK, StageOK
<1>4. RequestRows(r)
  BY <1>2, <1>3, RequestOf
<1>5. row \in OrderRow
  <2>1. r.orders[o] \in OrderIn
    BY <1>1, <1>3, <1>4 DEF RequestRows, Table
  <2> QED
    BY <2>1 DEF OrderIn, OrderRow
<1>6. Table(mine, OrderIds, OrderRow) /\ IsFiniteSet(DOMAIN mine)
  BY <1>2 DEF IInv, FiniteOK, TypeOK
<1> HIDE DEF mine
<1>7. /\ Table(now, OrderIds, OrderRow) /\ IsFiniteSet(DOMAIN now)
      /\ DOMAIN now = DOMAIN mine \cup {o}
      /\ now[o] = row /\ \A x \in DOMAIN mine \ {o} : now[x] = mine[x]
  <2> HIDE DEF row
  <2>1. Replaces(OrderIds, OrderRow, mine, o, row, now)
    BY <1>5, <1>6, OneRow
  <2> HIDE DEF now
  <2> QED
    BY <2>1 DEF Replaces
<1> HIDE DEF now, r
<1>8. PICK new \in {mine, now} :
          /\ newOrders' = [newOrders EXCEPT ![w] = new]
          /\ \/ new = mine
             \/ /\ new = now
                /\ r.kind = "orders" => o \notin DOMAIN orders
                /\ \A v \in Workers \ {w} : o \notin DOMAIN newOrders[v]
  <2>1. newOrders = [newOrders EXCEPT ![w] = mine]
    BY <1>2 DEF TypeOK, mine
  <2> QED
    BY <1>1, <2>1
<1>9. /\ newOrders' = [v \in Workers |-> newOrders'[v]]
      /\ \A v \in Workers : Table(newOrders'[v], OrderIds, OrderRow)
      /\ newOrders'[w] = new
      /\ \A v \in Workers \ {w} : newOrders'[v] = newOrders[v]
  BY <1>2, <1>6, <1>7, <1>8, WriteEffect DEF TypeOK
<1>10. /\ stage' \in [Workers -> Stages] /\ todo' \in [Workers -> SUBSET Ids]
       /\ stage'[w] = "orders" /\ todo'[w] = todo[w] \ {o}
       /\ \A v \in Workers \ {w} : stage'[v] = stage[v] /\ todo'[v] = todo[v]
  <2>1. "orders" \in Stages /\ todo[w] \ {o} \in SUBSET Ids
    BY <1>2 DEF Stages, TypeOK, Ids
  <2> QED
    BY <1>1, <1>2, <2>1, GotoEffect
<1>11. TypeOK'
  BY <1>1, <1>2, <1>9, <1>10 DEF TypeOK, Stages, Ids, tables, history
<1>12. \A v \in Workers \ {w} : Same(v)
  BY <1>1, <1>9, <1>10 DEF Same
<1>13. WorkerOK(w)'
  <2>1. /\ request'[w] = r /\ newCustomers'[w] = Nothing /\ seen'[w] = seen[w]
        /\ customers' = customers /\ orders' = orders /\ DOMAIN Nothing = {}
    BY <1>1, <1>3, NothingTable DEF r, tables
  <2>2. StageOK(w)'
    BY <1>3, <1>10, <2>1 DEF StageOK
  <2>3. OrdersOK(w)'
    <3> SUFFICES ASSUME r.kind = "orders"
                 PROVE  /\ DOMAIN new \cap DOMAIN orders = {}
                        /\ \A x \in DOMAIN new : new[x].customer \in DOMAIN customers
                        /\ \A x \in todo[w] : r.orders[x].customer \in DOMAIN customers
      BY <1>9, <1>10, <2>1 DEF OrdersOK
    <3>1. /\ DOMAIN mine \cap DOMAIN orders = {}
          /\ \A x \in DOMAIN mine : mine[x].customer \in DOMAIN customers
          /\ \A x \in todo[w] : r.orders[x].customer \in DOMAIN customers
      BY <1>1, <1>2 DEF WorkerOK, OrdersOK, r, mine
    <3>2. row.customer \in DOMAIN customers
      BY <1>1, <3>1
    <3> HIDE DEF row
    <3> QED
      BY <1>7, <1>8, <3>1, <3>2
  <2>4. UpsertsOK(w)'
    BY <1>2, <1>3, <2>1 DEF WorkerOK, UpsertsOK
  <2> QED
    BY <2>2, <2>3, <2>4 DEF WorkerOK
<1>14. newCustomers'[w] = newCustomers[w] /\ IsFiniteSet(DOMAIN newCustomers'[w])
  BY <1>1 DEF IInv, FiniteOK
<1>15. IsFiniteSet(DOMAIN newOrders'[w])
  BY <1>6, <1>7, <1>9
<1>16. \A x \in DOMAIN newOrders'[w] :
           x \in DOMAIN newOrders[w] \/ \A v \in Workers \ {w} : x \notin DOMAIN newOrders[v]
  BY <1>7, <1>8, <1>9 DEF mine
<1> QED
  BY <1>1, <1>11, <1>12, <1>13, <1>14, <1>15, <1>16, LocalStep

\* The orders of a table all have dates.
LEMMA TableDated ==
    ASSUME NEW f, Table(f, OrderIds, OrderRow), IsFiniteSet(DOMAIN f), NEW c
    PROVE  Dated(OrdersOf(f, c))
<1>1. \A o \in DOMAIN f : f[o].ordered_at \in 1..MaxTime
  BY DEF Table, OrderRow
<1>2. /\ DOMAIN OrdersOf(f, c) \subseteq DOMAIN f
      /\ \A o \in DOMAIN OrdersOf(f, c) : OrdersOf(f, c)[o] = f[o]
  BY DEF OrdersOf
<1>3. IsFiniteSet(DOMAIN OrdersOf(f, c))
  BY <1>2, FS_Subset
<1> QED
  BY <1>1, <1>2, <1>3 DEF Dated

\* A customer is credited with the orders that were inserted for it.
LEMMA CreditCustomerStep ==
    ASSUME IInv, NEW w \in Workers, NEW c \in Customers, CreditCustomer(w, c)
    PROVE  IInv'
<1> DEFINE mine == newCustomers[w]
           ours == newOrders[w]
           row == Credited(customers[c], OrdersOf(ours, c))
           now == Put(mine, c, row)
<1>1. /\ stage[w] = "credit" /\ c \in todo[w]
      /\ \A v \in Workers \ {w} : c \notin DOMAIN newCustomers[v]
      /\ Goto(w, "credit", todo[w] \ {c})
      /\ newCustomers' = [newCustomers EXCEPT ![w] = now]
      /\ UNCHANGED <<tables, request, seen, newOrders, history>>
  BY DEF CreditCustomer, Take, Put
<1>2. TypeOK /\ WorkerOK(w)
  BY DEF IInv, WorkerOK
<1>3. request[w] # None /\ request[w].kind = "orders"
  BY <1>1, <1>2 DEF WorkerOK, StageOK
<1>4. /\ DOMAIN ours \cap DOMAIN orders = {}
      /\ \A o \in DOMAIN ours : ours[o].customer \in DOMAIN customers
      /\ DOMAIN mine \cup todo[w] = {ours[o].customer : o \in DOMAIN ours}
      /\ \A x \in DOMAIN mine : mine[x] = Credited(customers[x], OrdersOf(ours, x))
  BY <1>1, <1>2, <1>3 DEF WorkerOK, OrdersOK
<1>5. c \in DOMAIN customers
  BY <1>1, <1>4
<1>6. row \in CustomerRow
  <2>1. customers[c] \in CustomerRow
    BY <1>2, <1>5 DEF TypeOK, Table
  <2>2. Dated(OrdersOf(ours, c))
    BY <1>2, TableDated DEF TypeOK, IInv, FiniteOK
  <2> HIDE DEF ours
  <2> QED
    BY <2>1, <2>2, CreditedRow DEF Adds
<1>7. Table(mine, Customers, CustomerRow) /\ IsFiniteSet(DOMAIN mine)
  BY <1>2 DEF IInv, FiniteOK, TypeOK
<1>8. \A x \in DOMAIN mine : mine[x] = Credited(customers[x], OrdersOf(ours, x))
  BY <1>4
<1> HIDE DEF mine, ours
<1>9. /\ Table(now, Customers, CustomerRow) /\ IsFiniteSet(DOMAIN now)
      /\ DOMAIN now = DOMAIN mine \cup {c}
      /\ now[c] = row /\ \A x \in DOMAIN mine \ {c} : now[x] = mine[x]
  <2> HIDE DEF row
  <2>1. Replaces(Customers, CustomerRow, mine, c, row, now)
    BY <1>6, <1>7, OneRow
  <2> HIDE DEF now
  <2> QED
    BY <2>1 DEF Replaces
<1> HIDE DEF now
<1>10. /\ newCustomers' = [v \in Workers |-> newCustomers'[v]]
       /\ \A v \in Workers : Table(newCustomers'[v], Customers, CustomerRow)
       /\ newCustomers'[w] = now
       /\ \A v \in Workers \ {w} : newCustomers'[v] = newCustomers[v]
  BY <1>1, <1>2, <1>9, WriteEffect DEF TypeOK
<1>11. /\ stage' \in [Workers -> Stages] /\ todo' \in [Workers -> SUBSET Ids]
       /\ stage'[w] = "credit" /\ todo'[w] = todo[w] \ {c}
       /\ \A v \in Workers \ {w} : stage'[v] = stage[v] /\ todo'[v] = todo[v]
  <2>1. "credit" \in Stages /\ todo[w] \ {c} \in SUBSET Ids
    BY <1>2 DEF Stages, TypeOK, Ids
  <2> QED
    BY <1>1, <1>2, <2>1, GotoEffect
<1>12. TypeOK'
  BY <1>1, <1>2, <1>10, <1>11 DEF TypeOK, Stages, Ids, tables, history
<1>13. \A v \in Workers \ {w} : Same(v)
  BY <1>1, <1>10, <1>11 DEF Same
<1>14. WorkerOK(w)'
  <2>1. /\ request' = request /\ newOrders'[w] = ours /\ seen'[w] = seen[w]
        /\ customers' = customers /\ orders' = orders
    BY <1>1 DEF ours, tables
  <2>2. StageOK(w)'
    BY <1>3, <1>11, <2>1 DEF StageOK
  <2>3. OrdersOK(w)'
    <3>1. DOMAIN now \cup (todo[w] \ {c}) = {ours[o].customer : o \in DOMAIN ours}
      BY <1>1, <1>4, <1>9
    <3>2. \A x \in DOMAIN now : now[x] = Credited(customers[x], OrdersOf(ours, x))
      BY <1>8, <1>9
    <3> QED
      BY <1>4, <1>10, <1>11, <2>1, <3>1, <3>2 DEF OrdersOK
  <2>4. UpsertsOK(w)'
    BY <1>2, <1>3, <2>1 DEF WorkerOK, UpsertsOK
  <2> QED
    BY <2>2, <2>3, <2>4 DEF WorkerOK
<1>15. newOrders'[w] = newOrders[w] /\ IsFiniteSet(DOMAIN newOrders'[w])
  BY <1>1 DEF IInv, FiniteOK
<1>16. \A x \in DOMAIN newCustomers'[w] :
           x \in DOMAIN newCustomers[w] \/ \A v \in Workers \ {w} : x \notin DOMAIN newCustomers[v]
  BY <1>1, <1>9, <1>10 DEF mine
<1> QED
  BY <1>1, <1>9, <1>10, <1>12, <1>13, <1>14, <1>15, <1>16, LocalStep

\* A statement that is through with its rows hands over to the next one.
LEMMA NextStatementStep ==
    ASSUME IInv, NEW w \in Workers, NextStatement(w)
    PROVE  IInv'
<1> DEFINE ours == newOrders[w]
           credited == {ours[o].customer : o \in DOMAIN ours}
<1>1. /\ stage[w] \in {"customers", "orders", "credit"} /\ todo[w] = {}
      /\ IF stage[w] = "orders" /\ request[w].kind = "orders"
         THEN Goto(w, "credit", credited) ELSE Goto(w, "commit", {})
      /\ UNCHANGED <<tables, request, seen, newCustomers, newOrders, history>>
  BY DEF NextStatement
<1>2. TypeOK /\ WorkerOK(w)
  BY DEF IInv, WorkerOK
<1>3. credited \in SUBSET Ids
  BY <1>2 DEF TypeOK, Table, OrderRow, Ids
<1> HIDE DEF ours, credited
<1>4. PICK s \in Stages, ids \in SUBSET Ids :
          /\ Goto(w, s, ids)
          /\ \/ /\ stage[w] = "orders" /\ request[w].kind = "orders"
                /\ s = "credit" /\ ids = credited
             \/ /\ ~(stage[w] = "orders" /\ request[w].kind = "orders")
                /\ s = "commit" /\ ids = {}
  <2>1. "credit" \in Stages /\ "commit" \in Stages /\ {} \in SUBSET Ids
    BY DEF Stages
  <2>2. CASE stage[w] = "orders" /\ request[w].kind = "orders"
    BY <1>1, <1>3, <2>1, <2>2
  <2>3. CASE ~(stage[w] = "orders" /\ request[w].kind = "orders")
    BY <1>1, <2>1, <2>3
  <2> QED
    BY <2>2, <2>3
<1>5. /\ stage' \in [Workers -> Stages] /\ todo' \in [Workers -> SUBSET Ids]
      /\ stage'[w] = s /\ todo'[w] = ids
      /\ \A v \in Workers \ {w} : stage'[v] = stage[v] /\ todo'[v] = todo[v]
  BY <1>2, <1>4, GotoEffect
<1>6. TypeOK'
  BY <1>1, <1>2, <1>5 DEF TypeOK, Stages, Ids, tables, history
<1>7. \A v \in Workers \ {w} : Same(v)
  BY <1>1, <1>5 DEF Same
<1>8. WorkerOK(w)'
  <2>1. StageOK(w)'
    BY <1>1, <1>2, <1>4, <1>5 DEF WorkerOK, StageOK
  <2>2. OrdersOK(w)'
    <3> SUFFICES ASSUME request[w].kind = "orders" PROVE OrdersOK(w)'
      BY <1>1 DEF OrdersOK
    <3>1. /\ DOMAIN ours \cap DOMAIN orders = {}
          /\ \A o \in DOMAIN ours : ours[o].customer \in DOMAIN customers
          /\ \A x \in DOMAIN newCustomers[w] :
                 newCustomers[w][x] = Credited(customers[x], OrdersOf(ours, x))
      BY <1>2 DEF WorkerOK, OrdersOK, ours
    <3>2. DOMAIN newCustomers[w] \cup ids = credited
      <4>1. CASE stage[w] = "orders"
        BY <1>2, <1>4, <4>1, NothingTable DEF WorkerOK, StageOK
      <4>2. CASE stage[w] = "credit"
        BY <1>1, <1>2, <1>4, <4>2 DEF WorkerOK, OrdersOK, ours, credited
      <4> QED
        BY <1>1, <1>2, <4>1, <4>2 DEF WorkerOK, StageOK
    <3> QED
      BY <1>1, <1>4, <1>5, <3>1, <3>2 DEF OrdersOK, ours, credited, tables
  <2>3. UpsertsOK(w)'
    BY <1>1, <1>2 DEF WorkerOK, UpsertsOK, Stored, tables
  <2> QED
    BY <2>1, <2>2, <2>3 DEF WorkerOK
<1>9. IsFiniteSet(DOMAIN newCustomers'[w]) /\ IsFiniteSet(DOMAIN newOrders'[w])
  BY <1>1 DEF IInv, FiniteOK
<1> QED
  BY <1>1, <1>6, <1>7, <1>8, <1>9, LocalStep

-----------------------------------------------------------------------------
(* Commits. *)

\* What a commit does to the tables.
LEMMA CommitTables ==
    ASSUME IInv, NEW w \in Workers, Commit(w)
    PROVE  /\ RequestRows(request[w])
           /\ Table(customers', Customers, CustomerRow) /\ IsFiniteSet(DOMAIN customers')
           /\ DOMAIN customers' = DOMAIN customers \cup DOMAIN newCustomers[w]
           /\ \A c \in DOMAIN newCustomers[w] : customers'[c] = newCustomers[w][c]
           /\ \A c \in DOMAIN customers \ DOMAIN newCustomers[w] : customers'[c] = customers[c]
           /\ Table(orders', OrderIds, OrderRow)
           /\ DOMAIN orders' = DOMAIN orders \cup DOMAIN newOrders[w]
<1>1. /\ stage[w] = "commit"
      /\ customers' = Over(newCustomers[w], customers)
      /\ orders' = Over(newOrders[w], orders)
  BY DEF Commit
<1>2. RequestRows(request[w])
  BY <1>1, RequestOf DEF IInv, StageOK
<1>3. /\ Table(customers, Customers, CustomerRow) /\ IsFiniteSet(DOMAIN customers)
      /\ Table(newCustomers[w], Customers, CustomerRow) /\ IsFiniteSet(DOMAIN newCustomers[w])
      /\ Table(orders, OrderIds, OrderRow) /\ Table(newOrders[w], OrderIds, OrderRow)
  BY DEF IInv, TypeOK, FiniteOK
<1>4. Table(customers', Customers, CustomerRow) /\ IsFiniteSet(DOMAIN customers')
  BY <1>1, <1>3, OverTable
<1>5. Table(orders', OrderIds, OrderRow)
  BY <1>1, <1>3, OverTable
<1>6. /\ DOMAIN customers' = DOMAIN customers \cup DOMAIN newCustomers[w]
      /\ \A c \in DOMAIN newCustomers[w] : customers'[c] = newCustomers[w][c]
      /\ \A c \in DOMAIN customers \ DOMAIN newCustomers[w] : customers'[c] = customers[c]
      /\ DOMAIN orders' = DOMAIN orders \cup DOMAIN newOrders[w]
  BY <1>1 DEF Over
<1> QED
  BY <1>2, <1>4, <1>5, <1>6

\* What the other requests have written is not touched by it: they wrote other rows.
LEMMA CommitOthers ==
    ASSUME IInv, NEW w \in Workers, Commit(w), NEW v \in Workers, v # w, Same(v)
    PROVE  WorkerOK(v)'
<1>1. /\ DOMAIN newCustomers[v] \cap DOMAIN newCustomers[w] = {}
      /\ DOMAIN newOrders[v] \cap DOMAIN newOrders[w] = {}
  BY DEF IInv, Exclusive
<1>2. /\ DOMAIN customers' = DOMAIN customers \cup DOMAIN newCustomers[w]
      /\ \A c \in DOMAIN customers \ DOMAIN newCustomers[w] : customers'[c] = customers[c]
      /\ DOMAIN orders' = DOMAIN orders \cup DOMAIN newOrders[w]
  BY CommitTables
<1>3. WorkerOK(v)
  BY DEF IInv, WorkerOK
<1>4. StageOK(v)'
  BY <1>3 DEF WorkerOK, Same, StageOK
<1>5. OrdersOK(v)'
  <2> SUFFICES ASSUME request[v].kind = "orders" PROVE OrdersOK(v)'
    BY DEF OrdersOK, Same
  <2>1. DOMAIN newOrders[v] \cap DOMAIN orders' = {}
    BY <1>1, <1>2, <1>3 DEF WorkerOK, OrdersOK
  <2>2. \A o \in DOMAIN newOrders[v] : newOrders[v][o].customer \in DOMAIN customers
    BY <1>3 DEF WorkerOK, OrdersOK
  <2>3. stage[v] = "orders" => \A o \in todo[v] : request[v].orders[o].customer \in DOMAIN customers
    BY <1>3 DEF WorkerOK, OrdersOK
  <2>4. stage[v] \in {"credit", "commit"} =>
            DOMAIN newCustomers[v] \cup todo[v] = {newOrders[v][o].customer : o \in DOMAIN newOrders[v]}
    BY <1>3 DEF WorkerOK, OrdersOK
  <2>5. \A c \in DOMAIN newCustomers[v] :
            newCustomers[v][c] = Credited(customers'[c], OrdersOf(newOrders[v], c))
    <3>1. stage[v] \notin {"idle", "select", "customers", "orders"} \/ newCustomers[v] = Nothing
      BY <1>3 DEF WorkerOK, StageOK
    <3>2. CASE newCustomers[v] = Nothing
      BY <3>2, NothingTable
    <3>3. CASE stage[v] \in {"credit", "commit"}
      <4> SUFFICES ASSUME NEW c \in DOMAIN newCustomers[v]
                   PROVE  newCustomers[v][c] = Credited(customers'[c], OrdersOf(newOrders[v], c))
        OBVIOUS
      <4>1. c \in DOMAIN customers
        BY <2>2, <2>4, <3>3
      <4>2. customers'[c] = customers[c]
        BY <1>1, <1>2, <4>1
      <4> QED
        BY <1>3, <4>2 DEF WorkerOK, OrdersOK
    <3> QED
      BY <3>1, <3>2, <3>3 DEF IInv, TypeOK
  <2> QED
    BY <1>2, <2>1, <2>2, <2>3, <2>4, <2>5 DEF OrdersOK, Same
<1>6. UpsertsOK(v)'
  <2>1. \A c \in DOMAIN newCustomers[v] : Stored(c)' = Stored(c)
    BY <1>1, <1>2 DEF Stored
  <2> QED
    BY <1>2, <1>3, <2>1 DEF WorkerOK, UpsertsOK, Same
<1> QED
  BY <1>4, <1>5, <1>6 DEF WorkerOK

\* Afterwards w has nothing written; a load that committed its customers goes on.
LEMMA CommitSelf ==
    ASSUME IInv, NEW w \in Workers, Commit(w)
    PROVE  /\ stage' \in [Workers -> Stages] /\ todo' \in [Workers -> SUBSET Ids]
           /\ request' \in [Workers -> {Rows(r) : r \in Requests} \cup {None}]
           /\ seen' \in [Workers -> SUBSET Customers]
           /\ newCustomers' = [v \in Workers |-> newCustomers'[v]]
           /\ newOrders' = [v \in Workers |-> newOrders'[v]]
           /\ \A v \in Workers : /\ Table(newCustomers'[v], Customers, CustomerRow)
                                /\ Table(newOrders'[v], OrderIds, OrderRow)
           /\ newCustomers'[w] = Nothing /\ newOrders'[w] = Nothing
           /\ \A v \in Workers \ {w} : Same(v)
           /\ WorkerOK(w)'
<1>1. /\ stage[w] = "commit"
      /\ newCustomers' = [newCustomers EXCEPT ![w] = Nothing]
      /\ newOrders' = [newOrders EXCEPT ![w] = Nothing]
      /\ \/ /\ Goto(w, "select", {}) /\ request' = request /\ seen' = seen
         \/ /\ Goto(w, "idle", {})
            /\ request' = [request EXCEPT ![w] = None] /\ seen' = [seen EXCEPT ![w] = {}]
  BY DEF Commit, ForgetWrites, Leave
<1>2. TypeOK /\ StageOK(w) /\ UpsertsOK(w)
  BY DEF IInv
<1>3. PICK s \in {"select", "idle"}, r \in {request[w], None}, ids \in {seen[w], {}} :
          /\ Goto(w, s, {})
          /\ request' = [request EXCEPT ![w] = r]
          /\ seen' = [seen EXCEPT ![w] = ids]
          /\ s = "select" => r = request[w]
  <2>1. request = [request EXCEPT ![w] = request[w]] /\ seen = [seen EXCEPT ![w] = seen[w]]
    BY <1>2 DEF TypeOK
  <2> QED
    BY <1>1, <2>1
<1>4. /\ stage' \in [Workers -> Stages] /\ todo' \in [Workers -> SUBSET Ids]
      /\ stage'[w] = s /\ todo'[w] = {}
      /\ \A v \in Workers \ {w} : stage'[v] = stage[v] /\ todo'[v] = todo[v]
  <2>1. s \in Stages /\ {} \in SUBSET Ids
    BY DEF Stages
  <2> QED
    BY <1>2, <1>3, <2>1, GotoEffect
<1>5. /\ request' \in [Workers -> {Rows(x) : x \in Requests} \cup {None}]
      /\ seen' \in [Workers -> SUBSET Customers]
      /\ request'[w] = r /\ seen'[w] = ids
      /\ \A v \in Workers \ {w} : request'[v] = request[v] /\ seen'[v] = seen[v]
  BY <1>2, <1>3 DEF TypeOK
<1>6. /\ newCustomers' = [v \in Workers |-> newCustomers'[v]]
      /\ \A v \in Workers : Table(newCustomers'[v], Customers, CustomerRow)
      /\ newCustomers'[w] = Nothing
      /\ \A v \in Workers \ {w} : newCustomers'[v] = newCustomers[v]
  <2>1. Table(Nothing, Customers, CustomerRow)
    BY NothingTable
  <2> QED
    BY <1>1, <1>2, <2>1, WriteEffect DEF TypeOK
<1>7. /\ newOrders' = [v \in Workers |-> newOrders'[v]]
      /\ \A v \in Workers : Table(newOrders'[v], OrderIds, OrderRow)
      /\ newOrders'[w] = Nothing
      /\ \A v \in Workers \ {w} : newOrders'[v] = newOrders[v]
  <2>1. Table(Nothing, OrderIds, OrderRow)
    BY NothingTable
  <2> QED
    BY <1>1, <1>2, <2>1, WriteEffect DEF TypeOK
<1>8. \A v \in Workers \ {w} : Same(v)
  BY <1>4, <1>5, <1>6, <1>7 DEF Same
<1>9. WorkerOK(w)'
  <2>1. DOMAIN Nothing = {} /\ None.kind = "none"
    BY <1>2, NothingTable, RequestOf
  <2>2. StageOK(w)'
    BY <1>1, <1>2, <1>3, <1>4, <1>5, <1>6, <1>7, <2>1 DEF StageOK
  <2>3. OrdersOK(w)'
    BY <1>4, <1>6, <1>7, <2>1 DEF OrdersOK
  <2>4. UpsertsOK(w)'
    <3>1. ids \subseteq DOMAIN customers'
      BY <1>2, CommitTables DEF UpsertsOK
    <3> QED
      BY <1>5, <1>6, <2>1, <3>1 DEF UpsertsOK
  <2> QED
    BY <2>2, <2>3, <2>4 DEF WorkerOK
<1> QED
  BY <1>4, <1>5, <1>6, <1>7, <1>8, <1>9

\* The orders of ins for c that are not in known, with their dates.
SinceOf(ins, known, c) == OrdersOf([o \in DOMAIN ins \ known |-> ins[o]], c)

SinceIs(ins, known, c, f) ==
    /\ Dated(f)
    /\ DOMAIN f = {o \in DOMAIN ins \ known : ins[o].customer = c}
    /\ \A o \in DOMAIN f : f[o] = ins[o]

\* What SinceOf picks out of a table of orders.
LEMMA SinceOrders ==
    ASSUME NEW ins, Table(ins, OrderIds, OrderRow), IsFiniteSet(DOMAIN ins), NEW known, NEW c
    PROVE  SinceIs(ins, known, c, SinceOf(ins, known, c))
<1> DEFINE rest == [o \in DOMAIN ins \ known |-> ins[o]]
<1>1. /\ DOMAIN rest = DOMAIN ins \ known /\ \A o \in DOMAIN rest : rest[o] = ins[o]
      /\ Table(rest, OrderIds, OrderRow)
  BY DEF Table
<1>2. IsFiniteSet(DOMAIN rest)
  BY <1>1, FS_Subset
<1> HIDE DEF rest
<1>3. Dated(OrdersOf(rest, c))
  BY <1>1, <1>2, TableDated
<1>4. /\ DOMAIN OrdersOf(rest, c) = {o \in DOMAIN rest : rest[o].customer = c}
      /\ \A o \in DOMAIN OrdersOf(rest, c) : OrdersOf(rest, c)[o] = rest[o]
  BY DEF OrdersOf
<1>5. SinceIs(ins, known, c, OrdersOf(rest, c))
  BY <1>1, <1>3, <1>4 DEF SinceIs
<1> QED
  BY <1>5 DEF SinceOf, rest

\* What a commit does to the histories.
LEMMA CommitHistory ==
    ASSUME IInv, NEW w \in Workers, Commit(w)
    PROVE  /\ figures' \in [Customers -> [row : CustomerRow, orders : SUBSET OrderIds]]
           /\ Table(inserted', OrderIds, OrderRow)
           /\ reported' \in [customers : Nat, orders : Nat]
           /\ HistoryOK' /\ IsFiniteSet(DOMAIN inserted')
<1> DEFINE kind == request[w].kind
           named == DOMAIN request[w].customers
           written == newCustomers[w]
           ours == newOrders[w]
<1>1. /\ stage[w] = "commit"
      /\ inserted' = IF kind = "orders" THEN Over(ours, inserted) ELSE inserted
      /\ figures' = [c \in Customers |->
             IF c \in DOMAIN written /\ kind \in {"upload", "load"}
             THEN [row |-> written[c], orders |-> DOMAIN inserted] ELSE figures[c]]
      /\ reported' =
             [customers |-> IF kind \in {"customers", "upload"}
                            THEN reported.customers + Cardinality(named \ seen[w])
                            ELSE reported.customers,
              orders    |-> IF kind = "orders"
                            THEN reported.orders + Cardinality(DOMAIN ours)
                            ELSE reported.orders]
  BY DEF Commit, Record
<1>2. /\ TypeOK /\ HistoryOK /\ OrdersOK(w)
      /\ IsFiniteSet(DOMAIN inserted) /\ IsFiniteSet(DOMAIN ours)
  BY DEF IInv, FiniteOK
<1>3. /\ DOMAIN customers' = DOMAIN customers \cup DOMAIN written
      /\ DOMAIN orders' = DOMAIN orders \cup DOMAIN ours
      /\ IsFiniteSet(named)
  BY CommitTables DEF RequestRows
<1>4. /\ Table(written, Customers, CustomerRow) /\ Table(ours, OrderIds, OrderRow)
      /\ Table(inserted, OrderIds, OrderRow)
      /\ figures \in [Customers -> [row : CustomerRow, orders : SUBSET OrderIds]]
      /\ reported \in [customers : Nat, orders : Nat]
  BY <1>2 DEF TypeOK
<1>5. kind = "orders" => \A o \in DOMAIN ours : ours[o].customer \in DOMAIN customers
  BY <1>2 DEF OrdersOK
<1>6. Cardinality(named \ seen[w]) \in Nat /\ Cardinality(DOMAIN ours) \in Nat
  BY <1>2, <1>3, FS_Difference, FS_CardinalityType
<1> HIDE DEF kind, named, written, ours
<1>7. reported' \in [customers : Nat, orders : Nat]
  BY <1>1, <1>4, <1>6
<1>8. /\ DOMAIN written \subseteq Customers /\ DOMAIN inserted \subseteq OrderIds
      /\ \A c \in DOMAIN written : written[c] \in CustomerRow
  BY <1>4 DEF Table
<1>9. figures' \in [Customers -> [row : CustomerRow, orders : SUBSET OrderIds]]
  BY <1>1, <1>4, <1>8
<1>10. Table(inserted', OrderIds, OrderRow) /\ IsFiniteSet(DOMAIN inserted')
  <2>1. Table(Over(ours, inserted), OrderIds, OrderRow) /\ IsFiniteSet(DOMAIN Over(ours, inserted))
    BY <1>2, <1>4, OverTable
  <2> QED
    BY <1>1, <1>2, <1>4, <2>1
<1>11. /\ DOMAIN inserted \subseteq DOMAIN inserted' /\ DOMAIN inserted' \subseteq DOMAIN orders'
       /\ \A o \in DOMAIN inserted' : inserted'[o].customer \in DOMAIN customers
  <2>1. CASE kind = "orders"
    <3>1. /\ DOMAIN inserted' = DOMAIN ours \cup DOMAIN inserted
          /\ \A o \in DOMAIN ours : inserted'[o] = ours[o]
          /\ \A o \in DOMAIN inserted \ DOMAIN ours : inserted'[o] = inserted[o]
      BY <1>1, <2>1 DEF Over
    <3> QED
      BY <1>2, <1>3, <1>5, <2>1, <3>1 DEF HistoryOK
  <2>2. CASE kind # "orders"
    BY <1>1, <1>2, <1>3, <2>2 DEF HistoryOK
  <2> QED
    BY <2>1, <2>2
<1>12. \A c \in Customers : figures'[c].orders \subseteq DOMAIN inserted'
  BY <1>1, <1>2, <1>11 DEF HistoryOK
<1>13. \A c \in Customers \ DOMAIN customers' : figures'[c].row = NewCustomer
  BY <1>1, <1>2, <1>3 DEF HistoryOK
<1>14. HistoryOK'
  BY <1>3, <1>11, <1>12, <1>13 DEF HistoryOK
<1> QED
  BY <1>7, <1>9, <1>10, <1>14

\* CountersSinceFigures, of one customer.
CounterOK(c) ==
    /\ customers[c] = Credited(figures[c].row, SinceOf(inserted, figures[c].orders, c))
    /\ \A o \in DOMAIN inserted :
           inserted[o].customer = c /\ ~customers[c].tenant =>
               inserted[o].ordered_at <= customers[c].last_order_at

\* Nothing inserted for c yet: its counters are the figures.
LEMMA CounterAsFigures ==
    ASSUME NEW c, NEW row \in CustomerRow, NEW ins, NEW known,
           Table(ins, OrderIds, OrderRow), IsFiniteSet(DOMAIN ins),
           \A o \in DOMAIN ins \ known : ins[o].customer # c
    PROVE  Credited(row, SinceOf(ins, known, c)) = row
<1> DEFINE f == SinceOf(ins, known, c)
<1>1. SinceIs(ins, known, c, f)
  BY SinceOrders
<1> HIDE DEF f
<1>2. DOMAIN f = {}
  BY <1>1 DEF SinceIs
<1>3. Credited(row, f) = row
  BY <1>2, CreditedNone
<1> QED
  BY <1>3 DEF f

\* Bulk orders: the increments are for the orders inserted, and for no others.
LEMMA OrdersCounters ==
    ASSUME IInv, NEW w \in Workers, Commit(w), request[w].kind = "orders",
           NEW c \in DOMAIN customers'
    PROVE  CounterOK(c)'
<1> DEFINE ours == newOrders[w]
           K == figures[c].orders
           row == figures[c].row
           f == SinceOf(inserted, K, c)
           g == OrdersOf(ours, c)
           h == SinceOf(inserted', K, c)
           old == customers[c]
           new == customers'[c]
<1>1. /\ stage[w] = "commit"
      /\ inserted' = Over(ours, inserted)
      /\ figures' = [x \in Customers |-> figures[x]]
  BY DEF Commit, Record
<1>2. /\ TypeOK /\ HistoryOK /\ OrdersOK(w) /\ StageOK(w)
      /\ IsFiniteSet(DOMAIN inserted) /\ IsFiniteSet(DOMAIN ours)
  BY DEF IInv, FiniteOK
<1>3. /\ DOMAIN newCustomers[w] = {ours[o].customer : o \in DOMAIN ours}
      /\ \A o \in DOMAIN ours : ours[o].customer \in DOMAIN customers
      /\ \A x \in DOMAIN newCustomers[w] :
             newCustomers[w][x] = Credited(customers[x], OrdersOf(ours, x))
      /\ DOMAIN ours \cap DOMAIN inserted = {}
  BY <1>1, <1>2 DEF OrdersOK, StageOK, HistoryOK
<1>4. /\ c \in DOMAIN customers /\ c \in Customers
      /\ c \in DOMAIN newCustomers[w] => new = newCustomers[w][c]
      /\ c \notin DOMAIN newCustomers[w] => new = old
  <2>1. /\ DOMAIN customers' = DOMAIN customers \cup DOMAIN newCustomers[w]
        /\ \A x \in DOMAIN newCustomers[w] : customers'[x] = newCustomers[w][x]
        /\ \A x \in DOMAIN customers \ DOMAIN newCustomers[w] : customers'[x] = customers[x]
    BY CommitTables
  <2>2. DOMAIN newCustomers[w] \subseteq DOMAIN customers
    BY <1>3
  <2>3. DOMAIN customers \subseteq Customers
    BY <1>2 DEF TypeOK, Table
  <2> QED
    BY <2>1, <2>2, <2>3
<1>5. /\ row \in CustomerRow /\ K \subseteq DOMAIN inserted
      /\ figures'[c] = figures[c]
      /\ old \in CustomerRow
      /\ Table(inserted, OrderIds, OrderRow) /\ Table(ours, OrderIds, OrderRow)
  BY <1>1, <1>2, <1>4 DEF TypeOK, HistoryOK, Table
<1>6. /\ old = Credited(row, f)
      /\ \A o \in DOMAIN inserted :
             inserted[o].customer = c /\ ~old.tenant => inserted[o].ordered_at <= old.last_order_at
  BY <1>4 DEF IInv, CountersSinceFigures, Since, SinceOf
<1>7. SinceIs(inserted, K, c, f) /\ SinceIs(inserted', K, c, h)
  <2>1. Table(inserted', OrderIds, OrderRow) /\ IsFiniteSet(DOMAIN inserted')
    BY CommitHistory
  <2> HIDE DEF K
  <2> QED
    BY <1>2, <1>5, <2>1, SinceOrders
<1>8. /\ DOMAIN inserted' = DOMAIN ours \cup DOMAIN inserted
      /\ \A o \in DOMAIN ours : inserted'[o] = ours[o]
      /\ \A o \in DOMAIN inserted : inserted'[o] = inserted[o]
  BY <1>1, <1>3 DEF Over
<1>9. /\ Dated(g)
      /\ DOMAIN g = {o \in DOMAIN ours : ours[o].customer = c}
      /\ \A o \in DOMAIN g : g[o] = ours[o]
  <2> HIDE DEF ours
  <2>1. Dated(g)
    BY <1>2, <1>5, TableDated
  <2> QED
    BY <2>1 DEF OrdersOf
<1>10. /\ DOMAIN f \cap DOMAIN g = {} /\ DOMAIN h = DOMAIN f \cup DOMAIN g
       /\ \A o \in DOMAIN f : h[o] = f[o]
       /\ \A o \in DOMAIN g : h[o] = g[o]
  <2> HIDE DEF ours, K, f, g, h
  <2>1. DOMAIN ours \cap K = {}
    BY <1>3, <1>5
  <2>2. DOMAIN h = DOMAIN f \cup DOMAIN g
    BY <1>7, <1>8, <1>9, <2>1 DEF SinceIs
  <2> QED
    BY <1>3, <1>7, <1>8, <1>9, <2>2 DEF SinceIs
<1>11. Dated(f)
  BY <1>7 DEF SinceIs
<1>12. c \in DOMAIN newCustomers[w] => new = Credited(old, g)
  BY <1>3, <1>4
<1>13. c \notin DOMAIN newCustomers[w] => DOMAIN g = {}
  BY <1>3, <1>9
<1> HIDE DEF f, g, h, K, row, old, new, ours
<1>14. Credited(Credited(row, f), g) = Credited(row, h)
  <2>1. row \in CustomerRow /\ Dated(f) /\ Dated(g)
    BY <1>5, <1>9, <1>11
  <2> QED
    BY ONLY <1>10, <2>1, CreditedTwice
<1>15. new = Credited(old, g) /\ Adds(old, g, new)
  <2>1. c \notin DOMAIN newCustomers[w] => new = Credited(old, g)
    BY <1>4, <1>5, <1>13, CreditedNone DEF old, new
  <2> QED
    BY <1>5, <1>9, <1>12, <2>1, CreditedRow
<1>16. new = Credited(row, h)
  BY <1>6, <1>14, <1>15
<1>17. ASSUME NEW o \in DOMAIN inserted', inserted'[o].customer = c, ~new.tenant
       PROVE  inserted'[o].ordered_at <= new.last_order_at
  <2>1. CASE o \in DOMAIN ours
    BY <1>8, <1>9, <1>15, <1>17, <2>1 DEF Adds
  <2>2. CASE o \in DOMAIN inserted
    <3>1. inserted[o].ordered_at <= old.last_order_at
      BY <1>6, <1>8, <1>15, <1>17, <2>2 DEF Adds
    <3>2. inserted[o].ordered_at \in Nat /\ old.last_order_at \in Nat /\ new.last_order_at \in Nat
      BY <1>5, <1>15, <2>2, RequestsAssumption DEF Adds, Table, OrderRow, CustomerRow
    <3> QED
      BY <1>8, <1>15, <2>2, <3>1, <3>2 DEF Adds
  <2> QED
    BY <1>8, <2>1, <2>2
<1> QED
  BY <1>5, <1>16, <1>17 DEF CounterOK, h, K, row, new

\* Everything else inserts no bulk orders: a row overwritten has new figures, a row
\* created has none, and bulk customers leave the others as they are.
LEMMA UpsertCounters ==
    ASSUME IInv, NEW w \in Workers, Commit(w), request[w].kind # "orders",
           NEW c \in DOMAIN customers'
    PROVE  CounterOK(c)'
<1> DEFINE kind == request[w].kind
           written == newCustomers[w]
<1>1. /\ inserted' = inserted
      /\ figures' = [x \in Customers |->
             IF x \in DOMAIN written /\ kind \in {"upload", "load"}
             THEN [row |-> written[x], orders |-> DOMAIN inserted] ELSE figures[x]]
  BY DEF Commit, Record
<1>2. /\ TypeOK /\ HistoryOK /\ UpsertsOK(w) /\ IsFiniteSet(DOMAIN inserted)
  BY DEF IInv, FiniteOK
<1>3. /\ c \in Customers /\ kind \in {"customers", "upload", "load"}
      /\ c \in DOMAIN customers \/ c \in DOMAIN written
      /\ c \in DOMAIN written => customers'[c] = written[c] /\ written[c] \in CustomerRow
      /\ c \notin DOMAIN written => c \in DOMAIN customers /\ customers'[c] = customers[c]
  <2>1. /\ RequestRows(request[w]) /\ Table(customers', Customers, CustomerRow)
        /\ DOMAIN customers' = DOMAIN customers \cup DOMAIN written
        /\ \A x \in DOMAIN written : customers'[x] = written[x]
        /\ \A x \in DOMAIN customers \ DOMAIN written : customers'[x] = customers[x]
    BY CommitTables
  <2>2. Table(written, Customers, CustomerRow)
    BY <1>2 DEF TypeOK
  <2> QED
    BY <2>1, <2>2 DEF RequestRows, Kinds, Table
<1>4. Table(inserted, OrderIds, OrderRow) /\ figures[c].row \in CustomerRow
  BY <1>2, <1>3 DEF TypeOK
<1>5. c \in DOMAIN customers => CounterOK(c)
  BY DEF IInv, CountersSinceFigures, CounterOK, Since, SinceOf
<1>6. c \notin DOMAIN customers => \A o \in DOMAIN inserted : inserted[o].customer # c
  BY <1>2 DEF HistoryOK
<1>7. c \in DOMAIN written =>
          /\ kind \in {"customers", "upload"} => /\ written[c].tenant = Stored(c).tenant
                                                 /\ written[c].last_order_at = Stored(c).last_order_at
          /\ kind = "load" => written[c].tenant
          /\ kind = "customers" => written[c] = Stored(c)
  BY <1>2 DEF UpsertsOK
<1> HIDE DEF kind, written
<1>8. CASE c \in DOMAIN written /\ kind \in {"upload", "load"}
  <2>1. figures'[c] = [row |-> written[c], orders |-> DOMAIN inserted] /\ customers'[c] = written[c]
    BY <1>1, <1>3, <1>8
  <2>2. Credited(written[c], SinceOf(inserted, DOMAIN inserted, c)) = written[c]
    BY <1>2, <1>3, <1>4, <1>8, CounterAsFigures
  <2>3. ASSUME NEW o \in DOMAIN inserted, inserted[o].customer = c, ~written[c].tenant
        PROVE  inserted[o].ordered_at <= written[c].last_order_at
    <3>1. c \in DOMAIN customers
      BY <1>6, <2>3
    <3>2. written[c].tenant = customers[c].tenant /\ written[c].last_order_at = customers[c].last_order_at
      BY <1>7, <1>8, <2>3, <3>1 DEF Stored
    <3> QED
      BY <1>5, <2>3, <3>1, <3>2 DEF CounterOK
  <2> QED
    BY <1>1, <2>1, <2>2, <2>3 DEF CounterOK
<1>9. CASE ~(c \in DOMAIN written /\ kind \in {"upload", "load"}) /\ c \in DOMAIN customers
  <2>1. figures'[c] = figures[c]
    BY <1>1, <1>3, <1>9
  <2>2. customers'[c] = customers[c]
    BY <1>3, <1>7, <1>9 DEF Stored
  <2> QED
    BY <1>1, <1>5, <1>9, <2>1, <2>2 DEF CounterOK
<1>10. CASE ~(c \in DOMAIN written /\ kind \in {"upload", "load"}) /\ c \notin DOMAIN customers
  <2>1. figures'[c] = figures[c] /\ figures[c].row = NewCustomer
    BY <1>1, <1>2, <1>3, <1>10 DEF HistoryOK
  <2>2. customers'[c] = NewCustomer
    BY <1>3, <1>7, <1>10 DEF Stored
  <2>3. Credited(NewCustomer, SinceOf(inserted, figures[c].orders, c)) = NewCustomer
    <3>1. NewCustomer \in CustomerRow /\ \A o \in DOMAIN inserted \ figures[c].orders : inserted[o].customer # c
      BY <1>4, <1>6, <1>10, <2>1
    <3> QED
      BY <1>2, <1>4, <3>1, CounterAsFigures
  <2> QED
    BY <1>1, <1>6, <1>10, <2>1, <2>2, <2>3 DEF CounterOK
<1> QED
  BY <1>8, <1>9, <1>10

\* The customers that no load knows of.
Untenanted == {c \in DOMAIN customers : ~customers[c].tenant}

\* A commit adds to them only customers that it calls new.
LEMMA CommitUntenanted ==
    ASSUME IInv, NEW w \in Workers, Commit(w)
    PROVE  IF request[w].kind \in {"customers", "upload"}
           THEN Untenanted' \subseteq Untenanted \cup (DOMAIN request[w].customers \ seen[w])
           ELSE Untenanted' \subseteq Untenanted
<1> DEFINE kind == request[w].kind
           written == newCustomers[w]
           ours == newOrders[w]
<1>1. /\ DOMAIN customers' = DOMAIN customers \cup DOMAIN written
      /\ \A x \in DOMAIN written : customers'[x] = written[x]
      /\ \A x \in DOMAIN customers \ DOMAIN written : customers'[x] = customers[x]
      /\ kind \in Kinds
  BY CommitTables DEF RequestRows
<1>2. TypeOK /\ UpsertsOK(w) /\ OrdersOK(w) /\ StageOK(w) /\ stage[w] = "commit"
  BY DEF IInv, Commit
<1>3. CASE kind \in {"customers", "upload"}
  BY <1>1, <1>2, <1>3 DEF UpsertsOK, Stored, Untenanted
<1>4. CASE kind = "load"
  BY <1>1, <1>2, <1>4 DEF UpsertsOK, Untenanted
<1>5. CASE kind = "orders"
  <2>1. /\ DOMAIN written = {ours[o].customer : o \in DOMAIN ours}
        /\ \A o \in DOMAIN ours : ours[o].customer \in DOMAIN customers
        /\ \A x \in DOMAIN written : written[x] = Credited(customers[x], OrdersOf(ours, x))
    BY <1>2, <1>5 DEF OrdersOK, StageOK
  <2>2. ASSUME NEW x \in DOMAIN written
        PROVE  x \in DOMAIN customers /\ written[x].tenant = customers[x].tenant
    <3>1. x \in DOMAIN customers
      BY <2>1
    <3>2. customers[x] \in CustomerRow
      BY <1>2, <3>1 DEF TypeOK, Table
    <3>3. Dated(OrdersOf(ours, x))
      BY <1>2, TableDated DEF TypeOK, IInv, FiniteOK
    <3>4. Adds(customers[x], OrdersOf(ours, x), written[x])
      <4>1. Adds(customers[x], OrdersOf(ours, x), Credited(customers[x], OrdersOf(ours, x)))
        BY <3>2, <3>3, CreditedRow
      <4> QED
        BY <2>1, <4>1
    <3> QED
      BY <3>1, <3>4 DEF Adds
  <2> QED
    BY <1>1, <1>5, <2>2 DEF Untenanted
<1> QED
  BY <1>1, <1>3, <1>4, <1>5 DEF Kinds

\* The answer counts what was inserted, and at least the customers created.
LEMMA CommitAnswers ==
    ASSUME IInv, NEW w \in Workers, Commit(w)
    PROVE  AnswersAddUp'
<1> DEFINE kind == request[w].kind
           fresh == DOMAIN request[w].customers \ seen[w]
           ours == newOrders[w]
<1>1. /\ inserted' = IF kind = "orders" THEN Over(ours, inserted) ELSE inserted
      /\ reported' =
             [customers |-> IF kind \in {"customers", "upload"}
                            THEN reported.customers + Cardinality(fresh)
                            ELSE reported.customers,
              orders    |-> IF kind = "orders"
                            THEN reported.orders + Cardinality(DOMAIN ours)
                            ELSE reported.orders]
  BY DEF Commit, Record
<1>2. /\ IsFiniteSet(DOMAIN customers) /\ IsFiniteSet(DOMAIN inserted)
      /\ IsFiniteSet(DOMAIN ours) /\ IsFiniteSet(fresh)
  BY CommitTables, FS_Difference DEF IInv, FiniteOK, RequestRows
<1>3. /\ reported.orders = Cardinality(DOMAIN inserted)
      /\ Cardinality(Untenanted) <= reported.customers
      /\ reported.orders \in Nat /\ reported.customers \in Nat
  BY DEF IInv, AnswersAddUp, TypeOK, Untenanted
<1>4. kind = "orders" => DOMAIN ours \cap DOMAIN inserted = {}
  BY DEF IInv, OrdersOK, HistoryOK
<1>5. IF kind \in {"customers", "upload"} THEN Untenanted' \subseteq Untenanted \cup fresh
      ELSE Untenanted' \subseteq Untenanted
  BY CommitUntenanted
<1>6. IsFiniteSet(Untenanted)
  BY <1>2, FS_Subset DEF Untenanted
<1> HIDE DEF kind, fresh, ours
<1>7. reported'.orders = Cardinality(DOMAIN inserted')
  <2>1. CASE kind = "orders"
    <3>1. DOMAIN inserted' = DOMAIN ours \cup DOMAIN inserted
      BY <1>1, <2>1 DEF Over
    <3>2. Cardinality(DOMAIN ours \cap DOMAIN inserted) = 0
      BY <1>4, <2>1, FS_EmptySet
    <3>3. Cardinality(DOMAIN ours) \in Nat /\ Cardinality(DOMAIN inserted) \in Nat
      BY <1>2, FS_CardinalityType
    <3>4. Cardinality(DOMAIN inserted') =
              Cardinality(DOMAIN ours) + Cardinality(DOMAIN inserted)
                  - Cardinality(DOMAIN ours \cap DOMAIN inserted)
      BY <1>2, <3>1, FS_Union
    <3>5. reported'.orders = reported.orders + Cardinality(DOMAIN ours)
      BY <1>1, <2>1
    <3> QED
      BY <1>3, <3>2, <3>3, <3>4, <3>5
  <2>2. CASE kind # "orders"
    BY <1>1, <1>3, <2>2
  <2> QED
    BY <2>1, <2>2
<1>8. Cardinality(Untenanted') <= reported'.customers
  <2>1. Cardinality(Untenanted) \in Nat /\ Cardinality(fresh) \in Nat
    BY <1>2, <1>6, FS_CardinalityType
  <2>2. CASE kind \in {"customers", "upload"}
    <3>1. IsFiniteSet(Untenanted \cap fresh)
      BY <1>2, FS_Subset
    <3>2. Cardinality(Untenanted \cap fresh) \in Nat
      BY <3>1, FS_CardinalityType
    <3>3. /\ IsFiniteSet(Untenanted \cup fresh)
          /\ Cardinality(Untenanted \cup fresh) =
                 Cardinality(Untenanted) + Cardinality(fresh) - Cardinality(Untenanted \cap fresh)
      BY <1>2, <1>6, FS_Union
    <3>4. Untenanted' \subseteq Untenanted \cup fresh
      BY <1>5, <2>2
    <3>5. Cardinality(Untenanted') <= Cardinality(Untenanted \cup fresh) /\ IsFiniteSet(Untenanted')
      BY <3>3, <3>4, FS_Subset
    <3>6. Cardinality(Untenanted') \in Nat
      BY <3>5, FS_CardinalityType
    <3>7. reported'.customers = reported.customers + Cardinality(fresh)
      BY <1>1, <2>2
    <3> QED
      BY <1>3, <2>1, <3>2, <3>3, <3>5, <3>6, <3>7
  <2>3. CASE kind \notin {"customers", "upload"}
    <3>1. Untenanted' \subseteq Untenanted
      BY <1>5, <2>3
    <3>2. Cardinality(Untenanted') <= Cardinality(Untenanted) /\ IsFiniteSet(Untenanted')
      BY <1>6, <3>1, FS_Subset
    <3>3. Cardinality(Untenanted') \in Nat
      BY <3>2, FS_CardinalityType
    <3>4. reported'.customers = reported.customers
      BY <1>1, <2>3
    <3> QED
      BY <1>3, <2>1, <3>2, <3>3, <3>4
  <2> QED
    BY <2>2, <2>3
<1> QED
  BY <1>7, <1>8 DEF AnswersAddUp, Untenanted

\* A commit keeps the whole invariant.
LEMMA CommitStep ==
    ASSUME IInv, NEW w \in Workers, Commit(w)
    PROVE  IInv'
<1>1. /\ stage' \in [Workers -> Stages] /\ todo' \in [Workers -> SUBSET Ids]
      /\ request' \in [Workers -> {Rows(r) : r \in Requests} \cup {None}]
      /\ seen' \in [Workers -> SUBSET Customers]
      /\ newCustomers' = [v \in Workers |-> newCustomers'[v]]
      /\ newOrders' = [v \in Workers |-> newOrders'[v]]
      /\ \A v \in Workers : /\ Table(newCustomers'[v], Customers, CustomerRow)
                           /\ Table(newOrders'[v], OrderIds, OrderRow)
      /\ newCustomers'[w] = Nothing /\ newOrders'[w] = Nothing
      /\ \A v \in Workers \ {w} : Same(v)
      /\ WorkerOK(w)'
  BY CommitSelf
<1>2. /\ Table(customers', Customers, CustomerRow) /\ IsFiniteSet(DOMAIN customers')
      /\ Table(orders', OrderIds, OrderRow)
  BY CommitTables
<1>3. /\ figures' \in [Customers -> [row : CustomerRow, orders : SUBSET OrderIds]]
      /\ Table(inserted', OrderIds, OrderRow)
      /\ reported' \in [customers : Nat, orders : Nat]
      /\ HistoryOK' /\ IsFiniteSet(DOMAIN inserted')
  BY CommitHistory
<1>4. TypeOK'
  BY <1>1, <1>2, <1>3 DEF TypeOK, Stages, Ids
<1>5. \A v \in Workers : WorkerOK(v)'
  <2>1. \A v \in Workers \ {w} : WorkerOK(v)'
    BY <1>1, CommitOthers
  <2> QED
    BY <1>1, <2>1
<1>6. Exclusive'
  BY <1>1, NothingTable DEF IInv, Exclusive, Same
<1>7. FiniteOK'
  BY <1>1, <1>2, <1>3, NothingTable DEF IInv, FiniteOK, Same
<1>8. CountersSinceFigures'
  <2>1. \A c \in DOMAIN customers' : CounterOK(c)'
    BY OrdersCounters, UpsertCounters
  <2> QED
    BY <2>1 DEF CounterOK, CountersSinceFigures, Since, SinceOf
<1>9. AnswersAddUp'
  BY CommitAnswers
<1> QED
  BY <1>3, <1>4, <1>5, <1>6, <1>7, <1>8, <1>9 DEF IInv, WorkerOK

-----------------------------------------------------------------------------
(* The invariant and what follows from it. *)

\* An empty database satisfies it.
LEMMA InitInvariant == Init => IInv
<1> SUFFICES ASSUME Init PROVE IInv
  OBVIOUS
<1>1. /\ \A D, R : Table(Nothing, D, R)
      /\ DOMAIN Nothing = {} /\ IsFiniteSet(DOMAIN Nothing)
  BY NothingTable
<1>2. NewCustomer \in CustomerRow
  BY RequestsAssumption DEF NewCustomer, CustomerRow
<1>3. None.kind = "none"
  BY DEF None
<1>4. TypeOK
  <2>1. figures \in [Customers -> [row : CustomerRow, orders : SUBSET OrderIds]]
    BY <1>2 DEF Init
  <2>2. /\ newCustomers = [w \in Workers |-> newCustomers[w]]
        /\ newOrders = [w \in Workers |-> newOrders[w]]
    BY DEF Init
  <2> QED
    BY <1>1, <2>1, <2>2 DEF Init, TypeOK
<1>5. \A w \in Workers : StageOK(w) /\ OrdersOK(w) /\ UpsertsOK(w)
  BY <1>1, <1>3 DEF Init, StageOK, OrdersOK, UpsertsOK
<1>6. Exclusive /\ HistoryOK /\ FiniteOK
  BY <1>1 DEF Init, Exclusive, HistoryOK, FiniteOK
<1>7. CountersSinceFigures
  BY <1>1 DEF Init, CountersSinceFigures
<1>8. AnswersAddUp
  <2>1. {c \in DOMAIN customers : ~customers[c].tenant} = {} /\ DOMAIN inserted = {}
    BY <1>1 DEF Init
  <2>2. Cardinality({}) = 0
    BY FS_EmptySet
  <2> QED
    BY <2>1, <2>2 DEF Init, AnswersAddUp
<1> QED
  BY <1>4, <1>5, <1>6, <1>7, <1>8 DEF IInv

\* Every step keeps it.
LEMMA NextInvariant == IInv /\ [Next]_vars => IInv'
<1> SUFFICES ASSUME IInv, [Next]_vars PROVE IInv'
  OBVIOUS
<1>1. CASE UNCHANGED vars
  <2>1. UNCHANGED <<tables, request, seen, newCustomers, newOrders, history, stage, todo>>
    BY <1>1 DEF vars, tables, history
  <2>2. \A v \in Workers : Same(v)
    BY <2>1 DEF Same
  <2>3. TypeOK'
    BY <2>1 DEF IInv, TypeOK, tables, history
  <2>4. \A v \in Workers : WorkerOK(v)'
    BY <2>1, <2>2, Frame DEF IInv, WorkerOK
  <2>5. Exclusive' /\ FiniteOK'
    BY <2>1 DEF IInv, Exclusive, FiniteOK, tables, history
  <2>6. HistoryOK' /\ AnswersAddUp' /\ CountersSinceFigures'
    BY <2>1 DEF IInv, HistoryOK, AnswersAddUp, CountersSinceFigures, Since, tables, history
  <2> QED
    BY <2>3, <2>4, <2>5, <2>6 DEF IInv, WorkerOK
<1>2. ASSUME NEW w \in Workers, NEW r \in Requests, Receive(w, r)
      PROVE  IInv'
  BY <1>2, ReceiveStep
<1>3. ASSUME NEW w \in Workers, SelectIds(w)
      PROVE  IInv'
  BY <1>3, SelectIdsStep
<1>4. ASSUME NEW w \in Workers, NEW c \in Customers, UpsertCustomer(w, c)
      PROVE  IInv'
  BY <1>4, UpsertCustomerStep
<1>5. ASSUME NEW w \in Workers, NEW c \in Customers, CreditCustomer(w, c)
      PROVE  IInv'
  BY <1>5, CreditCustomerStep
<1>6. ASSUME NEW w \in Workers, NEW o \in OrderIds, InsertOrder(w, o)
      PROVE  IInv'
  BY <1>6, InsertOrderStep
<1>7. ASSUME NEW w \in Workers, NextStatement(w)
      PROVE  IInv'
  BY <1>7, NextStatementStep
<1>8. ASSUME NEW w \in Workers, Commit(w)
      PROVE  IInv'
  BY <1>8, CommitStep
<1>9. ASSUME NEW w \in Workers, Fail(w)
      PROVE  IInv'
  BY <1>9, FailStep
<1> QED
  BY <1>1, <1>2, <1>3, <1>4, <1>5, <1>6, <1>7, <1>8, <1>9 DEF Next

\* What open requests have written stays right until they commit, whatever the
\* others commit in between: rows written are locked, orders inserted are new, and
\* counters written are those the committed row would get now (ingest_service).
THEOREM Invariant == Spec => []IInv
<1>1. Init => IInv
  BY InitInvariant
<1>2. IInv /\ [Next]_vars => IInv'
  BY NextInvariant
<1> QED
  BY <1>1, <1>2, PTL DEF Spec

\* No increment of apply_order_aggregates is lost or made twice: counters are those
\* of the last upload or load plus every order inserted since.
THEOREM CountersAddUp == Spec => []CountersSinceFigures
<1>1. IInv => CountersSinceFigures
  BY DEF IInv
<1> QED
  BY <1>1, Invariant, PTL

\* The "inserted" answers of bulk requests add up to the orders there are, and the
\* answers on new customers are never too low.
THEOREM AnswersCount == Spec => []AnswersAddUp
<1>1. IInv => AnswersAddUp
  BY DEF IInv
<1> QED
  BY <1>1, Invariant, PTL

=============================================================================
