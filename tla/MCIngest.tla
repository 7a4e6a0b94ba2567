------------------------------ MODULE MCIngest ------------------------------
(* Two customers and orders that several requests bring at once, in opposite   *)
(* orders, twice in one payload, for a customer who may not exist yet.          *)
EXTENDS Ingest

CONSTANTS a, b, o1, o2, w1, w2

C(c, n) == [id |-> c, order_count |-> n, last_order_at |-> 0]
O(o, c, t) == [id |-> o, customer |-> c, ordered_at |-> t]
R(kind, cs, os) == [kind |-> kind, customers |-> cs, orders |-> os]

MCRequests ==
    { R("customers", <<C(a, 0), C(b, 0)>>, <<>>),
      R("upload", <<C(b, 5), C(a, 3), C(b, 4)>>, <<>>),
      R("orders", <<>>, <<O(o1, a, 2), O(o2, b, 1), O(o1, a, 1)>>),
      R("orders", <<>>, <<O(o2, b, 1), O(o1, a, 2)>>),
      R("load", <<>>, <<O(o1, a, 1)>>) }
=============================================================================
