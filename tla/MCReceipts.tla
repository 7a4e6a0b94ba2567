----------------------------- MODULE MCReceipts -----------------------------
(* Two customers with two communications each, an id nobody knows, and batches *)
(* made to meet: the same callbacks, the same communications and the customers *)
(* in opposite orders, one callback twice in one batch and again in another,   *)
(* a late event after a conversion, two conversions of one customer.           *)
EXTENDS Receipts, TLC

CONSTANTS c1, c2, c3, c4, stranger, u1, u2, w1, w2

MCComms == {c1, c2, c3, c4}
MCIds == MCComms \cup {stranger}
MCCustomers == {u1, u2}
MCCustomerOf == [c \in MCComms |-> IF c \in {c1, c2} THEN u1 ELSE u2]

Ev(c, t, at) == [communication_id |-> c, event_type |-> t, occurred_at |-> at]

MCBatches ==
    { <<Ev(c1, "converted", 2), Ev(c3, "converted", 1)>>,
      <<Ev(c4, "converted", 2), Ev(c2, "converted", 1)>>,
      <<Ev(c3, "converted", 1), Ev(c1, "converted", 2), Ev(c4, "converted", 1)>>,
      <<Ev(c3, "delivered", 2), Ev(c1, "sent", 1), Ev(c1, "sent", 2),
        Ev(c1, "delivered", 1), Ev(stranger, "sent", 1)>> }
=============================================================================
