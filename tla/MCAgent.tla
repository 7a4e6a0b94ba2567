------------------------------ MODULE MCAgent -------------------------------
(* Definitions of up to three levels over leaves that build, are rejected and  *)
(* overflow, and a small set of texts for the models to choose from.           *)
EXTENDS Agent, TLC

CONSTANTS l1, l2, unlisted, ancient, c1, c2, c3

Field(f, c, v) == [field |-> f, cmp |-> c, value |-> v]
MCRule ==
    (l1 :> Field("total_spend", "gte", "numeral")) @@ (l2 :> Field("city", "in_list", "texts"))
    @@ (unlisted :> Field("email", "eq", "text"))
    @@ (ancient :> Field("last_order_at", "within_days", "eon"))
MCMatching == (l1 :> {c1, c2}) @@ (l2 :> {c2, c3}) @@ (unlisted :> {}) @@ (ancient :> {})

Leaf(l) == << >> :> l
Group(op, trees) ==
    [p \in {<<>>} \cup UNION {{<<i>> \o q : q \in DOMAIN trees[i]} : i \in DOMAIN trees} |->
        IF p = <<>> THEN op ELSE trees[Head(p)][Tail(p)]]

Ops == {"AND", "OR"}
UpTo(n, S) == UNION {[1..m -> S] : m \in 1..n}
Groups(n, S) == {Group(op, trees) : op \in Ops, trees \in UpTo(n, S)}

Inner == Groups(2, {Leaf(l1), Leaf(l2)})
Outer == Groups(2, {Leaf(l) : l \in Leaves}) \cup Groups(1, Inner)
            \cup {Group(op, <<t, Leaf(l)>>) : op \in Ops, t \in Inner, l \in {l2, unlisted}}
Deep  == {Group(op, <<Group("OR", <<t>>), Leaf(l1)>>) :
              op \in Ops, t \in Groups(1, {Leaf(l2), Group("AND", <<Leaf(l1)>>)})}

Good  == Group("AND", <<Leaf(l1), Group("OR", <<Leaf(l2)>>)>>)
Wrong == Group("OR", <<Leaf(unlisted)>>)
Far   == Group("OR", <<Leaf(l1), Leaf(ancient)>>)

Request(kind, d) == [kind |-> kind, definition |-> d]
MCRequests ==
    {Request(kind, NoTree) : kind \in {"segment", "draft", "insight", "propose"}}
    \cup {Request("preview", d) : d \in {Group("AND", <<>>)} \cup Outer \cup Deep}

Bare(form)     == [form |-> form]
Tool(name, d)  == [form |-> "tool", tool |-> name, definition |-> d]
Proposal(d)    == [form |-> "proposal", definition |-> d]
Output(d, ns)  == [form |-> "output", definition |-> d, cited |-> ns]

MCTexts ==
    LET outputs == {Bare("prose"), Output(Good, {}), Output(Wrong, {67}), Output(Far, {3, 4})}
        turns == {Bare("prose"), Bare("list"), Bare("other"),
                  Tool("query_segment", Good), Tool("estimate_campaign", Good),
                  Tool("estimate_campaign", Wrong), Tool("drop_table", NoTree),
                  Proposal(Good), Proposal(Wrong), Proposal(Far), Output(Good, {})}
    IN  [kind \in Kinds |-> IF kind = "propose" THEN turns ELSE outputs]

MCStatistics ==
    {[queued |-> 0, failed |-> 0, converted |-> 0, audience |-> 0],
     [queued |-> 0, failed |-> 1, converted |-> 2, audience |-> 4]}
=============================================================================
