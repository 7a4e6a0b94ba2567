----------------------------- MODULE SegmentTree -----------------------------
(***************************************************************************)
(* Segment definitions (segment_compiler): a definition is a tree of AND   *)
(* and OR groups over leaves.  It is represented as walk_leaves_with_path  *)
(* addresses it: a function from index paths to what stands there, the     *)
(* root at <<>>.  The removal of a node leaves the paths of the others as  *)
(* they were; only their order is ever used.                               *)
(***************************************************************************)
EXTENDS Naturals, Sequences, FiniteSets

CONSTANTS
    Leaves,      \* leaves
    Rule,        \* the field, the comparator and the sort of value of each
    Customers,   \* the customer rows there may be
    Matching,    \* the customers that each leaf selects
    MaxDepth,    \* MAX_DEPTH
    MaxLeaves    \* MAX_LEAVES

\* Sorts of values, as far as the conversions tell them apart: "many" is a list of
\* more than 50 strings, "eon" a number of days that no date lies so far back.
Values == {"days", "eon", "number", "numeral", "text", "texts", "many", "other"}

ASSUME SegmentTreeAssumption ==
    /\ \A l \in Leaves : Rule[l].value \in Values
    /\ Matching \in [Leaves -> SUBSET Customers]
    /\ MaxDepth \in Nat \ {0} /\ MaxLeaves \in Nat

\* No tree: None of remove_at_path, and a definition that the schema refuses.
NoTree == [p \in {} |-> "AND"]

IsGroup(d, p) == d[p] \notin Leaves

\* What JSON can bring to RuleGroup: finitely many nodes, each but the root a rule
\* of a group.  Positions count from 1.
IsTree(d) ==
    /\ d \in [DOMAIN d -> Leaves \cup {"AND", "OR"}]
    /\ IsFiniteSet(DOMAIN d) /\ DOMAIN d \subseteq Seq(Nat \ {0})
    /\ d # NoTree => <<>> \in DOMAIN d /\ IsGroup(d, <<>>)
    /\ \A p \in DOMAIN d \ {<<>>} :
           LET above == SubSeq(p, 1, Len(p) - 1) IN above \in DOMAIN d /\ IsGroup(d, above)

\* The indices of the rules of the group at p.
Rules(d, p) == {q[Len(q)] : q \in {x \in DOMAIN d \ {<<>>} : SubSeq(x, 1, Len(x) - 1) = p}}

\* What RuleGroup accepts: groups with at least one rule each.
WellFormed(d) == d # NoTree /\ \A p \in DOMAIN d : IsGroup(d, p) => Rules(d, p) # {}

\* The paths that collect_leaves and walk_leaves_with_path visit, and their order.
LeafPaths(d) == {p \in DOMAIN d : ~IsGroup(d, p)}

Before(p, q) ==
    \E n \in 1..Len(p) : n <= Len(q) /\ p[n] < q[n] /\ \A m \in 1..(n - 1) : p[m] = q[m]

FirstLeaf(paths) == CHOOSE p \in paths : \A q \in paths \ {p} : Before(p, q)

-----------------------------------------------------------------------------
\* The whitelist: the conversion of the value for each field and comparator.
NumericCmps == [cmp \in {"eq", "gt", "gte", "lt", "lte"} |-> "as_number"]

Whitelist ==
    [total_spend   |-> NumericCmps,
     order_count   |-> NumericCmps,
     city          |-> [eq |-> "as_str", neq |-> "as_str", in_list |-> "as_str_list"],
     email         |-> [is_set |-> "ignore", is_not_set |-> "ignore"],
     last_order_at |-> [older_than_days |-> "as_days", within_days |-> "as_days",
                        is_not_set |-> "ignore"],
     created_at    |-> [older_than_days |-> "as_days", within_days |-> "as_days"]]

\* The sorts of values that each conversion takes.
Accepted(conversion) ==
    CASE conversion = "as_number"   -> {"days", "eon", "number", "numeral"}
      [] conversion = "as_days"     -> {"days", "eon"}
      [] conversion = "as_str"      -> {"numeral", "text"}
      [] conversion = "as_str_list" -> {"texts"}
      [] conversion = "ignore"      -> Values

\* compile_leaf: returns, raises SegmentCompileError ("rejected"), or lets the
\* OverflowError of _cutoff through.
CompileLeaf(l) ==
    LET rule == Rule[l]
    IN  IF rule.field \notin DOMAIN Whitelist THEN "rejected"
        ELSE IF rule.cmp \notin DOMAIN Whitelist[rule.field] THEN "rejected"
        ELSE LET conversion == Whitelist[rule.field][rule.cmp]
             IN  IF rule.value \notin Accepted(conversion) THEN "rejected"
                 ELSE IF conversion = "as_days" /\ rule.value = "eon" THEN "overflow"
                 ELSE "ok"

\* compile_definition of each part: the first rule that raises decides.
Verdicts(d) ==
    LET first(S) == CHOOSE i \in S : \A j \in S : i <= j
        at[p \in DOMAIN d] ==
            IF ~IsGroup(d, p) THEN CompileLeaf(d[p])
            ELSE IF Len(p) + 1 > MaxDepth THEN "rejected"
            ELSE LET bad == {i \in Rules(d, p) : at[Append(p, i)] # "ok"}
                 IN  IF bad = {} THEN "ok" ELSE at[Append(p, first(bad))]
    IN  at

Verdict(d) ==
    IF Cardinality(LeafPaths(d)) > MaxLeaves THEN "rejected" ELSE Verdicts(d)[<<>>]

\* The customers that the WHERE clause compiled from each part selects.
SelectedAt(d) ==
    LET at[p \in DOMAIN d] ==
            IF ~IsGroup(d, p) THEN Matching[d[p]]
            ELSE IF d[p] = "AND"
                 THEN {c \in Customers : \A i \in Rules(d, p) : c \in at[Append(p, i)]}
                 ELSE {c \in Customers : \E i \in Rules(d, p) : c \in at[Append(p, i)]}
    IN  at

Selected(d) == SelectedAt(d)[<<>>]

\* Wrong on purpose: a group that the removal empties stays.
RemoveAndStop(d, path) ==
    IF Rules(d, <<>>) = {path[1]} /\ Len(path) = 1 THEN NoTree
    ELSE [p \in DOMAIN d \ {path} |-> d[p]]

\* remove_at_path: the rules left in the group n levels down the path; a group
\* that keeps no rule is dropped from the group above it.
Kept(d, path) ==
    LET kept[n \in 0..(Len(path) - 1)] ==
            LET others == Rules(d, SubSeq(path, 1, n)) \ {path[n + 1]}
            IN  IF n + 1 < Len(path) /\ kept[n + 1] # {} THEN others \cup {path[n + 1]}
                ELSE others
    IN  kept

RemoveAtPath(d, path) ==
    LET kept == Kept(d, path)
        gone == {p \in DOMAIN d : \E n \in 1..Len(path) :
                     n <= Len(p) /\ SubSeq(p, 1, n) = SubSeq(path, 1, n)
                     /\ path[n] \notin kept[n - 1]}
    IN  IF kept[0] = {} THEN NoTree ELSE [p \in DOMAIN d \ gone |-> d[p]]

-----------------------------------------------------------------------------
\* The group whose operator says what a leaf does: the nearest one above it
\* that has another rule; NoTree's root, <<0>>, when there is none.
Deciding(d, path) ==
    LET many == {n \in 0..(Len(path) - 1) : Cardinality(Rules(d, SubSeq(path, 1, n))) > 1}
    IN  IF many = {} THEN <<0>>
        ELSE SubSeq(path, 1, CHOOSE n \in many : \A m \in many : m <= n)
=============================================================================
