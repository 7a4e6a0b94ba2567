----------------------------- MODULE Simulator -----------------------------
(***************************************************************************)
(* plan_events of the channel service: which callbacks a message will      *)
(* cause, in which order, and which of them come twice.  The random        *)
(* numbers are choices, and delays are only the order they put events in.  *)
(***************************************************************************)
EXTENDS Naturals, Sequences

\* The events of a message that was delivered, each possible only after the one before.
Funnel == <<"sent", "delivered", "opened", "read", "clicked", "converted">>

EventTypes == {"sent", "failed", "delivered", "opened", "read", "clicked", "converted"}

\* types before the reordering, no longer than n.
Chains(n) ==
    {c \in {<<"sent">>, <<"sent", "failed">>} \cup {SubSeq(Funnel, 1, k) : k \in 2..6} :
        Len(c) <= n}

\* Two events may have their types exchanged while the delays stay.
Reordered(c) ==
    {c} \cup {[c EXCEPT ![i] = c[j], ![j] = c[i]] : i, j \in DOMAIN c}

\* A plan: the order of the originals, and the types that come once more after
\* their original, each at a moment of its own.
PlanEvents(n) ==
    UNION {[types : Reordered(c), dups : SUBSET {c[i] : i \in DOMAIN c}] : c \in Chains(n)}
=============================================================================
