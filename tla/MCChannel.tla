----------------------------- MODULE MCChannel -----------------------------
(* Two deliveries, of two messages or of one, with two of the simulator's plans, *)
(* one that is reordered and repeats an event; each event is posted up to twice, *)
(* and the process ends once.                                                    *)
EXTENDS Channel

CONSTANTS m1, m2

Simulated == INSTANCE Simulator

MCMessages == {m1, m2}
MCPlans == {p \in Simulated!PlanEvents(2) :
    \/ p.types = <<"sent">> /\ p.dups = {}
    \/ p.types = <<"delivered", "sent">> /\ p.dups = {"delivered"}}
=============================================================================
