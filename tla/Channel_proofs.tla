--------------------------- MODULE Channel_proofs ---------------------------
(***************************************************************************)
(* Proofs about Channel, for every set of messages, plans and tasks and    *)
(* any number of attempts and stops: the inductive invariant IInv and what *)
(* follows from it about the pending file and about deliveries.            *)
(***************************************************************************)
EXTENDS Channel, FiniteSetTheorems, TLAPS

-----------------------------------------------------------------------------
(* Facts about plans, and about counting deliveries. *)

\* A plan is a finite sequence of event types, none of them the mark "none".
LEMMA PlannedTypes ==
    ASSUME NEW p \in Plans
    PROVE  /\ Len(p.types) \in Nat
           /\ \A i \in 1..Len(p.types) : p.types[i] \in Types /\ p.types[i] # "none"
<1>1. p.types \in Seq(Types)
  BY ChannelAssumption
<1> QED
  BY <1>1, ChannelAssumption

\* Any set of tasks can be counted.
LEMMA CountTasks ==
    ASSUME NEW S, S \subseteq Tasks
    PROVE  /\ IsFiniteSet(S)
           /\ Cardinality(S) \in Nat
           /\ Cardinality(S) <= Cardinality(Tasks)
           /\ Cardinality(S) = 0 <=> S = {}
  BY ChannelAssumption, FS_Subset, FS_CardinalityType, FS_EmptySet

Deliveries(m) == {t \in Tasks : state[t] # "none" /\ msg[t] = m}

-----------------------------------------------------------------------------
(* Steps that keep the invariant. *)

\* No task, no file, nothing delivered.
LEMMA InitInvariant == Init => IInv
<1> SUFFICES ASSUME Init PROVE IInv
  OBVIOUS
<1> USE DEF Init
<1>1. /\ \A t \in Tasks : state[t] = "none" /\ next[t] = 0 /\ plan[t] \in Plans
      /\ Running = {}
  BY ChannelAssumption DEF Running
<1>2. TypeOK
  <2>1. Cardinality(Tasks) \in Nat
    BY CountTasks
  <2>2. file \in [Messages -> 0..Cardinality(Tasks)]
    BY <2>1
  <2>3. next \in [Tasks -> Nat] /\ \A t \in Tasks : next[t] <= Len(plan[t].types)
    BY <1>1, PlannedTypes
  <2>4. /\ msg \in [Tasks -> Messages] /\ plan \in [Tasks -> Plans]
        /\ tries \in [Tasks -> 0..Attempts] /\ stops \in 0..MaxStops
    BY ChannelAssumption
  <2> QED
    BY <2>2, <2>3, <2>4 DEF TypeOK
<1>3. FileCoversRunning /\ EntriesHaveTasks /\ RunsInProcess
  BY <1>1 DEF FileCoversRunning, EntriesHaveTasks, RunsInProcess
<1>4. AcceptedIsKept /\ NothingDropped /\ StartsFresh
  BY <1>1 DEF AcceptedIsKept, NothingDropped, StartsFresh
<1>5. EntriesCounted
  <2> SUFFICES ASSUME NEW m \in Messages PROVE file[m] <= Cardinality(Deliveries(m))
    BY DEF EntriesCounted, Deliveries
  <2>1. Cardinality(Deliveries(m)) \in Nat
    BY CountTasks DEF Deliveries
  <2> QED
    BY <2>1
<1> QED
  BY <1>2, <1>3, <1>4, <1>5 DEF IInv

\* A step of a delivery that leaves the file and the process alone.
LEMMA DeliveryStep ==
    ASSUME IInv, UNCHANGED <<phase, file, state, msg, plan, stops, finished, lost>>,
           TypeOK', NothingDropped', StartsFresh'
    PROVE  IInv'
<1>1. FileCoversRunning' /\ EntriesHaveTasks'
  BY DEF IInv, FileCoversRunning, EntriesHaveTasks, Running
<1>2. AcceptedIsKept' /\ EntriesCounted' /\ RunsInProcess'
  BY DEF IInv, AcceptedIsKept, EntriesCounted, RunsInProcess, Running
<1> QED
  BY <1>1, <1>2 DEF IInv

\* A task takes the next event of its plan.
LEMMA NextEventStep ==
    ASSUME IInv, NEW t \in Tasks, NextEvent(t)
    PROVE  IInv'
<1>1. /\ state[t] = "running" /\ event[t] = "none"
      /\ UNCHANGED <<phase, file, state, msg, plan, crm, dead, stops, finished, lost>>
      /\ tries' = [tries EXCEPT ![t] = 0]
  BY DEF NextEvent, InLoop
<1>2. TypeOK /\ plan[t] \in Plans /\ next[t] \in 0..Len(plan[t].types)
  BY PlannedTypes DEF IInv, TypeOK
<1>3. tries' \in [Tasks -> 0..Attempts]
  BY <1>1, <1>2, ChannelAssumption DEF TypeOK
<1>4. \A i \in 1..next[t] : <<msg[t], plan[t].types[i]>> \in crm \cup dead
  <2> SUFFICES ASSUME NEW i \in 1..next[t]
               PROVE  <<msg[t], plan[t].types[i]>> \in crm \cup dead
    OBVIOUS
  <2>1. plan[t].types[i] # "none"
    BY <1>2, PlannedTypes
  <2> QED
    BY <1>1, <2>1 DEF IInv, NothingDropped
<1>5. CASE /\ next[t] < Len(plan[t].types)
           /\ next' = [next EXCEPT ![t] = @ + 1]
           /\ event' = [event EXCEPT ![t] = plan[t].types[next'[t]]]
           /\ again' = [again EXCEPT ![t] = @ \cup ({event'[t]} \cap plan[t].dups)]
  <2>1. next' \in [Tasks -> Nat]
    BY <1>5, <1>2 DEF TypeOK
  <2>2. /\ next'[t] = next[t] + 1 /\ event'[t] = plan[t].types[next[t] + 1]
        /\ \A u \in Tasks \ {t} : next'[u] = next[u] /\ event'[u] = event[u] /\ again'[u] = again[u]
    BY <1>5, <1>2 DEF TypeOK
  <2>3. /\ next'[t] \in 1..Len(plan[t].types) /\ event'[t] \in Types
    BY <1>2, <1>5, <2>2, PlannedTypes
  <2>4. event' \in [Tasks -> Types \cup {"none"}] /\ again' \in [Tasks -> SUBSET Types]
    BY <1>2, <1>5, <2>3 DEF TypeOK
  <2>5. TypeOK'
    <3>1. \A u \in Tasks : next'[u] <= Len(plan'[u].types)
      <4>1. next'[t] <= Len(plan[t].types)
        BY <1>2, <2>3, PlannedTypes
      <4> QED
        BY <1>1, <1>2, <2>2, <4>1 DEF TypeOK
    <3> QED
      BY <1>1, <1>2, <1>3, <2>1, <2>4, <3>1 DEF TypeOK
  <2>6. NothingDropped'
    BY <1>1, <1>2, <1>4, <2>2, SMTT(30) DEF IInv, NothingDropped
  <2>7. StartsFresh'
    BY <1>1, <2>2 DEF IInv, StartsFresh
  <2> QED
    BY <1>1, <2>5, <2>6, <2>7, DeliveryStep
<1>6. ASSUME NEW e \in again[t],
             event' = [event EXCEPT ![t] = e],
             again' = [again EXCEPT ![t] = @ \ {e}],
             next' = next
      PROVE  IInv'
  <2>1. e \in Types /\ event' \in [Tasks -> Types \cup {"none"}] /\ again' \in [Tasks -> SUBSET Types]
    BY <1>2, <1>6 DEF TypeOK
  <2>2. \A u \in Tasks \ {t} : event'[u] = event[u] /\ again'[u] = again[u]
    BY <1>2, <1>6 DEF TypeOK
  <2>3. TypeOK'
    BY <1>1, <1>2, <1>3, <1>6, <2>1 DEF TypeOK
  <2>4. NothingDropped'
    BY <1>1, <1>4, <1>6, <2>2 DEF IInv, NothingDropped
  <2>5. StartsFresh'
    BY <1>1, <1>6, <2>2 DEF IInv, StartsFresh
  <2> QED
    BY <1>1, <2>3, <2>4, <2>5, DeliveryStep
<1> QED
  BY <1>5, <1>6 DEF NextEvent

\* The event of t is done with: the CRM has it or the dead letters do.
LEMMA EventDone ==
    ASSUME IInv, NEW t \in Tasks, state[t] = "running",
           event' = [event EXCEPT ![t] = "none"],
           crm \subseteq crm', dead \subseteq dead', <<msg[t], event[t]>> \in crm' \cup dead',
           UNCHANGED <<state, msg, plan, next, again>>
    PROVE  NothingDropped' /\ StartsFresh'
<1>1. event'[t] = "none" /\ \A u \in Tasks \ {t} : event'[u] = event[u]
  BY DEF IInv, TypeOK
<1>2. NothingDropped'
  BY <1>1 DEF IInv, NothingDropped
<1>3. StartsFresh'
  BY <1>1 DEF IInv, StartsFresh
<1> QED
  BY <1>2, <1>3

\* A callback that was answered.
LEMMA PostedStep ==
    ASSUME IInv, NEW t \in Tasks, Posted(t)
    PROVE  IInv'
<1>1. /\ state[t] = "running" /\ event[t] # "none"
      /\ crm' = crm \cup {<<msg[t], event[t]>>} /\ dead' = dead
      /\ event' = [event EXCEPT ![t] = "none"]
      /\ UNCHANGED <<phase, file, state, msg, plan, next, again, tries, dead, stops, finished, lost>>
  BY DEF Posted, InLoop
<1>2. <<msg[t], event[t]>> \in Callbacks
  BY <1>1 DEF IInv, TypeOK, Callbacks
<1>3. TypeOK'
  BY <1>1, <1>2 DEF IInv, TypeOK
<1> QED
  BY <1>1, <1>3, EventDone, DeliveryStep

\* A callback that was not, and may be tried again.
LEMMA PostFailedStep ==
    ASSUME IInv, NEW t \in Tasks, PostFailed(t)
    PROVE  IInv'
<1>1. /\ state[t] = "running" /\ event[t] # "none" /\ tries[t] < Attempts
      /\ crm' \in {crm, crm \cup {<<msg[t], event[t]>>}}
      /\ tries' = [tries EXCEPT ![t] = @ + 1]
      /\ UNCHANGED <<phase, file, state, msg, plan, next, again, event, dead, stops, finished, lost>>
  BY DEF PostFailed, InLoop
<1>2. <<msg[t], event[t]>> \in Callbacks
  BY <1>1 DEF IInv, TypeOK, Callbacks
<1>3. tries' \in [Tasks -> 0..Attempts]
  <2>1. tries \in [Tasks -> 0..Attempts] /\ tries[t] + 1 \in 0..Attempts
    BY <1>1, ChannelAssumption DEF IInv, TypeOK
  <2> QED
    BY <1>1, <2>1
<1>4. TypeOK'
  BY <1>1, <1>2, <1>3 DEF IInv, TypeOK
<1>5. NothingDropped' /\ StartsFresh'
  BY <1>1 DEF IInv, NothingDropped, StartsFresh
<1> QED
  BY <1>1, <1>4, <1>5, DeliveryStep

\* An event that is given up.
LEMMA DeadLetterStep ==
    ASSUME IInv, NEW t \in Tasks, DeadLetter(t)
    PROVE  IInv'
<1>1. /\ state[t] = "running" /\ event[t] # "none"
      /\ dead' = dead \cup {<<msg[t], event[t]>>} /\ crm' = crm
      /\ event' = [event EXCEPT ![t] = "none"]
      /\ UNCHANGED <<phase, file, state, msg, plan, next, again, tries, crm, stops, finished, lost>>
  BY DEF DeadLetter, InLoop
<1>2. <<msg[t], event[t]>> \in Callbacks
  BY <1>1 DEF IInv, TypeOK, Callbacks
<1>3. TypeOK'
  BY <1>1, <1>2 DEF IInv, TypeOK
<1> QED
  BY <1>1, <1>3, EventDone, DeliveryStep

\* The end of a delivery clears its message's entries: the other deliveries of the
\* message have this one as the one that ended, other messages keep entry and task.
LEMMA FinishStep ==
    ASSUME IInv, NEW t \in Tasks, Finish(t)
    PROVE  IInv'
<1>1. /\ phase \in {"up", "draining"} /\ state[t] = "running"
      /\ state' = [state EXCEPT ![t] = "ended"]
      /\ file' = [file EXCEPT ![msg[t]] = 0]
      /\ finished' = finished \cup {msg[t]}
      /\ UNCHANGED <<phase, task, crm, dead, stops, lost>>
  BY DEF Finish, InLoop, RemovePending
<1>2. UNCHANGED <<msg, plan, next, again, event, tries>>
  BY <1>1 DEF task
<1>3. TypeOK /\ msg[t] \in Messages
  BY DEF IInv, TypeOK
<1>4. /\ \A m \in Messages : file'[m] = IF m = msg[t] THEN 0 ELSE file[m]
      /\ state'[t] = "ended" /\ \A u \in Tasks \ {t} : state'[u] = state[u]
  BY <1>1, <1>3 DEF TypeOK
<1>5. Running' = Running \ {t}
  BY <1>1, <1>4 DEF Running
<1>6. TypeOK'
  <2>1. file' \in [Messages -> 0..Cardinality(Tasks)]
    <3>1. 0 \in 0..Cardinality(Tasks)
      BY CountTasks
    <3> QED
      BY <1>1, <1>3, <3>1 DEF TypeOK
  <2>2. state' \in [Tasks -> {"none", "running", "ended", "gone"}]
    BY <1>1, <1>3 DEF TypeOK
  <2> QED
    BY <1>1, <1>2, <1>3, <2>1, <2>2 DEF TypeOK
<1>7. FileCoversRunning'
  <2> SUFFICES ASSUME NEW v \in Running'
               PROVE  \/ file'[msg'[v]] > 0
                      \/ \E u \in Tasks : u # v /\ msg'[u] = msg'[v] /\ state'[u] = "ended"
    BY DEF FileCoversRunning
  <2>1. v \in Running /\ v \in Tasks /\ v # t /\ msg'[v] = msg[v] /\ msg[v] \in Messages
    BY <1>2, <1>3, <1>5 DEF Running, TypeOK
  <2>2. CASE msg[v] = msg[t]
    BY <1>2, <1>4, <2>1, <2>2
  <2>3. CASE msg[v] # msg[t]
    <3>1. file'[msg[v]] = file[msg[v]]
      BY <1>4, <2>1, <2>3
    <3>2. ASSUME NEW u \in Tasks, u # v, msg[u] = msg[v], state[u] = "ended"
          PROVE  msg'[u] = msg'[v] /\ state'[u] = "ended"
      BY <1>1, <1>2, <1>4, <3>2
    <3> QED
      BY <2>1, <3>1, <3>2 DEF IInv, FileCoversRunning
  <2> QED
    BY <2>2, <2>3
<1>8. EntriesHaveTasks'
  <2> SUFFICES ASSUME NEW m \in Messages, file'[m] > 0
               PROVE  \E u \in Running' : msg'[u] = m
    BY DEF EntriesHaveTasks
  <2>1. m # msg[t] /\ file[m] > 0
    BY <1>4
  <2>2. PICK u \in Running : msg[u] = m
    BY <1>1, <2>1 DEF IInv, EntriesHaveTasks
  <2> QED
    BY <1>2, <1>5, <2>1, <2>2
<1>9. AcceptedIsKept'
  BY <1>1, <1>2, <1>3, <1>4 DEF IInv, AcceptedIsKept, TypeOK
<1>10. NothingDropped' /\ StartsFresh'
  BY <1>1, <1>2, <1>4 DEF IInv, NothingDropped, StartsFresh
<1>11. EntriesCounted'
  <2> SUFFICES ASSUME NEW m \in Messages PROVE file'[m] <= Cardinality(Deliveries(m)')
    BY DEF EntriesCounted, Deliveries
  <2>1. Deliveries(m)' = Deliveries(m)
    BY <1>1, <1>2, <1>4 DEF Deliveries
  <2>2. file[m] <= Cardinality(Deliveries(m)) /\ Cardinality(Deliveries(m)) \in Nat
    BY CountTasks DEF IInv, EntriesCounted, Deliveries
  <2> QED
    BY <1>4, <2>1, <2>2
<1>12. RunsInProcess'
  BY <1>1 DEF RunsInProcess
<1> QED
  BY <1>6, <1>7, <1>8, <1>9, <1>10, <1>11, <1>12 DEF IInv

\* A send records what it starts: the new entries of a message are as many as its
\* new tasks, and both come on top of the old ones.
LEMMA SendStep ==
    ASSUME IInv, NEW S \in SUBSET {t \in Tasks : state[t] = "none"},
           NEW messages \in [S -> Messages], NEW plans \in [S -> Plans],
           Send(S, messages, plans)
    PROVE  IInv'
<1> DEFINE New(m) == {t \in S : messages[t] = m}
<1>1. /\ phase = "up"
      /\ file' = [m \in Messages |-> file[m] + Cardinality(New(m))]
      /\ state' = [t \in Tasks |-> IF t \in S THEN "running" ELSE state[t]]
      /\ msg' = [t \in Tasks |-> IF t \in S THEN messages[t] ELSE msg[t]]
      /\ plan' = [t \in Tasks |-> IF t \in S THEN plans[t] ELSE plan[t]]
      /\ UNCHANGED <<phase, next, again, event, tries, crm, dead, stops, finished, lost>>
  BY DEF Send, Spawn
<1>2. TypeOK /\ S \subseteq Tasks /\ \A t \in S : state[t] = "none"
  BY DEF IInv
<1>3. \A m \in Messages : /\ IsFiniteSet(New(m)) /\ Cardinality(New(m)) \in Nat
                          /\ Cardinality(New(m)) = 0 <=> New(m) = {}
  BY <1>2, CountTasks
<1>4. \A m \in Messages : file[m] \in Nat
  BY <1>2, CountTasks DEF TypeOK
<1>5. \A m \in Messages :
          /\ file'[m] \in Nat /\ file'[m] >= file[m]
          /\ New(m) # {} => file'[m] > 0
          /\ file'[m] > 0 => file[m] > 0 \/ New(m) # {}
  <2> TAKE m \in Messages
  <2>1. file'[m] = file[m] + Cardinality(New(m))
    BY <1>1
  <2>2. file[m] \in Nat /\ Cardinality(New(m)) \in Nat /\ (Cardinality(New(m)) = 0 <=> New(m) = {})
    BY <1>3, <1>4
  <2> HIDE DEF New
  <2> QED
    BY <2>1, <2>2
<1>6. EntriesCounted'
  <2> SUFFICES ASSUME NEW m \in Messages PROVE file'[m] <= Cardinality(Deliveries(m)')
    BY DEF EntriesCounted, Deliveries
  <2>1. Deliveries(m)' = Deliveries(m) \cup New(m) /\ Deliveries(m) \cap New(m) = {}
    BY <1>1, <1>2 DEF Deliveries
  <2>2. /\ IsFiniteSet(Deliveries(m)) /\ Cardinality(Deliveries(m)) \in Nat
        /\ file[m] <= Cardinality(Deliveries(m))
    BY CountTasks DEF IInv, EntriesCounted, Deliveries
  <2> HIDE DEF New
  <2>3. Cardinality(Deliveries(m)') = Cardinality(Deliveries(m)) + Cardinality(New(m))
    <3>1. Cardinality(Deliveries(m) \cap New(m)) = 0
      BY <2>1, FS_EmptySet
    <3>2. IsFiniteSet(New(m)) /\ Cardinality(New(m)) \in Nat
      BY <1>3
    <3>3. Cardinality(Deliveries(m) \cup New(m)) =
              Cardinality(Deliveries(m)) + Cardinality(New(m)) - Cardinality(Deliveries(m) \cap New(m))
      BY <2>2, <3>2, FS_Union
    <3> QED
      BY <2>1, <2>2, <3>1, <3>2, <3>3
  <2> QED
    BY <1>1, <1>3, <1>4, <2>2, <2>3
<1>7. TypeOK'
  <2>1. file' \in [Messages -> 0..Cardinality(Tasks)]
    <3>1. \A m \in Messages : file'[m] \in 0..Cardinality(Tasks)
      <4> TAKE m \in Messages
      <4>1. /\ Cardinality(Deliveries(m)') \in Nat /\ Cardinality(Tasks) \in Nat
            /\ Cardinality(Deliveries(m)') <= Cardinality(Tasks)
        BY CountTasks DEF Deliveries
      <4>2. file'[m] <= Cardinality(Deliveries(m)')
        BY <1>6 DEF EntriesCounted, Deliveries
      <4> QED
        BY <1>5, <4>1, <4>2
    <3> QED
      BY <1>1, <3>1
  <2>2. /\ state' \in [Tasks -> {"none", "running", "ended", "gone"}]
        /\ msg' \in [Tasks -> Messages] /\ plan' \in [Tasks -> Plans]
    BY <1>1, <1>2 DEF TypeOK
  <2>3. \A t \in Tasks : next'[t] <= Len(plan'[t].types)
    <3> TAKE t \in Tasks
    <3>1. CASE t \in S
      <4>1. next'[t] = 0 /\ plan'[t] \in Plans
        BY <1>1, <1>2, <2>2, <3>1 DEF IInv, StartsFresh
      <4> QED
        BY <4>1, PlannedTypes
    <3>2. CASE t \notin S
      BY <1>1, <1>2, <3>2 DEF TypeOK
    <3> QED
      BY <3>1, <3>2
  <2> QED
    BY <1>1, <1>2, <2>1, <2>2, <2>3 DEF TypeOK
<1>8. Running' = Running \cup S
  BY <1>1, <1>2 DEF Running
<1>9. FileCoversRunning'
  <2> SUFFICES ASSUME NEW t \in Running'
               PROVE  \/ file'[msg'[t]] > 0
                      \/ \E u \in Tasks : u # t /\ msg'[u] = msg'[t] /\ state'[u] = "ended"
    BY DEF FileCoversRunning
  <2>1. CASE t \in S
    <3>1. t \in New(msg'[t]) /\ msg'[t] \in Messages
      BY <1>1, <1>2, <2>1
    <3> QED
      BY <1>5, <3>1
  <2>2. CASE t \notin S
    <3>1. t \in Running /\ t \in Tasks /\ msg'[t] = msg[t] /\ msg[t] \in Messages
      BY <1>1, <1>2, <1>8, <2>2 DEF Running, TypeOK
    <3>2. CASE file[msg[t]] > 0
      BY <1>4, <1>5, <3>1, <3>2
    <3>3. ASSUME NEW u \in Tasks, u # t, msg[u] = msg[t], state[u] = "ended"
          PROVE  u # t /\ msg'[u] = msg'[t] /\ state'[u] = "ended"
      BY <1>1, <1>2, <3>1, <3>3
    <3> QED
      BY <3>1, <3>2, <3>3 DEF IInv, FileCoversRunning
  <2> QED
    BY <2>1, <2>2
<1>10. EntriesHaveTasks'
  <2> SUFFICES ASSUME NEW m \in Messages, file'[m] > 0
               PROVE  \E t \in Running' : msg'[t] = m
    BY DEF EntriesHaveTasks
  <2>1. CASE file[m] > 0
    <3>1. PICK t \in Running : msg[t] = m
      BY <1>1, <2>1 DEF IInv, EntriesHaveTasks
    <3>2. t \in Running' /\ msg'[t] = m
      BY <1>1, <1>2, <1>8, <3>1 DEF Running
    <3> QED
      BY <3>2
  <2>2. CASE New(m) # {}
    <3>1. PICK t \in S : messages[t] = m
      BY <2>2
    <3>2. t \in Running' /\ msg'[t] = m
      BY <1>1, <1>2, <1>8, <3>1
    <3> QED
      BY <3>2
  <2> QED
    BY <1>5, <2>1, <2>2
<1>11. AcceptedIsKept'
  <2> SUFFICES ASSUME NEW t \in Tasks, state'[t] # "none"
               PROVE  file'[msg'[t]] > 0 \/ msg'[t] \in finished' \cup lost'
    BY DEF AcceptedIsKept
  <2>1. CASE t \in S
    <3>1. t \in New(msg'[t]) /\ msg'[t] \in Messages
      BY <1>1, <1>2, <2>1
    <3> QED
      BY <1>5, <3>1
  <2>2. CASE t \notin S
    <3>1. state[t] # "none" /\ msg'[t] = msg[t] /\ msg[t] \in Messages
      BY <1>1, <1>2, <2>2 DEF TypeOK
    <3> QED
      BY <1>1, <1>4, <1>5, <3>1, SMTT(30) DEF IInv, AcceptedIsKept
  <2> QED
    BY <2>1, <2>2
<1>12. NothingDropped'
  <2> SUFFICES ASSUME NEW t \in Tasks, state'[t] \in {"running", "ended"}, NEW i \in 1..next'[t]
               PROVE  \/ <<msg'[t], plan'[t].types[i]>> \in crm' \cup dead'
                      \/ event'[t] = plan'[t].types[i]
    BY DEF NothingDropped
  <2>1. t \notin S
    BY <1>1, <1>2 DEF IInv, StartsFresh
  <2> QED
    BY <1>1, <2>1 DEF IInv, NothingDropped
<1>13. StartsFresh' /\ RunsInProcess'
  BY <1>1 DEF IInv, StartsFresh, RunsInProcess
<1> QED
  BY <1>6, <1>7, <1>9, <1>10, <1>11, <1>12, <1>13 DEF IInv

\* However the process ends: what it leaves of the file is remembered as lost
\* wherever it is less than there was.
LEMMA DieStep ==
    ASSUME IInv, Die, stops' \in 0..MaxStops,
           file' = file \/ \E cut \in SUBSET Messages :
               file' = [m \in Messages |-> IF m \in cut THEN 0 ELSE file[m]],
           \A m \in Messages : file'[m] = file[m] \/ file[m] = 0 \/ m \in lost',
           lost \subseteq lost', lost' \in SUBSET Messages,
           UNCHANGED <<crm, finished>>
    PROVE  IInv'
<1>1. /\ phase' = "down" /\ dead' = {}
      /\ state' = [t \in Tasks |-> IF state[t] = "none" THEN "none" ELSE "gone"]
      /\ next' = [t \in Tasks |-> 0] /\ again' = [t \in Tasks |-> {}]
      /\ event' = [t \in Tasks |-> "none"] /\ tries' = [t \in Tasks |-> 0]
      /\ UNCHANGED <<msg, plan>>
  BY DEF Die
<1>2. TypeOK
  BY DEF IInv
<1>3. \A m \in Messages : file[m] \in Nat /\ file'[m] \in {0, file[m]}
  BY <1>2, CountTasks DEF TypeOK
<1>4. Running' = {} /\ \A t \in Tasks : state'[t] # "none" <=> state[t] # "none"
  BY <1>1 DEF Running
<1>5. TypeOK'
  <2>1. file' \in [Messages -> 0..Cardinality(Tasks)]
    <3>1. 0 \in 0..Cardinality(Tasks) /\ file \in [Messages -> 0..Cardinality(Tasks)]
      BY <1>2, CountTasks DEF TypeOK
    <3> QED
      BY <3>1
  <2>2. /\ state' \in [Tasks -> {"none", "running", "ended", "gone"}]
        /\ again' \in [Tasks -> SUBSET Types]
        /\ event' \in [Tasks -> Types \cup {"none"}]
        /\ tries' \in [Tasks -> 0..Attempts]
    BY <1>1, ChannelAssumption
  <2>3. next' \in [Tasks -> Nat] /\ \A t \in Tasks : next'[t] <= Len(plan'[t].types)
    BY <1>1, <1>2, PlannedTypes DEF TypeOK
  <2> QED
    BY <1>1, <1>2, <2>1, <2>2, <2>3 DEF TypeOK
<1>6. FileCoversRunning' /\ EntriesHaveTasks' /\ RunsInProcess'
  BY <1>1, <1>4 DEF FileCoversRunning, EntriesHaveTasks, RunsInProcess
<1>7. AcceptedIsKept'
  <2> SUFFICES ASSUME NEW t \in Tasks, state'[t] # "none"
               PROVE  file'[msg'[t]] > 0 \/ msg'[t] \in finished' \cup lost'
    BY DEF AcceptedIsKept
  <2>1. msg[t] \in Messages /\ (file[msg[t]] > 0 \/ msg[t] \in finished \cup lost)
    BY <1>2, <1>4 DEF IInv, AcceptedIsKept, TypeOK
  <2>2. file'[msg[t]] = file[msg[t]] \/ file[msg[t]] = 0 \/ msg[t] \in lost'
    BY <2>1
  <2> QED
    BY <1>1, <2>1, <2>2
<1>8. NothingDropped' /\ StartsFresh'
  BY <1>1 DEF NothingDropped, StartsFresh
<1>9. EntriesCounted'
  <2> SUFFICES ASSUME NEW m \in Messages PROVE file'[m] <= Cardinality(Deliveries(m)')
    BY DEF EntriesCounted, Deliveries
  <2>1. Deliveries(m)' = Deliveries(m)
    BY <1>1, <1>4 DEF Deliveries
  <2>2. file[m] <= Cardinality(Deliveries(m)) /\ Cardinality(Deliveries(m)) \in Nat
    BY CountTasks DEF IInv, EntriesCounted, Deliveries
  <2> QED
    BY <1>3, <2>1, <2>2
<1> QED
  BY <1>5, <1>6, <1>7, <1>8, <1>9 DEF IInv

\* The process ends: what ran is left to the file.
LEMMA EndStep ==
    ASSUME IInv, Crash \/ CrashWriting \/ Drained \/ DrainTimesOut
    PROVE  IInv'
<1>1. TypeOK /\ stops \in 0..MaxStops /\ MaxStops \in Nat
  BY ChannelAssumption DEF IInv, TypeOK
<1>2. CASE Crash
  <2>1. Die /\ stops' = stops + 1 /\ stops < MaxStops /\ UNCHANGED <<file, crm, finished, lost>>
    BY <1>2 DEF Crash
  <2>2. stops' \in 0..MaxStops /\ lost' \in SUBSET Messages
    BY <1>1, <2>1 DEF TypeOK
  <2> QED
    BY <2>1, <2>2, DieStep
<1>3. CASE CrashWriting
  <2>1. /\ Die /\ stops' = stops + 1 /\ stops < MaxStops /\ UNCHANGED <<crm, finished>>
        /\ file' = [m \in Messages |-> 0]
        /\ lost' = lost \cup {m \in Messages : file[m] > 0} \cup {msg[t] : t \in Running}
    BY <1>3 DEF CrashWriting
  <2>2. stops' \in 0..MaxStops /\ lost \subseteq lost' /\ lost' \in SUBSET Messages
    BY <1>1, <2>1 DEF TypeOK, Running
  <2>3. file' = [m \in Messages |-> IF m \in Messages THEN 0 ELSE file[m]]
    BY <2>1
  <2>4. \A m \in Messages : file'[m] = file[m] \/ file[m] = 0 \/ m \in lost'
    BY <1>1, <2>1, CountTasks DEF TypeOK
  <2>5. \E cut \in SUBSET Messages :
            file' = [m \in Messages |-> IF m \in cut THEN 0 ELSE file[m]]
    BY <2>3
  <2> QED
    BY <2>1, <2>2, <2>4, <2>5, DieStep
<1>4. CASE Drained
  <2>1. Die /\ UNCHANGED <<file, crm, stops, finished, lost>>
    BY <1>4 DEF Drained
  <2> QED
    BY <1>1, <2>1, DieStep DEF TypeOK
<1>5. CASE DrainTimesOut
  <2> DEFINE cut == {msg[t] : t \in Running}
  <2>1. /\ Die /\ UNCHANGED <<crm, stops, finished>>
        /\ \/ /\ file' = [m \in Messages |-> IF m \in cut THEN 0 ELSE file[m]]
              /\ lost' = lost \cup cut
           \/ UNCHANGED <<file, lost>>
    BY <1>5 DEF DrainTimesOut
  <2>2. cut \in SUBSET Messages
    BY <1>1 DEF TypeOK, Running
  <2> HIDE DEF cut
  <2>3. lost \subseteq lost' /\ lost' \in SUBSET Messages
    BY <1>1, <2>1, <2>2 DEF TypeOK
  <2>4. \A m \in Messages : file'[m] = file[m] \/ file[m] = 0 \/ m \in lost'
    BY <2>1
  <2> QED
    BY <1>1, <2>1, <2>2, <2>3, <2>4, DieStep
<1> QED
  BY <1>2, <1>3, <1>4, <1>5

\* Start, Resume and Shutdown touch nothing but the process.
LEMMA ProcessStep ==
    ASSUME IInv, Start \/ Resume \/ Shutdown
    PROVE  IInv'
<1>1. UNCHANGED <<file, state, msg, plan, next, again, event, tries, crm, dead, finished, lost>>
  BY DEF Start, Resume, Shutdown, task
<1>2. /\ phase' \in {"down", "starting", "up", "draining"}
      /\ stops' \in 0..MaxStops
  BY ChannelAssumption DEF Start, Resume, Shutdown, IInv, TypeOK
<1>3. TypeOK'
  BY <1>1, <1>2 DEF IInv, TypeOK
<1>4. EntriesHaveTasks'
  <2>1. CASE phase' \in {"up", "draining"} /\ phase = "starting"
    BY <2>1 DEF Start, Resume, Shutdown, EntriesHaveTasks
  <2>2. CASE phase = "up"
    BY <1>1, <2>2 DEF IInv, EntriesHaveTasks, Running
  <2>3. CASE phase' \notin {"up", "draining"}
    BY <2>3 DEF EntriesHaveTasks
  <2> QED
    BY <2>1, <2>2, <2>3 DEF Start, Resume, Shutdown
<1>5. FileCoversRunning' /\ AcceptedIsKept' /\ NothingDropped'
  BY <1>1 DEF IInv, FileCoversRunning, AcceptedIsKept, NothingDropped, Running
<1>6. EntriesCounted' /\ StartsFresh'
  BY <1>1 DEF IInv, EntriesCounted, StartsFresh
<1>7. RunsInProcess'
  BY <1>1 DEF IInv, RunsInProcess, Running, Start, Resume, Shutdown
<1> QED
  BY <1>3, <1>4, <1>5, <1>6, <1>7 DEF IInv

\* Every step keeps the invariant.
LEMMA NextInvariant == IInv /\ [Next]_vars => IInv'
<1> SUFFICES ASSUME IInv, [Next]_vars PROVE IInv'
  OBVIOUS
<1>1. CASE UNCHANGED vars
  <2>1. UNCHANGED <<phase, file, state, msg, plan, next, again, event, tries, crm, dead, stops,
                    finished, lost>>
    BY <1>1 DEF vars
  <2>2. TypeOK' /\ NothingDropped' /\ StartsFresh'
    BY <2>1 DEF IInv, TypeOK, NothingDropped, StartsFresh
  <2> QED
    BY <2>1, <2>2, DeliveryStep
<1>2. CASE Start \/ Resume \/ Shutdown
  BY <1>2, ProcessStep
<1>3. CASE Crash \/ CrashWriting \/ Drained \/ DrainTimesOut
  BY <1>3, EndStep
<1>4. ASSUME NEW S \in SUBSET {t \in Tasks : state[t] = "none"},
             NEW messages \in [S -> Messages], NEW plans \in [S -> Plans],
             Send(S, messages, plans)
      PROVE  IInv'
  BY <1>4, SendStep
<1>5. ASSUME NEW t \in Tasks, Deliver(t)
      PROVE  IInv'
  BY <1>5, NextEventStep, PostedStep, PostFailedStep, DeadLetterStep, FinishStep DEF Deliver
<1> QED
  BY <1>1, <1>2, <1>3, <1>4, <1>5 DEF Next

-----------------------------------------------------------------------------
(* The theorems. *)

\* The inductive invariant of the channel service holds throughout.
THEOREM Invariant == Spec => []IInv
  BY InitInvariant, NextInvariant, PTL DEF Spec

\* Every variable keeps its type; no message has more entries than there are tasks.
THEOREM TypeCorrect == Spec => []TypeOK
<1>1. IInv => TypeOK
  BY DEF IInv
<1> QED
  BY <1>1, Invariant, PTL

\* A crash at any moment finds each delivery in progress on file, unless another
\* delivery of the same message has ended before (_remove_pending by id).
THEOREM RunningIsOnFile == Spec => []FileCoversRunning
<1>1. IInv => FileCoversRunning
  BY DEF IInv
<1> QED
  BY <1>1, Invariant, PTL

\* In a process that is up no entry waits for a task that never comes.
THEOREM EntriesAreServed == Spec => []EntriesHaveTasks
<1>1. IInv => EntriesHaveTasks
  BY DEF IInv
<1> QED
  BY <1>1, Invariant, PTL

\* Of what a 202 was given for, only a delivery's end, a torn write or the end of a
\* drain take the last trace.
THEOREM AcceptedStays == Spec => []AcceptedIsKept
<1>1. IInv => AcceptedIsKept
  BY DEF IInv
<1> QED
  BY <1>1, Invariant, PTL

\* No event of a plan is passed over: it is with the CRM, in the dead letters, or
\* being posted.
THEOREM EventsAccountedFor == Spec => []NothingDropped
<1>1. IInv => NothingDropped
  BY DEF IInv
<1> QED
  BY <1>1, Invariant, PTL

=============================================================================
