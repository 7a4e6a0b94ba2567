------------------------------ MODULE Channel ------------------------------
(***************************************************************************)
(* The channel service: POST /send records each message in the pending     *)
(* file and starts a task for it; a task posts its planned callbacks to    *)
(* the CRM one at a time, each up to three times, and takes the message    *)
(* out of the file when it ends.  The process may crash anywhere, also     *)
(* while it rewrites the file, and be shut down and started again; the     *)
(* file survives, tasks and dead letters do not.                           *)
(*                                                                         *)
(* Handlers and tasks share one event loop, and the file is read and       *)
(* written without an await: a send or the end of a task is one step.      *)
(***************************************************************************)
EXTENDS Naturals, Sequences, FiniteSets

CONSTANTS
    Messages,   \* communication ids
    Plans,      \* what plan_events may return
    Attempts,   \* Len(BACKOFF_SECONDS)
    Tasks,      \* bound: the deliveries there ever are; one message may have several
    MaxStops    \* bound: how often the process ends

VARIABLES
    phase,      \* the process: down, starting (in lifespan), up, draining
    file,       \* PENDING_PATH: how many entries it has for each message
    state,      \* per task: none, running, ended, gone (with its process)
    msg,        \* per task: its message, once it has started
    plan,       \* per task: its plan, likewise
    next,       \* per task: how many originals of the plan it has taken up
    again,      \* per task: duplicates whose original has been posted
    event,      \* per task: the event it is posting, "none" between two
    tries,      \* per task: posts of that event so far
    crm,        \* callbacks the CRM has received
    dead,       \* dead_letters
    stops,      \* bounded by MaxStops
    finished,   \* history: messages one of whose tasks came to its end
    lost        \* history: messages cut off by a shutdown or a torn write

task == <<msg, plan, next, again, event, tries>>
vars == <<phase, file, state, msg, plan, next, again, event, tries, crm, dead, stops, finished, lost>>

Types == UNION {{p.types[i] : i \in DOMAIN p.types} : p \in Plans}
Callbacks == Messages \X Types

ASSUME ChannelAssumption ==
    /\ Attempts \in Nat \ {0} /\ MaxStops \in Nat /\ IsFiniteSet(Tasks)
    /\ Messages # {}
    /\ Plans # {} /\ "none" \notin Types
    /\ \A p \in Plans : p.types \in Seq(Types)

Running == {t \in Tasks : state[t] = "running"}

TypeOK ==
    /\ phase \in {"down", "starting", "up", "draining"}
    /\ file \in [Messages -> 0..Cardinality(Tasks)]
    /\ state \in [Tasks -> {"none", "running", "ended", "gone"}]
    /\ msg \in [Tasks -> Messages]
    /\ plan \in [Tasks -> Plans]
    /\ next \in [Tasks -> Nat] /\ \A t \in Tasks : next[t] <= Len(plan[t].types)
    /\ again \in [Tasks -> SUBSET Types]
    /\ event \in [Tasks -> Types \cup {"none"}]
    /\ tries \in [Tasks -> 0..Attempts]
    /\ crm \in SUBSET Callbacks
    /\ dead \in SUBSET Callbacks
    /\ stops \in 0..MaxStops
    /\ finished \in SUBSET Messages
    /\ lost \in SUBSET Messages

Init ==
    /\ phase = "down"
    /\ file = [m \in Messages |-> 0]
    /\ state = [t \in Tasks |-> "none"]
    /\ msg = [t \in Tasks |-> CHOOSE m \in Messages : TRUE]
    /\ plan = [t \in Tasks |-> CHOOSE p \in Plans : TRUE]
    /\ next = [t \in Tasks |-> 0]
    /\ again = [t \in Tasks |-> {}]
    /\ event = [t \in Tasks |-> "none"]
    /\ tries = [t \in Tasks |-> 0]
    /\ crm = {} /\ dead = {}
    /\ stops = 0
    /\ finished = {} /\ lost = {}

-----------------------------------------------------------------------------
\* The process.

Start ==
    /\ phase = "down"
    /\ phase' = "starting"
    /\ UNCHANGED <<file, state, task, crm, dead, stops, finished, lost>>

\* Wrong on purpose: entries of an earlier run are left where they are.
ResumeNothing ==
    /\ phase = "starting"
    /\ phase' = "up"
    /\ UNCHANGED <<file, state, task, crm, dead, stops, finished, lost>>

\* lifespan goes through the entries.  The first one raises: SendMessage demands a
\* recipient, which neither the entry nor the call has.  So the service comes up
\* with an empty file or not at all, and no entry ever gets a task.
Resume ==
    /\ phase = "starting"
    /\ phase' = IF \A m \in Messages : file[m] = 0 THEN "up" ELSE "down"
    /\ UNCHANGED <<file, state, task, crm, dead, stops, finished, lost>>

Shutdown ==
    /\ phase = "up"
    /\ stops < MaxStops
    /\ stops' = stops + 1
    /\ phase' = "draining"
    /\ UNCHANGED <<file, state, task, crm, dead, finished, lost>>

\* The process ends, and its memory with it.
Die ==
    /\ phase' = "down"
    /\ state' = [t \in Tasks |-> IF state[t] = "none" THEN "none" ELSE "gone"]
    /\ next' = [t \in Tasks |-> 0]
    /\ again' = [t \in Tasks |-> {}]
    /\ event' = [t \in Tasks |-> "none"]
    /\ tries' = [t \in Tasks |-> 0]
    /\ dead' = {}
    /\ UNCHANGED <<msg, plan>>

Crash ==
    /\ phase \in {"up", "draining"}
    /\ stops < MaxStops
    /\ stops' = stops + 1
    /\ Die
    /\ UNCHANGED <<file, crm, finished, lost>>

\* Between truncating the file and writing it: what is left is no JSON, and
\* _load_pending takes that for an empty list.
CrashWriting ==
    /\ phase = "up" \/ (phase = "draining" /\ Running # {})
    /\ stops < MaxStops
    /\ stops' = stops + 1
    /\ file' = [m \in Messages |-> 0]
    /\ lost' = lost \cup {m \in Messages : file[m] > 0} \cup {msg[t] : t \in Running}
    /\ Die
    /\ UNCHANGED <<crm, finished>>

Drained ==
    /\ phase = "draining"
    /\ Running = {}
    /\ Die
    /\ UNCHANGED <<file, crm, stops, finished, lost>>

\* After thirty seconds the tasks left are cancelled with the event loop, and the
\* finally of each still takes its message out of the file; or the signal that
\* uvicorn raises again ends the process before that.
DrainTimesOut ==
    /\ phase = "draining"
    /\ Running # {}
    /\ LET cut == {msg[t] : t \in Running}
       IN  \/ /\ file' = [m \in Messages |-> IF m \in cut THEN 0 ELSE file[m]]
              /\ lost' = lost \cup cut
           \/ UNCHANGED <<file, lost>>
    /\ Die
    /\ UNCHANGED <<crm, stops, finished>>

-----------------------------------------------------------------------------
\* Requests and deliveries.

\* The tasks in S start, each with a message and a plan.
Spawn(S, messages, plans) ==
    /\ state' = [t \in Tasks |-> IF t \in S THEN "running" ELSE state[t]]
    /\ msg' = [t \in Tasks |-> IF t \in S THEN messages[t] ELSE msg[t]]
    /\ plan' = [t \in Tasks |-> IF t \in S THEN plans[t] ELSE plan[t]]

\* Wrong on purpose: the messages are not put on file.
SendUnrecorded(S, messages, plans) ==
    /\ phase = "up"
    /\ Spawn(S, messages, plans)
    /\ UNCHANGED <<phase, file, next, again, event, tries, crm, dead, stops, finished, lost>>

\* POST /send: each message of the batch gets an entry in the file and a task.
Send(S, messages, plans) ==
    /\ phase = "up"
    /\ file' = [m \in Messages |-> file[m] + Cardinality({t \in S : messages[t] = m})]
    /\ Spawn(S, messages, plans)
    /\ UNCHANGED <<phase, next, again, event, tries, crm, dead, stops, finished, lost>>

InLoop(t) == phase \in {"up", "draining"} /\ state[t] = "running"

\* The loop takes up the next planned event: the next original, or a duplicate.
NextEvent(t) ==
    /\ InLoop(t)
    /\ event[t] = "none"
    /\ \/ /\ next[t] < Len(plan[t].types)
          /\ next' = [next EXCEPT ![t] = @ + 1]
          /\ event' = [event EXCEPT ![t] = plan[t].types[next'[t]]]
          /\ again' = [again EXCEPT ![t] = @ \cup ({event'[t]} \cap plan[t].dups)]
       \/ \E e \in again[t] :
          /\ event' = [event EXCEPT ![t] = e]
          /\ again' = [again EXCEPT ![t] = @ \ {e}]
          /\ UNCHANGED next
    /\ tries' = [tries EXCEPT ![t] = 0]
    /\ UNCHANGED <<phase, file, state, msg, plan, crm, dead, stops, finished, lost>>

\* The CRM has the callback and says so.
Posted(t) ==
    /\ InLoop(t)
    /\ event[t] # "none"
    /\ tries[t] < Attempts
    /\ crm' = crm \cup {<<msg[t], event[t]>>}
    /\ event' = [event EXCEPT ![t] = "none"]
    /\ UNCHANGED <<phase, file, state, msg, plan, next, again, tries, dead, stops, finished, lost>>

\* Wrong on purpose: one attempt more than there are backoffs.
FailOnceMore(t) ==
    /\ InLoop(t)
    /\ event[t] # "none"
    /\ tries[t] <= Attempts
    /\ tries' = [tries EXCEPT ![t] = @ + 1]
    /\ UNCHANGED <<phase, file, state, msg, plan, next, again, event, crm, dead, stops, finished, lost>>

\* An error status, a time-out, a broken connection: the CRM may have it or not.
PostFailed(t) ==
    /\ InLoop(t)
    /\ event[t] # "none"
    /\ tries[t] < Attempts
    /\ \/ crm' = crm \cup {<<msg[t], event[t]>>}
       \/ UNCHANGED crm
    /\ tries' = [tries EXCEPT ![t] = @ + 1]
    /\ UNCHANGED <<phase, file, state, msg, plan, next, again, event, dead, stops, finished, lost>>

\* Wrong on purpose: the event is given up without a trace.
Forget(t) ==
    /\ InLoop(t)
    /\ event[t] # "none"
    /\ tries[t] = Attempts
    /\ event' = [event EXCEPT ![t] = "none"]
    /\ UNCHANGED <<phase, file, state, msg, plan, next, again, tries, crm, dead, stops, finished, lost>>

\* Wrong on purpose: the attempts start all over again.
RetryAgain(t) ==
    /\ InLoop(t)
    /\ event[t] # "none"
    /\ tries[t] = Attempts
    /\ tries' = [tries EXCEPT ![t] = 0]
    /\ UNCHANGED <<phase, file, state, msg, plan, next, again, event, crm, dead, stops, finished, lost>>

\* After the last attempt and its backoff the event goes to the dead letters, and
\* the delivery goes on with the next one.
DeadLetter(t) ==
    /\ InLoop(t)
    /\ event[t] # "none"
    /\ tries[t] = Attempts
    /\ dead' = dead \cup {<<msg[t], event[t]>>}
    /\ event' = [event EXCEPT ![t] = "none"]
    /\ UNCHANGED <<phase, file, state, msg, plan, next, again, tries, crm, stops, finished, lost>>

\* Wrong on purpose: the file is emptied.
RemoveAll(m) == [x \in Messages |-> 0]

\* _remove_pending: every entry of the message goes, whichever task it was for.
RemovePending(m) == [file EXCEPT ![m] = 0]

Finish(t) ==
    /\ InLoop(t)
    /\ event[t] = "none" /\ next[t] = Len(plan[t].types) /\ again[t] = {}
    /\ state' = [state EXCEPT ![t] = "ended"]
    /\ file' = RemovePending(msg[t])
    /\ finished' = finished \cup {msg[t]}
    /\ UNCHANGED <<phase, task, crm, dead, stops, lost>>

-----------------------------------------------------------------------------
Deliver(t) == NextEvent(t) \/ Posted(t) \/ PostFailed(t) \/ DeadLetter(t) \/ Finish(t)

Next ==
    \/ Start \/ Resume \/ Shutdown \/ Crash \/ CrashWriting \/ Drained \/ DrainTimesOut
    \/ \E S \in SUBSET {t \in Tasks : state[t] = "none"} \ {{}} :
          \E messages \in [S -> Messages], plans \in [S -> Plans] : Send(S, messages, plans)
    \/ \E t \in Tasks : Deliver(t)

Spec == Init /\ [][Next]_vars

\* The platform starts the service again whenever it is down, the event loop runs
\* every task, and a drain ends one way or the other.  Nothing has to be sent or
\* to stop.
Fairness ==
    /\ WF_vars(Start)
    /\ WF_vars(Resume)
    /\ WF_vars(Drained \/ DrainTimesOut)
    /\ \A t \in Tasks : WF_vars(Deliver(t))

LiveSpec == Spec /\ Fairness

-----------------------------------------------------------------------------
(***************************************************************************)
(* Properties                                                              *)
(***************************************************************************)
\* A delivery in progress is on file, so that a crash leaves a trace of it; only
\* another delivery of the same message, ending first, takes its entry away.
FileCoversRunning ==
    \A t \in Running :
        \/ file[msg[t]] > 0
        \/ \E u \in Tasks : u # t /\ msg[u] = msg[t] /\ state[u] = "ended"

\* While the service is up every entry of the file belongs to a delivery in
\* progress: none waits for a task that will never come.
EntriesHaveTasks ==
    phase \in {"up", "draining"} =>
        \A m \in Messages : file[m] > 0 => \E t \in Running : msg[t] = m

\* What a 202 was given for is on file until one of its deliveries ends, unless
\* a torn write or the end of a drain cut it off.
AcceptedIsKept ==
    \A t \in Tasks :
        state[t] # "none" => file[msg[t]] > 0 \/ msg[t] \in finished \cup lost

\* Every event a delivery has taken up has reached the CRM, is a dead letter, or
\* is being posted: a delivery that ends has dropped nothing of its plan.
NothingDropped ==
    \A t \in Tasks : state[t] \in {"running", "ended"} =>
        \A i \in 1..next[t] :
            \/ <<msg[t], plan[t].types[i]>> \in crm \cup dead
            \/ event[t] = plan[t].types[i]

\* Every delivery ends, however often the CRM fails and the process stops.
DeliveriesEnd == \A t \in Tasks : state[t] = "running" ~> state[t] # "running"

\* "Persistent delivery plan file so in-flight deliveries survive restarts": a
\* message that is on file when the service is down gets a task again.
DeliveriesSurviveRestarts ==
    \A m \in Messages :
        (phase = "down" /\ file[m] > 0) ~> (\E t \in Running : msg[t] = m)
-----------------------------------------------------------------------------
(***************************************************************************)
(* The inductive invariant.                                                *)
(***************************************************************************)
\* The file has no more entries of a message than there were deliveries of it.
EntriesCounted ==
    \A m \in Messages :
        file[m] <= Cardinality({t \in Tasks : state[t] # "none" /\ msg[t] = m})

\* A task that has not started has taken up no event.
StartsFresh ==
    \A t \in Tasks : state[t] = "none" => next[t] = 0 /\ event[t] = "none" /\ again[t] = {}

\* No delivery outlives its process.
RunsInProcess == phase \in {"down", "starting"} => Running = {}

IInv ==
    /\ TypeOK
    /\ FileCoversRunning
    /\ EntriesHaveTasks
    /\ AcceptedIsKept
    /\ NothingDropped
    /\ EntriesCounted
    /\ StartsFresh
    /\ RunsInProcess
=============================================================================
