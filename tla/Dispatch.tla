------------------------------ MODULE Dispatch ------------------------------
(***************************************************************************)
(* The life of one campaign under concurrent API requests: it is created   *)
(* with its queued communications, approved, dispatched or executed (the   *)
(* same dispatch behind an approval check), and deleted.  A handler reads  *)
(* the campaign, decides, and writes in a later transaction; in between    *)
(* other handlers run.  The channel service is another process: a batch    *)
(* posted to it may be taken whole, in part, late or never, and its answer *)
(* may come after the client's time-out.                                   *)
(*                                                                         *)
(* A refused request (404, 409) changes nothing and is no step here.       *)
(***************************************************************************)
EXTENDS Naturals, FiniteSets

CONSTANTS
    Workers,    \* requests that may be in progress at once
    Comms,      \* the ids communications may get, ordered as ORDER BY orders them
    BatchSize   \* BATCH_SIZE

ASSUME DispatchAssumption ==
    /\ Comms \in SUBSET Nat
    /\ IsFiniteSet(Comms)
    /\ BatchSize \in Nat \ {0}

VARIABLES
    campaign,   \* the row: its status and the proposal_state in its ai_reasoning
    audience,   \* the communications created with the campaign
    queued,     \* those of them that exist with status queued
    op, pc,     \* per request: what was asked, and the step it is at
    rows,       \* per request: the communications read and not yet taken by the channel
    wire,       \* batches posted to the channel that it has not handled yet
    answer,     \* per request: the channel's answer to its last batch
    handed,     \* history: how often the channel took each communication
    raced       \* history: two requests were in one draft's dispatch at once

request == <<op, pc, rows, answer>>
history == <<handed, raced>>
vars == <<campaign, audience, queued, op, pc, rows, wire, answer, handed, raced>>

\* "none": not created yet; "gone": deleted.
CampaignStatus == {"none", "draft", "dispatching", "active", "gone"}
ProposalState == {"none", "pending", "approved"}
Ops == {"dispatch", "execute", "approve", "delete"}

\* The first n of the communications in R.
First(R, n) == {c \in R : Cardinality({d \in R : d < c}) < n}

Batch(w) == First(rows[w], BatchSize)

TypeOK ==
    /\ campaign \in [status : CampaignStatus, proposal_state : ProposalState]
    /\ audience \in SUBSET Comms
    /\ queued \in SUBSET audience
    /\ op \in [Workers -> Ops]
    /\ pc \in [Workers -> {"idle", "select", "commit", "post", "waiting", "active", "write"}]
    /\ rows \in [Workers -> SUBSET Comms]
    /\ wire \in SUBSET [from : Workers, batch : SUBSET Comms]
    /\ answer \in [Workers -> {"none", "ok", "error"}]
    /\ handed \in [Comms -> Nat]
    /\ raced \in BOOLEAN

\* No campaign yet, or a draft proposal that an earlier version of
\* propose_campaign stored: nothing writes a proposal_state today, and the
\* approve and execute endpoints still serve such rows.
Init ==
    /\ \/ /\ campaign = [status |-> "none", proposal_state |-> "none"]
          /\ audience = {}
       \/ /\ campaign = [status |-> "draft", proposal_state |-> "pending"]
          /\ audience = Comms
    /\ queued = audience
    /\ op = [w \in Workers |-> "dispatch"]
    /\ pc = [w \in Workers |-> "idle"]
    /\ rows = [w \in Workers |-> {}]
    /\ wire = {}
    /\ answer = [w \in Workers |-> "none"]
    /\ handed = [c \in Comms |-> 0]
    /\ raced = FALSE

-----------------------------------------------------------------------------
\* create_campaign: the campaign and one queued communication for each customer
\* the segment selects become visible in one commit.
CreateCampaign(members) ==
    /\ campaign.status = "none"
    /\ campaign' = [campaign EXCEPT !.status = "draft"]
    /\ audience' = members
    /\ queued' = members
    /\ UNCHANGED <<request, wire, history>>

\* The request's session reads the campaign row.
Read(w, o, next) ==
    /\ pc[w] = "idle"
    /\ campaign.status \notin {"none", "gone"}
    /\ op' = [op EXCEPT ![w] = o]
    /\ pc' = [pc EXCEPT ![w] = next]
    /\ UNCHANGED <<campaign, audience, queued, rows, wire, answer, history>>

\* Wrong on purpose: no draft check.
AnyStatus == TRUE
\* dispatch_campaign's guard, on the row as it was read.
IsDraft == campaign.status = "draft"

ReadToDispatch(w) == IsDraft /\ Read(w, "dispatch", "select")

\* Wrong on purpose: a pending proposal passes.
AnyProposal == campaign.proposal_state # "none"
\* execute_proposal's guard.
IsApproved == campaign.proposal_state = "approved"

\* execute_proposal goes on into dispatch_campaign, whose session.get returns
\* the row this session already holds: nothing is read again.
ReadToExecute(w) == IsApproved /\ IsDraft /\ Read(w, "execute", "select")

ReadToApprove(w) == campaign.proposal_state # "none" /\ Read(w, "approve", "write")

ReadToDelete(w) == Read(w, "delete", "write")

SelectQueued(w) ==
    /\ pc[w] = "select"
    /\ rows' = [rows EXCEPT ![w] = queued]
    /\ pc' = [pc EXCEPT ![w] = "commit"]
    /\ UNCHANGED <<campaign, audience, queued, op, wire, answer, history>>

\* The request ends, with an answer or without.
Leave(w) ==
    /\ pc' = [pc EXCEPT ![w] = "idle"]
    /\ rows' = [rows EXCEPT ![w] = {}]
    /\ answer' = [answer EXCEPT ![w] = "none"]
    /\ op' = [op EXCEPT ![w] = "dispatch"]

\* Where the loop over the batches goes with R left to post.
NextPost(R) == IF R = {} THEN "active" ELSE "post"

\* Wrong on purpose: the status is left to the commit at the end.
CommitAtTheEnd(w) ==
    /\ pc[w] = "commit" /\ campaign.status # "gone"
    /\ pc' = [pc EXCEPT ![w] = NextPost(rows[w])]
    /\ UNCHANGED <<campaign, audience, queued, op, rows, wire, answer, history>>

\* The first commit: from here on a failure leaves the campaign dispatching.  The
\* UPDATE names the row by its id and not by the status that was read.
CommitDispatching(w) ==
    /\ pc[w] = "commit"
    /\ campaign.status # "gone"
    /\ campaign' = [campaign EXCEPT !.status = "dispatching"]
    /\ pc' = [pc EXCEPT ![w] = NextPost(rows[w])]
    /\ raced' = (raced \/ \E v \in Workers \ {w} : pc[v] \in {"select", "commit"})
    /\ UNCHANGED <<audience, queued, op, rows, wire, answer, handed>>

-----------------------------------------------------------------------------
PostBatch(w) ==
    /\ pc[w] = "post"
    /\ wire' = wire \cup {[from |-> w, batch |-> Batch(w)]}
    /\ answer' = [answer EXCEPT ![w] = "none"]
    /\ pc' = [pc EXCEPT ![w] = "waiting"]
    /\ UNCHANGED <<campaign, audience, queued, op, rows, history>>

\* The channel takes the first n messages of a batch; taking fewer than all of
\* them means that its handler failed.  The answer is worth something only while
\* the request waits for this very batch.
ChannelTakes(m, n) ==
    /\ m \in wire
    /\ n \in 0..Cardinality(m.batch)
    /\ wire' = wire \ {m}
    /\ handed' = [c \in Comms |->
           IF c \in First(m.batch, n) THEN handed[c] + 1 ELSE handed[c]]
    /\ answer' = [answer EXCEPT ![m.from] =
           IF pc[m.from] # "waiting" \/ Batch(m.from) # m.batch THEN @
           ELSE IF n = Cardinality(m.batch) THEN "ok" ELSE "error"]
    /\ UNCHANGED <<campaign, audience, queued, op, pc, rows, raced>>

\* Wrong on purpose: the status code of the answer is not looked at.
AcceptedOrNot(w) == pc[w] = "waiting" /\ answer[w] # "none"
Accepted(w) == pc[w] = "waiting" /\ answer[w] = "ok"

\* A 2xx answer: on to the next batch.
BatchTaken(w) ==
    /\ Accepted(w)
    /\ rows' = [rows EXCEPT ![w] = @ \ Batch(w)]
    /\ pc' = [pc EXCEPT ![w] = NextPost(rows'[w])]
    /\ UNCHANGED <<campaign, audience, queued, op, wire, answer, history>>

\* ChannelDispatchError: 502, and the campaign is left dispatching.
BatchRefused(w) ==
    /\ pc[w] = "waiting"
    /\ answer[w] = "error"
    /\ Leave(w)
    /\ UNCHANGED <<campaign, audience, queued, wire, history>>

\* Wrong on purpose: a client without a time-out.
WaitForEver(w) == FALSE

\* httpx gives up after ten seconds, whatever the channel has done or will do.
TimeOut(w) ==
    /\ pc[w] = "waiting"
    /\ Leave(w)
    /\ UNCHANGED <<campaign, audience, queued, wire, history>>

\* The second commit.  An UPDATE that finds no row (StaleDataError) fails.
CommitActive(w) ==
    /\ pc[w] = "active"
    /\ campaign' = IF campaign.status = "gone" THEN campaign
                   ELSE [campaign EXCEPT !.status = "active"]
    /\ Leave(w)
    /\ UNCHANGED <<audience, queued, wire, history>>

-----------------------------------------------------------------------------
\* approve_proposal writes the ai_reasoning column and no other.
ApproveProposal(w) ==
    /\ pc[w] = "write" /\ op[w] = "approve"
    /\ campaign.status # "gone"
    /\ campaign' = [campaign EXCEPT !.proposal_state = "approved"]
    /\ Leave(w)
    /\ UNCHANGED <<audience, queued, wire, history>>

\* delete_campaign: the communications go with the campaign.
DeleteCampaign(w) ==
    /\ pc[w] = "write" /\ op[w] = "delete"
    /\ campaign' = [campaign EXCEPT !.status = "gone"]
    /\ queued' = {}
    /\ Leave(w)
    /\ UNCHANGED <<audience, wire, history>>

\* An exception, a row that is gone, or a crash: what is committed stays.
Fail(w) ==
    /\ pc[w] # "idle"
    /\ Leave(w)
    /\ UNCHANGED <<campaign, audience, queued, wire, history>>

\* A receipt for a communication the channel has taken ends its queued state.
ReceiptArrives(c) ==
    /\ c \in queued
    /\ handed[c] > 0
    /\ queued' = queued \ {c}
    /\ UNCHANGED <<campaign, audience, request, wire, history>>

-----------------------------------------------------------------------------
\* What the request does by itself.
Step(w) ==
    \/ SelectQueued(w)    \/ CommitDispatching(w) \/ PostBatch(w)
    \/ BatchTaken(w)      \/ BatchRefused(w)      \/ CommitActive(w)
    \/ ApproveProposal(w) \/ DeleteCampaign(w)

Next ==
    \/ \E members \in SUBSET Comms : CreateCampaign(members)
    \/ \E w \in Workers :
        \/ ReadToDispatch(w) \/ ReadToExecute(w) \/ ReadToApprove(w) \/ ReadToDelete(w)
        \/ Step(w)
        \/ TimeOut(w)
        \/ Fail(w)
    \/ \E m \in wire : \E n \in 0..Cardinality(Comms) : ChannelTakes(m, n)
    \/ \E c \in Comms : ReceiptArrives(c)

Spec == Init /\ [][Next]_vars

\* The event loop runs every handler, the client's timer fires, and a statement on
\* a row that is gone raises.  The channel owes nothing.
Fairness ==
    \A w \in Workers :
        /\ WF_vars(Step(w))
        /\ WF_vars(TimeOut(w))
        /\ WF_vars(campaign.status = "gone" /\ Fail(w))

LiveSpec == Spec /\ Fairness

-----------------------------------------------------------------------------
(***************************************************************************)
(* Properties                                                              *)
(***************************************************************************)
\* Once the channel has a message, or may still get one, the campaign no longer
\* reads draft: whatever fails in the middle of a dispatch, a later one is refused.
PostedIsNotDraft ==
    (wire # {} \/ \E c \in Comms : handed[c] > 0) => campaign.status # "draft"

\* An active campaign has no communication that the channel did not take, even
\* when several dispatches shared the work between them.
ActiveMeansHanded ==
    campaign.status = "active" => \A c \in audience : handed[c] > 0

\* dispatch_campaign's draft check does keep a message from being handed over
\* twice, as long as no two requests are between the check and the first commit.
OnlyRacesSendTwice == ~raced => \A c \in Comms : handed[c] <= 1

Order == [none |-> 0, draft |-> 1, dispatching |-> 2, active |-> 3, gone |-> 4]

\* The campaign walks draft, dispatching, active and never back, as long as no
\* two requests are between the draft check and the first commit.
WalksForward ==
    [][~raced' => Order[campaign.status] <= Order[campaign'.status]]_vars

\* Nothing is sent by an execute request of a proposal that nobody approved.  A
\* plain dispatch asks for no approval and sends a pending proposal all the same.
ExecutedIsApproved ==
    \A w \in Workers :
        pc[w] # "idle" /\ op[w] = "execute" => campaign.proposal_state = "approved"

\* What BUILD_LOG.md:173 says of a second execute of an approved proposal, that it
\* "is refused by two layers": two execute requests hand nothing over twice.
DoubleExecuteIsRefused ==
    \A v, w \in Workers :
        v # w /\ op[v] = "execute" /\ op[w] = "execute" => \A c \in Comms : handed[c] <= 1

\* Every request ends, though the channel may never answer.
RequestsEnd == \A w \in Workers : pc[w] # "idle" ~> pc[w] = "idle"
-----------------------------------------------------------------------------
(***************************************************************************)
(* The inductive invariant.                                                *)
(***************************************************************************)
\* w has committed the campaign as dispatching and not yet ended.
Started(w) == pc[w] \in {"post", "waiting", "active"}
\* w has read the campaign as a draft and not yet committed.
Racing(w) == pc[w] \in {"select", "commit"}

Taken(c) == handed[c] > 0

\* Nothing has been posted for a campaign that is none or draft, and nobody has
\* read one that is none.
PostingOK ==
    /\ campaign.status = "none" => \A w \in Workers : pc[w] = "idle"
    /\ campaign.status \in {"none", "draft"} =>
           /\ wire = {}
           /\ \A c \in Comms : handed[c] = 0
           /\ \A w \in Workers : ~Started(w)

\* What a dispatch has not got in rows, the channel has.
WorkOK ==
    /\ \A c \in audience : c \in queued \/ Taken(c) \/ campaign.status = "gone"
    /\ \A w \in Workers :
        /\ pc[w] = "commit" =>
               \A c \in audience : c \in rows[w] \/ Taken(c) \/ campaign.status = "gone"
        /\ Started(w) => \A c \in audience : c \in rows[w] \/ Taken(c)
        /\ pc[w] = "active" => rows[w] = {}
        /\ Accepted(w) => \A c \in Batch(w) : Taken(c)

\* Without a race one dispatch at most has started, and what it still has to post
\* was never posted.
AloneOK ==
    ~raced =>
        /\ campaign.status \in {"dispatching", "active"} => \A w \in Workers : ~Racing(w)
        /\ \A w, v \in Workers : Started(w) /\ Started(v) => w = v
        /\ \A m, k \in wire : m = k
        /\ \A m \in wire : \A c \in m.batch : handed[c] = 0
        /\ \A w \in Workers :
            /\ pc[w] \in {"post", "active"} => wire = {}
            /\ pc[w] = "post" => \A c \in rows[w] : handed[c] = 0
            /\ pc[w] = "waiting" =>
                /\ \A c \in rows[w] \ Batch(w) : handed[c] = 0
                /\ \A m \in wire : m.batch = Batch(w)
                /\ answer[w] # "none" => wire = {}

IInv ==
    /\ TypeOK
    /\ PostingOK
    /\ WorkOK
    /\ AloneOK
    /\ ActiveMeansHanded
    /\ OnlyRacesSendTwice
    /\ ExecutedIsApproved
=============================================================================
