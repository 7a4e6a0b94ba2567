-------------------------- MODULE Dispatch_proofs --------------------------
(***************************************************************************)
(* For any number of requests, communications and batch size: what a       *)
(* dispatch guarantees whatever fails, and that only two requests between  *)
(* the draft check and the first commit can hand a message over twice.     *)
(***************************************************************************)
EXTENDS Dispatch, FiniteSetTheorems, TLAPS

\* All of a batch comes first in it.
LEMMA FirstIsAll ==
    ASSUME NEW B \in SUBSET Nat, IsFiniteSet(B)
    PROVE  First(B, Cardinality(B)) = B
<1> SUFFICES ASSUME NEW c \in B
             PROVE  Cardinality({d \in B : d < c}) < Cardinality(B)
  BY DEF First
<1> DEFINE L == {d \in B : d < c}
<1>1. L \subseteq B /\ c \notin L /\ L # B
  OBVIOUS
<1>2. Cardinality(L) \in Nat /\ Cardinality(B) \in Nat
  BY <1>1, FS_Subset, FS_CardinalityType
<1> HIDE DEF L
<1>3. Cardinality(L) <= Cardinality(B) /\ Cardinality(L) # Cardinality(B)
  BY <1>1, FS_Subset
<1>4. Cardinality(L) < Cardinality(B)
  BY <1>2, <1>3
<1> QED
  BY <1>4 DEF L

\* What is picked is part of what there was.
LEMMA FirstIsPart == \A R, n : First(R, n) \subseteq R
  BY DEF First

-----------------------------------------------------------------------------
\* The invariant holds of a campaign just proposed.
LEMMA InitInv == Init => IInv
<1> SUFFICES ASSUME Init PROVE IInv
  OBVIOUS
<1>1. TypeOK
  <2>1. campaign \in [status : CampaignStatus, proposal_state : ProposalState]
    BY DEF Init, CampaignStatus, ProposalState
  <2>2. audience \in SUBSET Comms /\ queued \in SUBSET audience
    BY DEF Init
  <2> QED
    BY <2>1, <2>2 DEF Init, TypeOK, Ops
<1>2. PostingOK /\ WorkOK /\ AloneOK
  BY DEF Init, PostingOK, WorkOK, AloneOK, Started, Racing, Taken, Accepted
<1>3. ActiveMeansHanded /\ OnlyRacesSendTwice /\ ExecutedIsApproved
  BY DEF Init, ActiveMeansHanded, OnlyRacesSendTwice, ExecutedIsApproved
<1> QED
  BY <1>1, <1>2, <1>3 DEF IInv

\* The campaign and its communications appear together.
LEMMA CreateCampaignInv ==
    ASSUME IInv, NEW members \in SUBSET Comms, CreateCampaign(members)
    PROVE  IInv'
<1> USE DEF CreateCampaign, request, history
<1>1. TypeOK'
  BY FirstIsPart DEF IInv, TypeOK, CampaignStatus, ProposalState, Ops, Batch
<1>2. PostingOK'
  BY DEF IInv, TypeOK, PostingOK, AloneOK, WorkOK, Started, Racing, Taken, Accepted, Batch
<1>3. WorkOK'
  BY DEF IInv, TypeOK, PostingOK, WorkOK, Started, Racing, Taken, Accepted, Batch
<1>4. AloneOK'
  BY DEF IInv, TypeOK, PostingOK, AloneOK, Started, Racing, Taken, Accepted, Batch
<1>5. ActiveMeansHanded'
  BY DEF IInv, TypeOK, PostingOK, WorkOK, ActiveMeansHanded, Started, Racing, Taken, Accepted, Batch
<1>6. OnlyRacesSendTwice' /\ ExecutedIsApproved'
  BY DEF IInv, TypeOK, PostingOK, OnlyRacesSendTwice, ExecutedIsApproved
<1> QED
  BY <1>1, <1>2, <1>3, <1>4, <1>5, <1>6 DEF IInv

\* A request starts on what it has read.
LEMMA ReadInv ==
    ASSUME IInv, NEW w \in Workers, ReadToDispatch(w) \/ ReadToExecute(w) \/ ReadToApprove(w) \/ ReadToDelete(w)
    PROVE  IInv'
<1> USE DEF ReadToDispatch, ReadToExecute, ReadToApprove, ReadToDelete, Read, IsDraft, IsApproved, history
<1>1. TypeOK'
  BY FirstIsPart DEF IInv, TypeOK, CampaignStatus, ProposalState, Ops, Batch
<1>2. PostingOK'
  BY DEF IInv, TypeOK, PostingOK, AloneOK, WorkOK, Started, Racing, Taken, Accepted, Batch
<1>3. WorkOK'
  BY DEF IInv, TypeOK, PostingOK, WorkOK, Started, Racing, Taken, Accepted, Batch
<1>4. AloneOK'
  BY DEF IInv, TypeOK, PostingOK, AloneOK, Started, Racing, Taken, Accepted, Batch
<1>5. ActiveMeansHanded'
  BY DEF IInv, TypeOK, PostingOK, WorkOK, ActiveMeansHanded, Started, Racing, Taken, Accepted, Batch
<1>6. OnlyRacesSendTwice' /\ ExecutedIsApproved'
  BY DEF IInv, TypeOK, PostingOK, OnlyRacesSendTwice, ExecutedIsApproved
<1> QED
  BY <1>1, <1>2, <1>3, <1>4, <1>5, <1>6 DEF IInv

\* A dispatch takes what is queued into its rows.
LEMMA SelectQueuedInv ==
    ASSUME IInv, NEW w \in Workers, SelectQueued(w)
    PROVE  IInv'
<1> USE DEF SelectQueued, history
<1>1. TypeOK'
  BY FirstIsPart DEF IInv, TypeOK, CampaignStatus, ProposalState, Ops, Batch
<1>2. PostingOK'
  BY DEF IInv, TypeOK, PostingOK, AloneOK, WorkOK, Started, Racing, Taken, Accepted, Batch
<1>3. WorkOK'
  BY DEF IInv, TypeOK, PostingOK, WorkOK, Started, Racing, Taken, Accepted, Batch
<1>4. AloneOK'
  BY DEF IInv, TypeOK, PostingOK, AloneOK, Started, Racing, Taken, Accepted, Batch
<1>5. ActiveMeansHanded'
  BY DEF IInv, TypeOK, PostingOK, WorkOK, ActiveMeansHanded, Started, Racing, Taken, Accepted, Batch
<1>6. OnlyRacesSendTwice' /\ ExecutedIsApproved'
  BY DEF IInv, TypeOK, PostingOK, OnlyRacesSendTwice, ExecutedIsApproved
<1> QED
  BY <1>1, <1>2, <1>3, <1>4, <1>5, <1>6 DEF IInv

\* Without a race the campaign was a draft until this commit.
LEMMA CommitDispatchingInv ==
    ASSUME IInv, NEW w \in Workers, CommitDispatching(w)
    PROVE  IInv'
<1> USE DEF CommitDispatching, NextPost
<1>1. TypeOK'
  BY FirstIsPart DEF IInv, TypeOK, CampaignStatus, ProposalState, Ops, Batch
<1>2. PostingOK'
  BY DEF IInv, TypeOK, PostingOK, AloneOK, WorkOK, Started, Racing, Taken, Accepted, Batch
<1>3. WorkOK'
  BY DEF IInv, TypeOK, PostingOK, WorkOK, Started, Racing, Taken, Accepted, Batch
<1>4. AloneOK'
  <2> SUFFICES ASSUME ~raced' PROVE AloneOK'
    BY DEF AloneOK
  <2>1. ~raced /\ \A v \in Workers : v # w => ~Racing(v)
    BY DEF IInv, TypeOK, Racing
  <2>2. campaign.status = "draft"
    BY <2>1 DEF IInv, TypeOK, CampaignStatus, PostingOK, AloneOK, Racing
  <2>3. wire = {} /\ (\A c \in Comms : handed[c] = 0) /\ \A v \in Workers : ~Started(v)
    BY <2>2 DEF IInv, PostingOK
  <2>4. /\ \A v \in Workers : v # w => pc'[v] = pc[v]
        /\ pc'[w] \in {"post", "active"} /\ rows'[w] \in SUBSET Comms
    BY DEF IInv, TypeOK
  <2>5. \A v \in Workers : ~Racing(v)'
    BY <2>1, <2>4 DEF Racing
  <2>6. \A v \in Workers : Started(v)' => v = w
    BY <2>3, <2>4 DEF Started
  <2>7. \A v \in Workers : pc'[v] # "waiting"
    BY <2>3, <2>4 DEF Started
  <2> QED
    BY <2>3, <2>4, <2>5, <2>6, <2>7 DEF AloneOK, Started
<1>5. ActiveMeansHanded'
  BY DEF IInv, TypeOK, PostingOK, WorkOK, ActiveMeansHanded, Started, Racing, Taken, Accepted, Batch
<1>6. OnlyRacesSendTwice' /\ ExecutedIsApproved'
  BY DEF IInv, TypeOK, PostingOK, OnlyRacesSendTwice, ExecutedIsApproved
<1> QED
  BY <1>1, <1>2, <1>3, <1>4, <1>5, <1>6 DEF IInv

\* Without a race the batch posted is the only one.
LEMMA PostBatchInv ==
    ASSUME IInv, NEW w \in Workers, PostBatch(w)
    PROVE  IInv'
<1> USE DEF PostBatch, history
<1>1. TypeOK'
  BY FirstIsPart DEF IInv, TypeOK, CampaignStatus, ProposalState, Ops, Batch
<1>2. PostingOK'
  BY DEF IInv, TypeOK, PostingOK, AloneOK, WorkOK, Started, Racing, Taken, Accepted, Batch
<1>3. WorkOK'
  BY DEF IInv, TypeOK, PostingOK, WorkOK, Started, Racing, Taken, Accepted, Batch
<1>4. AloneOK'
  <2> SUFFICES ASSUME ~raced' PROVE AloneOK'
    BY DEF AloneOK
  <2>1. Started(w) /\ ~raced
    BY DEF Started
  <2>2. wire = {} /\ \A v \in Workers : Started(v) => v = w
    BY <2>1 DEF IInv, AloneOK
  <2>3. \A c \in rows[w] : handed[c] = 0
    BY <2>1 DEF IInv, AloneOK
  <2>4. Batch(w) \subseteq rows[w] /\ Batch(w)' = Batch(w)
    BY FirstIsPart DEF Batch
  <2>5. wire' = {[from |-> w, batch |-> Batch(w)]}
    BY <2>2
  <2>6. /\ pc'[w] = "waiting" /\ answer'[w] = "none"
        /\ \A v \in Workers : v # w => pc'[v] = pc[v]
    BY DEF IInv, TypeOK
  <2>7. \A v \in Workers : Started(v)' => v = w
    BY <2>2, <2>6 DEF Started
  <2>8. campaign'.status \in {"dispatching", "active"} => \A v \in Workers : ~Racing(v)'
    BY <2>1, <2>6 DEF IInv, AloneOK, Racing
  <2>9. \A v \in Workers : pc'[v] \in {"post", "waiting", "active"} => v = w
    BY <2>7 DEF Started
  <2> HIDE DEF PostBatch
  <2>10. handed' = handed /\ rows' = rows
    BY DEF PostBatch
  <2> QED
    BY <2>3, <2>4, <2>5, <2>6, <2>7, <2>8, <2>9, <2>10 DEF AloneOK
<1>5. ActiveMeansHanded'
  BY DEF IInv, TypeOK, PostingOK, WorkOK, ActiveMeansHanded, Started, Racing, Taken, Accepted, Batch
<1>6. OnlyRacesSendTwice' /\ ExecutedIsApproved'
  BY DEF IInv, TypeOK, PostingOK, OnlyRacesSendTwice, ExecutedIsApproved
<1> QED
  BY <1>1, <1>2, <1>3, <1>4, <1>5, <1>6 DEF IInv

\* What leaves the rows is with the channel.
LEMMA BatchTakenInv ==
    ASSUME IInv, NEW w \in Workers, BatchTaken(w)
    PROVE  IInv'
<1> USE DEF BatchTaken, NextPost, history
<1>1. TypeOK'
  BY FirstIsPart DEF IInv, TypeOK, CampaignStatus, ProposalState, Ops, Batch
<1>2. PostingOK'
  BY DEF IInv, TypeOK, PostingOK, AloneOK, WorkOK, Started, Racing, Taken, Accepted, Batch
<1>3. WorkOK'
  BY DEF IInv, TypeOK, PostingOK, WorkOK, Started, Racing, Taken, Accepted, Batch
<1>4. AloneOK'
  BY DEF IInv, TypeOK, PostingOK, AloneOK, Started, Racing, Taken, Accepted, Batch
<1>5. ActiveMeansHanded'
  BY DEF IInv, TypeOK, PostingOK, WorkOK, ActiveMeansHanded, Started, Racing, Taken, Accepted, Batch
<1>6. OnlyRacesSendTwice' /\ ExecutedIsApproved'
  <2>1. pc[w] # "idle" /\ \A v \in Workers : v # w => pc'[v] = pc[v]
    BY DEF IInv, TypeOK, Accepted
  <2> QED
    BY <2>1 DEF IInv, OnlyRacesSendTwice, ExecutedIsApproved
<1> QED
  BY <1>1, <1>2, <1>3, <1>4, <1>5, <1>6 DEF IInv

\* A request that ends without a write keeps nothing.
LEMMA EndedInv ==
    ASSUME IInv, NEW w \in Workers, BatchRefused(w) \/ TimeOut(w) \/ Fail(w)
    PROVE  IInv'
<1> USE DEF BatchRefused, TimeOut, Fail, Leave, history
<1>1. TypeOK'
  BY FirstIsPart DEF IInv, TypeOK, CampaignStatus, ProposalState, Ops, Batch
<1>2. PostingOK'
  BY DEF IInv, TypeOK, PostingOK, AloneOK, WorkOK, Started, Racing, Taken, Accepted, Batch
<1>3. WorkOK'
  BY DEF IInv, TypeOK, PostingOK, WorkOK, Started, Racing, Taken, Accepted, Batch
<1>4. AloneOK'
  BY DEF IInv, TypeOK, PostingOK, AloneOK, Started, Racing, Taken, Accepted, Batch
<1>5. ActiveMeansHanded'
  BY DEF IInv, TypeOK, PostingOK, WorkOK, ActiveMeansHanded, Started, Racing, Taken, Accepted, Batch
<1>6. OnlyRacesSendTwice' /\ ExecutedIsApproved'
  BY DEF IInv, TypeOK, PostingOK, OnlyRacesSendTwice, ExecutedIsApproved
<1> QED
  BY <1>1, <1>2, <1>3, <1>4, <1>5, <1>6 DEF IInv

\* The campaign gets active when there is nothing left to post.
LEMMA CommitActiveInv ==
    ASSUME IInv, NEW w \in Workers, CommitActive(w)
    PROVE  IInv'
<1> USE DEF CommitActive, Leave, history
<1>1. TypeOK'
  BY FirstIsPart DEF IInv, TypeOK, CampaignStatus, ProposalState, Ops, Batch
<1>2. PostingOK'
  BY DEF IInv, TypeOK, PostingOK, AloneOK, WorkOK, Started, Racing, Taken, Accepted, Batch
<1>3. WorkOK'
  BY DEF IInv, TypeOK, PostingOK, WorkOK, Started, Racing, Taken, Accepted, Batch
<1>4. AloneOK'
  <2>1. /\ pc'[w] = "idle" /\ pc[w] = "active"
        /\ \A v \in Workers : v # w => /\ pc'[v] = pc[v] /\ rows'[v] = rows[v]
                                       /\ answer'[v] = answer[v]
    BY DEF IInv, TypeOK
  <2>2. campaign.status \notin {"none", "draft"}
    BY <2>1 DEF IInv, PostingOK, Started
  <2>3. campaign.status \in {"dispatching", "active", "gone"}
    BY <2>2 DEF IInv, TypeOK, CampaignStatus
  <2>4. campaign'.status \in {"dispatching", "active"} =>
            campaign.status \in {"dispatching", "active"}
    BY <2>3
  <2>5. \A v \in Workers : v # w => Batch(v)' = Batch(v)
    BY <2>1 DEF Batch
  <2> HIDE DEF CommitActive
  <2>6. wire' = wire /\ handed' = handed /\ raced' = raced
    BY DEF CommitActive, history
  <2> QED
    BY <2>1, <2>4, <2>5, <2>6 DEF IInv, AloneOK, Started, Racing
<1>5. ActiveMeansHanded'
  BY DEF IInv, TypeOK, PostingOK, WorkOK, ActiveMeansHanded, Started, Racing, Taken, Accepted, Batch
<1>6. OnlyRacesSendTwice' /\ ExecutedIsApproved'
  BY DEF IInv, TypeOK, PostingOK, OnlyRacesSendTwice, ExecutedIsApproved
<1> QED
  BY <1>1, <1>2, <1>3, <1>4, <1>5, <1>6 DEF IInv

\* Approving changes nothing but the proposal_state.
LEMMA ApproveProposalInv ==
    ASSUME IInv, NEW w \in Workers, ApproveProposal(w)
    PROVE  IInv'
<1> USE DEF ApproveProposal, Leave, history
<1>1. TypeOK'
  BY FirstIsPart DEF IInv, TypeOK, CampaignStatus, ProposalState, Ops, Batch
<1>2. PostingOK'
  BY DEF IInv, TypeOK, PostingOK, AloneOK, WorkOK, Started, Racing, Taken, Accepted, Batch
<1>3. WorkOK'
  BY DEF IInv, TypeOK, PostingOK, WorkOK, Started, Racing, Taken, Accepted, Batch
<1>4. AloneOK'
  BY DEF IInv, TypeOK, PostingOK, AloneOK, Started, Racing, Taken, Accepted, Batch
<1>5. ActiveMeansHanded'
  BY DEF IInv, TypeOK, PostingOK, WorkOK, ActiveMeansHanded, Started, Racing, Taken, Accepted, Batch
<1>6. OnlyRacesSendTwice' /\ ExecutedIsApproved'
  BY DEF IInv, TypeOK, PostingOK, OnlyRacesSendTwice, ExecutedIsApproved
<1> QED
  BY <1>1, <1>2, <1>3, <1>4, <1>5, <1>6 DEF IInv

\* Deleting leaves a dispatch in progress with its rows.
LEMMA DeleteCampaignInv ==
    ASSUME IInv, NEW w \in Workers, DeleteCampaign(w)
    PROVE  IInv'
<1> USE DEF DeleteCampaign, Leave, history
<1>1. TypeOK'
  BY FirstIsPart DEF IInv, TypeOK, CampaignStatus, ProposalState, Ops, Batch
<1>2. PostingOK'
  BY DEF IInv, TypeOK, PostingOK, AloneOK, WorkOK, Started, Racing, Taken, Accepted, Batch
<1>3. WorkOK'
  BY DEF IInv, TypeOK, PostingOK, WorkOK, Started, Racing, Taken, Accepted, Batch
<1>4. AloneOK'
  BY DEF IInv, TypeOK, PostingOK, AloneOK, Started, Racing, Taken, Accepted, Batch
<1>5. ActiveMeansHanded'
  BY DEF IInv, TypeOK, PostingOK, WorkOK, ActiveMeansHanded, Started, Racing, Taken, Accepted, Batch
<1>6. OnlyRacesSendTwice' /\ ExecutedIsApproved'
  BY DEF IInv, TypeOK, PostingOK, OnlyRacesSendTwice, ExecutedIsApproved
<1> QED
  BY <1>1, <1>2, <1>3, <1>4, <1>5, <1>6 DEF IInv

\* Only a communication the channel has leaves the queue.
LEMMA ReceiptArrivesInv ==
    ASSUME IInv, NEW c \in Comms, ReceiptArrives(c)
    PROVE  IInv'
<1> USE DEF ReceiptArrives, request, history
<1>1. TypeOK'
  BY FirstIsPart DEF IInv, TypeOK, CampaignStatus, ProposalState, Ops, Batch
<1>2. PostingOK'
  BY DEF IInv, TypeOK, PostingOK, AloneOK, WorkOK, Started, Racing, Taken, Accepted, Batch
<1>3. WorkOK'
  BY DEF IInv, TypeOK, PostingOK, WorkOK, Started, Racing, Taken, Accepted, Batch
<1>4. AloneOK'
  BY DEF IInv, TypeOK, PostingOK, AloneOK, Started, Racing, Taken, Accepted, Batch
<1>5. ActiveMeansHanded'
  BY DEF IInv, TypeOK, PostingOK, WorkOK, ActiveMeansHanded, Started, Racing, Taken, Accepted, Batch
<1>6. OnlyRacesSendTwice' /\ ExecutedIsApproved'
  BY DEF IInv, TypeOK, PostingOK, OnlyRacesSendTwice, ExecutedIsApproved
<1> QED
  BY <1>1, <1>2, <1>3, <1>4, <1>5, <1>6 DEF IInv

\* The channel takes a batch that, without a race, it never had before.
LEMMA ChannelTakesInv ==
    ASSUME IInv, NEW m \in wire, NEW n \in 0..Cardinality(m.batch), ChannelTakes(m, n)
    PROVE  IInv'
<1> DEFINE B == First(m.batch, n)
           v == m.from
<1>1. /\ wire' = wire \ {m}
      /\ handed' = [c \in Comms |-> IF c \in B THEN handed[c] + 1 ELSE handed[c]]
      /\ answer' = [answer EXCEPT ![v] =
             IF pc[v] # "waiting" \/ Batch(v) # m.batch THEN @
             ELSE IF n = Cardinality(m.batch) THEN "ok" ELSE "error"]
      /\ UNCHANGED <<campaign, audience, queued, op, pc, rows, raced>>
  BY DEF ChannelTakes
<1>2. B \subseteq m.batch /\ v \in Workers /\ m.batch \in SUBSET Comms
  BY FirstIsPart DEF IInv, TypeOK
<1>3. n = Cardinality(m.batch) => B = m.batch
  <2>1. m.batch \in SUBSET Nat /\ IsFiniteSet(m.batch)
    BY <1>2, FS_Subset, DispatchAssumption
  <2> QED
    BY <2>1, FirstIsAll
<1> HIDE DEF B
<1>4. TypeOK'
  BY <1>1, <1>2 DEF IInv, TypeOK
<1>5. \A c \in Comms : /\ Taken(c) => Taken(c)'
                       /\ c \in B => Taken(c)'
                       /\ c \notin B => handed'[c] = handed[c]
  BY <1>1 DEF IInv, TypeOK, Taken
<1>6. \A w \in Workers : /\ Batch(w)' = Batch(w)
                         /\ Started(w)' = Started(w)
                         /\ Racing(w)' = Racing(w)
                         /\ Batch(w) \subseteq rows[w]
                         /\ rows[w] \in SUBSET Comms
  BY <1>1, FirstIsPart DEF Batch, Started, Racing, IInv, TypeOK
<1>7. campaign.status \notin {"none", "draft"}
  BY DEF IInv, PostingOK
<1>8. PostingOK'
  BY <1>1, <1>7 DEF PostingOK
<1>9. audience \subseteq Comms
  BY DEF IInv, TypeOK
<1>10. \A w \in Workers : Accepted(w)' => \A c \in Batch(w) : Taken(c)'
  <2> SUFFICES ASSUME NEW w \in Workers, Accepted(w)', NEW c \in Batch(w)
               PROVE  Taken(c)'
    OBVIOUS
  <2>1. c \in Comms
    BY <1>6
  <2>2. CASE Accepted(w)
    BY <1>5, <2>1, <2>2 DEF IInv, WorkOK
  <2>3. CASE ~Accepted(w)
    <3>1. pc[w] = "waiting" /\ answer'[w] = "ok" /\ answer[w] # "ok"
      BY <1>1, <2>3 DEF Accepted
    <3>2. w = v /\ Batch(w) = m.batch /\ n = Cardinality(m.batch)
      BY <1>1, <1>2, <3>1 DEF IInv, TypeOK
    <3> QED
      BY <1>3, <1>5, <2>1, <3>2
  <2> QED
    BY <2>2, <2>3
<1>11. WorkOK'
  <2>1. /\ \A c \in audience : c \in queued \/ Taken(c)' \/ campaign.status = "gone"
        /\ \A w \in Workers :
             /\ pc[w] = "commit" =>
                    \A c \in audience : c \in rows[w] \/ Taken(c)' \/ campaign.status = "gone"
             /\ Started(w) => \A c \in audience : c \in rows[w] \/ Taken(c)'
             /\ pc[w] = "active" => rows[w] = {}
    BY <1>5, <1>9 DEF IInv, WorkOK
  <2> QED
    BY <1>1, <1>6, <1>10, <2>1 DEF WorkOK
<1>12. ActiveMeansHanded' /\ ExecutedIsApproved'
  BY <1>1, <1>5, <1>9 DEF IInv, ActiveMeansHanded, ExecutedIsApproved, Taken
<1>13. ~raced => wire' = {} /\ \A c \in m.batch : handed[c] = 0
  BY <1>1 DEF IInv, AloneOK
<1>14. OnlyRacesSendTwice'
  BY <1>1, <1>2, <1>13 DEF IInv, TypeOK, OnlyRacesSendTwice
<1>15. ASSUME ~raced, NEW w \in Workers, pc[w] = "waiting"
       PROVE  \A c \in rows[w] \ Batch(w) : handed'[c] = 0
  <2>1. m.batch = Batch(w) /\ \A c \in rows[w] \ Batch(w) : handed[c] = 0
    BY <1>15 DEF IInv, AloneOK
  <2> QED
    BY <1>2, <1>5, <1>6, <2>1
<1>16. ~raced => \A w \in Workers : pc[w] # "post"
  BY DEF IInv, AloneOK
<1>17. AloneOK'
  <2> SUFFICES ASSUME ~raced PROVE AloneOK'
    BY <1>1 DEF AloneOK
  <2>1. /\ campaign.status \in {"dispatching", "active"} => \A w \in Workers : ~Racing(w)
        /\ \A w, u \in Workers : Started(w) /\ Started(u) => w = u
    BY DEF IInv, AloneOK
  <2>2. wire' = {}
    BY <1>13
  <2> QED
    BY <1>1, <1>6, <1>15, <1>16, <2>1, <2>2 DEF AloneOK
<1> QED
  BY <1>4, <1>8, <1>11, <1>12, <1>14, <1>17 DEF IInv

-----------------------------------------------------------------------------
\* The invariant of a campaign's life holds for any number of concurrent requests.
THEOREM Invariant == Spec => []IInv
<1>1. IInv /\ [Next]_vars => IInv'
  <2> SUFFICES ASSUME IInv, [Next]_vars PROVE IInv'
    OBVIOUS
  <2>1. CASE \E members \in SUBSET Comms : CreateCampaign(members)
    BY <2>1, CreateCampaignInv
  <2>2. CASE \E w \in Workers : ReadToDispatch(w) \/ ReadToExecute(w) \/ ReadToApprove(w)
                                \/ ReadToDelete(w)
    BY <2>2, ReadInv
  <2>3. CASE \E w \in Workers : Step(w)
    BY <2>3, SelectQueuedInv, CommitDispatchingInv, PostBatchInv, BatchTakenInv, EndedInv,
       CommitActiveInv, ApproveProposalInv, DeleteCampaignInv DEF Step
  <2>4. CASE \E w \in Workers : TimeOut(w) \/ Fail(w)
    BY <2>4, EndedInv
  <2>5. CASE \E m \in wire : \E n \in 0..Cardinality(Comms) : ChannelTakes(m, n)
    <3>1. PICK m \in wire, n \in 0..Cardinality(Comms) : ChannelTakes(m, n)
      BY <2>5
    <3>2. n \in 0..Cardinality(m.batch)
      BY <3>1 DEF ChannelTakes
    <3> QED
      BY <3>1, <3>2, ChannelTakesInv
  <2>6. CASE \E c \in Comms : ReceiptArrives(c)
    BY <2>6, ReceiptArrivesInv
  <2>7. CASE UNCHANGED vars
    BY <2>7 DEF vars, IInv, TypeOK, PostingOK, WorkOK, AloneOK, ActiveMeansHanded,
       OnlyRacesSendTwice, ExecutedIsApproved, Started, Racing, Taken, Accepted, Batch
  <2> QED
    BY <2>1, <2>2, <2>3, <2>4, <2>5, <2>6, <2>7 DEF Next
<1> QED
  BY InitInv, <1>1, PTL DEF Spec

\* Whatever fails in the middle of a dispatch, the campaign that has lost a
\* message to the channel no longer reads draft.
THEOREM PostedLeavesDraft == Spec => []PostedIsNotDraft
<1>1. IInv => PostedIsNotDraft
  BY DEF IInv, TypeOK, PostingOK, PostedIsNotDraft
<1> QED
  BY Invariant, <1>1, PTL

\* An active campaign has nothing left that the channel did not take.
THEOREM ActiveIsHanded == Spec => []ActiveMeansHanded
<1>1. IInv => ActiveMeansHanded
  BY DEF IInv
<1> QED
  BY Invariant, <1>1, PTL

\* Two requests between the draft check and the first commit are the only way to
\* hand a message over twice.
THEOREM TwiceOnlyByRace == Spec => []OnlyRacesSendTwice
<1>1. IInv => OnlyRacesSendTwice
  BY DEF IInv
<1> QED
  BY Invariant, <1>1, PTL

\* No execute request gets past an unapproved proposal.
THEOREM ExecuteNeedsApproval == Spec => []ExecutedIsApproved
<1>1. IInv => ExecutedIsApproved
  BY DEF IInv
<1> QED
  BY Invariant, <1>1, PTL

\* The campaign's status never goes back unless two requests raced.
THEOREM StatusWalksForward == Spec => WalksForward
<1>1. IInv /\ [Next]_vars =>
        [~raced' => Order[campaign.status] <= Order[campaign'.status]]_vars
  <2> SUFFICES ASSUME IInv, Next, ~raced'
               PROVE  Order[campaign.status] <= Order[campaign'.status]
    BY DEF vars
  <2>1. campaign.status \in CampaignStatus
    BY DEF IInv, TypeOK
  <2>2. \A s \in CampaignStatus : Order[s] <= Order[s] /\ Order[s] <= Order["gone"]
    BY DEF Order, CampaignStatus
  <2>3. CASE campaign' = campaign \/ campaign'.status = campaign.status
    BY <2>1, <2>2, <2>3
  <2>4. CASE \E members \in SUBSET Comms : CreateCampaign(members)
    BY <2>4 DEF CreateCampaign, Order, IInv, TypeOK
  <2>5. CASE \E w \in Workers : CommitDispatching(w)
    <3>1. PICK w \in Workers : CommitDispatching(w)
      BY <2>5
    <3>2. ~raced /\ Racing(w)
      BY <3>1 DEF CommitDispatching, Racing, IInv, TypeOK
    <3>3. campaign.status \notin {"dispatching", "active", "gone", "none"}
      BY <3>1, <3>2 DEF IInv, AloneOK, PostingOK, CommitDispatching
    <3>4. campaign.status = "draft" /\ campaign'.status = "dispatching"
      BY <2>1, <3>1, <3>3 DEF CampaignStatus, CommitDispatching, IInv, TypeOK
    <3> QED
      BY <3>4 DEF Order
  <2>6. CASE \E w \in Workers : CommitActive(w)
    <3>1. PICK w \in Workers : CommitActive(w)
      BY <2>6
    <3>2. campaign.status \in {"dispatching", "active", "gone"}
      BY <2>1, <3>1 DEF IInv, PostingOK, Started, CommitActive, CampaignStatus
    <3>3. campaign'.status = campaign.status \/ campaign'.status = "active"
      BY <3>1 DEF CommitActive, IInv, TypeOK
    <3>4. campaign.status = "gone" => campaign'.status = "gone"
      BY <3>1 DEF CommitActive
    <3> QED
      BY <2>1, <2>2, <3>2, <3>3, <3>4 DEF Order
  <2>7. CASE \E w \in Workers : DeleteCampaign(w)
    <3>1. campaign'.status = "gone"
      BY <2>7 DEF DeleteCampaign, IInv, TypeOK
    <3> QED
      BY <2>1, <2>2, <3>1
  <2>8. CASE \E w \in Workers : ApproveProposal(w)
    <3>1. campaign'.status = campaign.status
      BY <2>8 DEF ApproveProposal, IInv, TypeOK
    <3> QED
      BY <2>1, <2>2, <3>1
  <2>9. CASE \E w \in Workers : ReadToDispatch(w) \/ ReadToExecute(w) \/ ReadToApprove(w)
                                \/ ReadToDelete(w) \/ SelectQueued(w) \/ PostBatch(w)
                                \/ BatchTaken(w) \/ BatchRefused(w) \/ TimeOut(w) \/ Fail(w)
    <3>1. campaign' = campaign
      BY <2>9 DEF ReadToDispatch, ReadToExecute, ReadToApprove, ReadToDelete, Read,
         SelectQueued, PostBatch, BatchTaken, BatchRefused, TimeOut, Fail
    <3> QED
      BY <2>3, <3>1
  <2>10. CASE \/ \E m \in wire : \E n \in 0..Cardinality(Comms) : ChannelTakes(m, n)
              \/ \E c \in Comms : ReceiptArrives(c)
    <3>1. campaign' = campaign
      BY <2>10 DEF ChannelTakes, ReceiptArrives
    <3> QED
      BY <2>3, <3>1
  <2> QED
    BY <2>4, <2>5, <2>6, <2>7, <2>8, <2>9, <2>10 DEF Next, Step
<1> QED
  BY Invariant, <1>1, PTL DEF Spec, WalksForward
=============================================================================
