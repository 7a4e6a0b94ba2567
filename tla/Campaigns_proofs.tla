-------------------------- MODULE Campaigns_proofs --------------------------
(***************************************************************************)
(* Proofs about Campaigns, for any number of requests, segments, campaigns *)
(* and customers: a request fails only in a race, what is deleted stays    *)
(* deleted, what is accepted stays until then, and revenue never shows     *)
(* without its contact.                                                    *)
(***************************************************************************)
EXTENDS Campaigns, FiniteSetTheorems, SequenceTheorems, TLAPS

-----------------------------------------------------------------------------
(* Rows. *)

\* A row is of one table and has one id.
LEMMA RowsDiffer ==
    /\ \A a, b : /\ Segment(a) # Campaign(b) /\ Segment(a) # Comm(b) /\ Segment(a) # Event(b)
                 /\ Segment(a) # Order(b) /\ Campaign(a) # Comm(b) /\ Campaign(a) # Event(b)
                 /\ Campaign(a) # Order(b) /\ Comm(a) # Event(b) /\ Comm(a) # Order(b)
                 /\ Event(a) # Order(b)
    /\ \A a, b : /\ (Segment(a) = Segment(b) \/ Campaign(a) = Campaign(b) \/ Comm(a) = Comm(b)
                       \/ Event(a) = Event(b) \/ Order(a) = Order(b)) => a = b
BY DEF Segment, Campaign, Comm, Event, Order

\* The table of a row.
LEMMA TableOf ==
    \A a : /\ Segment(a)[1] = "segments" /\ Campaign(a)[1] = "campaigns"
           /\ Comm(a)[1] = "communications" /\ Event(a)[1] = "communication_events"
           /\ Order(a)[1] = "orders"
           /\ Segment(a)[2] = a /\ Campaign(a)[2] = a /\ Comm(a)[2] = a /\ Event(a)[2] = a
           /\ Order(a)[2] = a
BY DEF Segment, Campaign, Comm, Event, Order

\* A communication is of a campaign and a customer.
LEMMA CommIds ==
    /\ \A m \in Comms : m[1] \in 1..MaxCampaigns /\ m[2] \in Audience /\ m = <<m[1], m[2]>>
    /\ \A c \in 1..MaxCampaigns, k \in Audience : <<c, k>> \in Comms /\ <<c, k>>[1] = c
BY DEF Comms

\* The lack of a reference is no row, and no key is one.
LEMMA NullIsNoRow ==
    /\ \A a : /\ Null # Segment(a) /\ Null # Campaign(a) /\ Null # Comm(a) /\ Null # Event(a)
              /\ Null # Order(a)
    /\ Null \notin Rows
<1>1. \A x, y : <<>> # <<x, y>>
  <2> SUFFICES ASSUME NEW x, NEW y, <<>> = <<x, y>> PROVE FALSE
    OBVIOUS
  <2>1. Len(<<x, y>>) = 2
    OBVIOUS
  <2>2. Len(<<>>) = 0
    OBVIOUS
  <2> QED
    BY <2>1, <2>2
<1>2. \A a : /\ Null # Segment(a) /\ Null # Campaign(a) /\ Null # Comm(a) /\ Null # Event(a)
             /\ Null # Order(a)
  BY <1>1 DEF Null, Segment, Campaign, Comm, Event, Order
<1> QED
  BY <1>2 DEF Rows, Segments, CampaignRows, OrderRows

\* Nor is the key of a segment a row, since no tenant is called like a table.
LEMMA KeyIsNoRow ==
    \A key \in Keys : /\ key \notin Rows
                      /\ \A a : /\ key # Segment(a) /\ key # Campaign(a) /\ key # Comm(a)
                                /\ key # Event(a) /\ key # Order(a)
                      /\ key # Null
<1> SUFFICES ASSUME NEW key \in Keys
             PROVE  /\ key \notin Rows
                    /\ \A a : /\ key # Segment(a) /\ key # Campaign(a) /\ key # Comm(a)
                              /\ key # Event(a) /\ key # Order(a)
                    /\ key # Null
  OBVIOUS
<1>1. PICK t \in Tenants \cup {NoTenant}, h \in Hashes : key = <<t, h>>
  BY DEF Keys
<1>2. t \notin Tables
  BY CampaignsAssumption DEF Tables, NoTenant
<1>3. \A a : /\ key # Segment(a) /\ key # Campaign(a) /\ key # Comm(a)
             /\ key # Event(a) /\ key # Order(a)
  BY <1>1, <1>2 DEF Tables, Segment, Campaign, Comm, Event, Order
<1>4. key # Null
  <2>1. Len(<<t, h>>) = 2 /\ Len(<<>>) = 0
    OBVIOUS
  <2> QED
    BY <1>1, <2>1 DEF Null
<1> QED
  BY <1>3, <1>4 DEF Rows, Segments, CampaignRows, OrderRows

\* What each row of well-formed tables refers to.
LEMMA Reference ==
    ASSUME NEW f, Shaped(f), NEW r \in DOMAIN f
    PROVE  /\ r \in Rows
           /\ r \in Segments => f[r] \in Keys
           /\ r \in CampaignRows => f[r] \in Segments \cup {Null}
           /\ \A m : r = Comm(m) => m \in Comms /\ f[r] = Campaign(m[1])
           /\ \A m : r = Event(m) => m \in Comms /\ f[r] = Comm(m)
           /\ \A m : r = Order(m) => m \in Comms /\ f[r] \in {Campaign(m[1]), Null}
<1>1. r \in Rows /\ f[r] \in Refers(r)
  BY DEF Shaped
<1>2. \A m : (r = Comm(m) \/ r = Event(m) \/ r = Order(m)) => m \in Comms
  BY <1>1, RowsDiffer DEF Rows, Segments, CampaignRows, OrderRows
<1>3. r \in Segments => f[r] \in Keys
  <2> SUFFICES ASSUME r \in Segments PROVE f[r] \in Keys
    OBVIOUS
  <2>1. r[1] = "segments"
    BY TableOf DEF Segments
  <2> QED
    BY <1>1, <2>1 DEF Refers
<1>4. r \in CampaignRows => f[r] \in Segments \cup {Null}
  <2> SUFFICES ASSUME r \in CampaignRows PROVE f[r] \in Segments \cup {Null}
    OBVIOUS
  <2>1. r[1] = "campaigns"
    BY TableOf DEF CampaignRows
  <2> QED
    BY <1>1, <2>1 DEF Refers
<1>5. ASSUME NEW m, r = Comm(m) PROVE f[r] = Campaign(m[1])
  <2>1. r[1] = "communications" /\ r[2] = m
    BY <1>5, TableOf
  <2> QED
    BY <1>1, <2>1 DEF Refers
<1>6. ASSUME NEW m, r = Event(m) PROVE f[r] = Comm(m)
  <2>1. r[1] = "communication_events" /\ r[2] = m
    BY <1>6, TableOf
  <2> QED
    BY <1>1, <2>1 DEF Refers
<1>7. ASSUME NEW m, r = Order(m) PROVE f[r] \in {Campaign(m[1]), Null}
  <2>1. r[1] = "orders" /\ r[2] = m
    BY <1>7, TableOf
  <2> QED
    BY <1>1, <2>1 DEF Refers
<1> QED
  BY <1>1, <1>2, <1>3, <1>4, <1>5, <1>6, <1>7

\* And what may refer to a row of each kind.
LEMMA ReferredBy ==
    ASSUME NEW f, Shaped(f), NEW r \in DOMAIN f
    PROVE  /\ f[r] \in Keys \cup Segments \cup CampaignRows \cup {Comm(m) : m \in Comms} \cup {Null}
           /\ f[r] \in Segments => r \in CampaignRows
           /\ f[r] \in Keys => r \in Segments
           /\ \A c : f[r] = Campaign(c) => \E m \in Comms : m[1] = c /\ (r = Comm(m) \/ r = Order(m))
           /\ \A m : f[r] = Comm(m) => r = Event(m)
           /\ \A m : f[r] # Event(m) /\ f[r] # Order(m)
<1>1. CASE r \in Segments
  BY <1>1, Reference, KeyIsNoRow DEF Segments
<1>2. CASE r \in CampaignRows
  <2>1. f[r] \in Segments \cup {Null}
    BY <1>2, Reference
  <2>2. f[r] \notin Keys
    BY <2>1, KeyIsNoRow DEF Segments
  <2> QED
    BY <1>2, <2>1, <2>2, RowsDiffer, NullIsNoRow DEF Segments
<1>3. ASSUME NEW m \in Comms, r = Comm(m) PROVE f[r] = Campaign(m[1]) /\ f[r] \in CampaignRows
  BY <1>3, Reference, CommIds DEF CampaignRows
<1>4. ASSUME NEW m \in Comms, r = Event(m) PROVE f[r] = Comm(m)
  BY <1>4, Reference
<1>5. ASSUME NEW m \in Comms, r = Order(m)
      PROVE  f[r] \in {Campaign(m[1]), Null} /\ f[r] \in CampaignRows \cup {Null}
  BY <1>5, Reference, CommIds DEF CampaignRows
<1>6. CASE \E m \in Comms : r = Comm(m)
  <2> PICK m \in Comms : r = Comm(m)
    BY <1>6
  <2>1. f[r] = Campaign(m[1]) /\ f[r] \in CampaignRows
    BY <1>3
  <2> QED
    BY <2>1, RowsDiffer, KeyIsNoRow DEF Segments
<1>7. CASE \E m \in Comms : r = Event(m)
  <2> PICK m \in Comms : r = Event(m)
    BY <1>7
  <2>1. f[r] = Comm(m)
    BY <1>4
  <2> QED
    BY <2>1, RowsDiffer, KeyIsNoRow DEF Segments
<1>8. CASE \E m \in Comms : r = Order(m)
  <2> PICK m \in Comms : r = Order(m)
    BY <1>8
  <2>1. f[r] \in {Campaign(m[1]), Null} /\ f[r] \in CampaignRows \cup {Null}
    BY <1>5
  <2> QED
    BY <2>1, RowsDiffer, KeyIsNoRow, NullIsNoRow DEF Segments
<1> QED
  <2>1. r \in Rows
    BY Reference
  <2> QED
    BY <2>1, <1>1, <1>2, <1>6, <1>7, <1>8 DEF Rows, OrderRows

-----------------------------------------------------------------------------
(* Steps that leave the committed rows alone. *)

TxTyped ==
    /\ tx = [w \in Workers |->
                 [new |-> tx[w].new, gone |-> tx[w].gone, held |-> tx[w].held]]
    /\ \A w \in Workers : Shaped(tx[w].new)

WorkTyped ==
    /\ request \in [Workers -> RequestOf \cup {NoRequest}]
    /\ stage \in [Workers -> Stages]
    /\ target = [w \in Workers |-> target[w]]
    /\ \A w \in Workers : IF request[w].kind = "pnl" THEN target[w] \in Seq(Nat)
                          ELSE target[w] \in Segments \cup {Null}
    /\ ids \in [Workers -> Numbers] /\ made \in Numbers
    /\ raced \in [Workers -> BOOLEAN]

\* Every request but w's is where it was.
Others(w) ==
    \A v \in Workers \ {w} :
        /\ tx'[v] = tx[v] /\ request'[v] = request[v] /\ stage'[v] = stage[v]
        /\ target'[v] = target[v] /\ ids'[v] = ids[v] /\ raced'[v] = raced[v]

\* w, if it is still under way, handles the same request under the same ids.
Same(w) ==
    w \in Busy' => /\ w \in Busy /\ request'[w] = request[w]
                   /\ ids'[w] = ids[w] /\ raced'[w] = raced[w]

\* A campaign that w found now is committed.
Finds(w) == Found(w)' => Found(w) \/ Campaign(request'[w].id) \in DOMAIN db

ExclusiveOf(w) ==
    \A v \in Workers \ {w} :
        /\ DOMAIN tx[w].new \cap DOMAIN tx[v].new = {}
        /\ tx[w].gone \cap (DOMAIN tx[v].new \cup tx[v].gone \cup tx[v].held) = {}
        /\ tx[v].gone \cap (DOMAIN tx[w].new \cup tx[w].gone \cup tx[w].held) = {}

\* What it says of every two requests, said of each of them.
LEMMA Exclusion == Exclusive <=> \A w \in Workers : ExclusiveOf(w)
BY DEF Exclusive, ExclusiveOf

\* Whether v is under way changes only with its stage.
LEMMA OthersBusy ==
    ASSUME NEW w \in Workers, Others(w), NEW v \in Workers, v # w
    PROVE  v \in Busy' <=> v \in Busy
BY DEF Others, Busy

\* What every request has of its own, and it alone.
OwnOK(w) == StageOK(w) /\ TxOK(w) /\ UnracedOK(w) /\ ReadOK(w)

\* The communications of a campaign.
CommsIn(f, c) == Refer(f, Campaign(c)) \cap {Comm(m) : m \in Comms}

\* Those of the campaign that a request is about.
LEMMA CommsOfIs == \A f, w : CommsOf(f, w) = CommsIn(f, request[w].id)
BY DEF CommsOf, CommsIn

\* A step of w that leaves the committed rows alone leaves what the others rely on.
LEMMA OthersKeep ==
    ASSUME NEW w \in Workers, Others(w), db' = db, NEW v \in Workers, v # w, OwnOK(v)
    PROVE  OwnOK(v)'
<1>1. /\ tx'[v] = tx[v] /\ request'[v] = request[v] /\ stage'[v] = stage[v]
      /\ target'[v] = target[v] /\ ids'[v] = ids[v] /\ raced'[v] = raced[v]
      /\ v \in Busy' <=> v \in Busy
  BY OthersBusy DEF Others
<1>2. StageOK(v)'
  BY <1>1 DEF OwnOK, StageOK
<1>3. TxOK(v)'
  <2>1. CreatingOK(v)' /\ ReceivingOK(v)'
    BY <1>1 DEF OwnOK, TxOK, CreatingOK, ReceivingOK
  <2>2. DeletingOK(v)'
    <3>1. CommsGone(v)' <=> CommsGone(v)
      BY <1>1 DEF CommsGone
    <3>2. \A rows : Unlinks(v, rows)' <=> Unlinks(v, rows)
      BY <1>1 DEF Unlinks
    <3> QED
      BY <1>1, <3>1, <3>2 DEF OwnOK, TxOK, DeletingOK, Writing
  <2> QED
    BY <1>1, <2>1, <2>2 DEF OwnOK, TxOK, Writing
<1>4. UnracedOK(v)'
  BY <1>1 DEF OwnOK, UnracedOK
<1>5. ReadOK(v)'
  <2>1. CommsOf(db, v)' = CommsOf(db, v)
    BY <1>1 DEF CommsOf
  <2> QED
    BY <1>1, <2>1 DEF OwnOK, ReadOK
<1> QED
  BY <1>2, <1>3, <1>4, <1>5 DEF OwnOK

\* A step of w that leaves the committed rows alone and keeps its own promises.
LEMMA Undisturbed ==
    ASSUME IInv, NEW w \in Workers, Others(w), Same(w), Finds(w),
           UNCHANGED <<db, accepted, deleted, made>>, TxTyped', WorkTyped',
           OwnOK(w)', ExclusiveOf(w)',
           stage'[w] = "failed" => raced'[w],
           stage'[w] = "read" => target'[w][2] <= target'[w][1]
    PROVE  IInv'
<1>1. TypeOK'
  BY DEF IInv, TypeOK, TxTyped, WorkTyped
<1>2. \A v \in Workers : OwnOK(v)'
  <2> SUFFICES ASSUME NEW v \in Workers, v # w PROVE OwnOK(v)'
    OBVIOUS
  <2>1. OwnOK(v)
    BY DEF IInv, OwnOK
  <2> QED
    BY <2>1, OthersKeep
<1>3. \A v \in Workers : FreshOK(v)'
  <2>1. \A v \in Workers : /\ MakesSegment(v)' => MakesSegment(v) /\ ids'[v] = ids[v]
                           /\ MakesCampaign(v)' => MakesCampaign(v) /\ ids'[v] = ids[v]
    BY OthersBusy DEF Same, MakesSegment, MakesCampaign, Others
  <2>2. \A v \in Workers : Found(v)' => \/ Found(v) /\ request'[v].id = request[v].id
                                        \/ Campaign(request'[v].id) \in DOMAIN db
    <3>1. \A v \in Workers \ {w} : Found(v)' => Found(v) /\ request'[v].id = request[v].id
      BY DEF Others, Found
    <3>2. Found(w)' => w \in Busy'
      BY DEF Found, Busy
    <3> QED
      BY <3>1, <3>2 DEF Finds, Same
  <2>3. \A v \in Workers : FreshOK(v)
    BY DEF IInv
  <2> SUFFICES ASSUME NEW v \in Workers PROVE FreshOK(v)'
    OBVIOUS
  <2>4. (MakesSegment(v) =>
           /\ ids[v].segment \in 1..made.segment /\ Segment(ids[v].segment) \notin DOMAIN db
           /\ \A u \in Workers \ {v} : MakesSegment(u) => ids[u].segment # ids[v].segment)'
    BY <2>1, <2>3 DEF FreshOK
  <2>5. MakesCampaign(v)' =>
           \A u \in Workers : Found(u)' => request'[u].id # ids'[v].campaign
    BY <2>1, <2>2, <2>3 DEF FreshOK
  <2>6. (MakesCampaign(v) =>
           /\ ids[v].campaign \in 1..made.campaign /\ Campaign(ids[v].campaign) \notin DOMAIN db
           /\ ids[v].campaign \notin deleted
           /\ \A u \in Workers \ {v} : MakesCampaign(u) => ids[u].campaign # ids[v].campaign)'
    BY <2>1, <2>3 DEF FreshOK
  <2>7. Found(v)' => request'[v].id \in 1..made'.campaign
    <3>1. ASSUME Found(v)' PROVE request'[v].id \in 1..MaxCampaigns
      <4>1. request'[v] \in RequestOf \cup {NoRequest}
        BY DEF WorkTyped
      <4>2. request'[v].kind \in {"dropCampaign", "pnl"}
        BY <3>1 DEF Found
      <4> QED
        BY <4>1, <4>2 DEF RequestOf, NoRequest
    <3>2. \A c \in 1..MaxCampaigns : Campaign(c) \in DOMAIN db => c <= made.campaign
      BY DEF IInv, DbOK
    <3>3. Found(v) => request[v].id \in 1..made.campaign
      BY <2>3 DEF FreshOK
    <3>4. made \in Numbers /\ made' = made
      BY DEF IInv, TypeOK
    <3>5. ASSUME Found(v)', Campaign(request'[v].id) \in DOMAIN db
          PROVE  request'[v].id \in 1..made.campaign
      BY <3>1, <3>2, <3>4, <3>5, CampaignsAssumption DEF Numbers
    <3> QED
      BY <2>2, <3>3, <3>4, <3>5
  <2> QED
    BY <2>4, <2>5, <2>6, <2>7 DEF FreshOK
<1>4. Exclusive'
  BY DEF IInv, Exclusive, ExclusiveOf, Others
<1>5. DbOK'
  BY DEF IInv, DbOK
<1>6. RacesKnown'
  <2> SUFFICES ASSUME NEW u \in Busy', NEW v \in Busy', u # v,
                      request'[v] \in Races(request'[u])
               PROVE  raced'[u]
    BY DEF RacesKnown
  <2>1. u \in Workers /\ v \in Workers
    BY DEF Busy
  <2>2. u \in Busy /\ v \in Busy
    BY <2>1, OthersBusy DEF Same
  <2>3. request'[u] = request[u] /\ request'[v] = request[v] /\ raced'[u] = raced[u]
    BY <2>1 DEF Same, Others
  <2> QED
    BY <2>2, <2>3 DEF IInv, RacesKnown
<1>7. FailsOnlyInARace'
  BY DEF IInv, FailsOnlyInARace, Others
<1>8. AcceptedUntilDeleted'
  BY DEF IInv, AcceptedUntilDeleted
<1>9. RevenueHasCost'
  BY DEF IInv, RevenueHasCost, Others
<1> QED
  BY <1>1, <1>2, <1>3, <1>4, <1>5, <1>6, <1>7, <1>8, <1>9 DEF IInv, OwnOK

-----------------------------------------------------------------------------
(* How a request goes on, and how it ends. *)

\* It goes on to another stage, whatever it writes.
LEMMA GotoEffect ==
    ASSUME TypeOK, NEW w \in Workers, NEW s \in Stages, Goto(w, s),
           \A v \in Workers \ {w} : tx'[v] = tx[v]
    PROVE  /\ WorkTyped' /\ Others(w) /\ stage'[w] = s
           /\ request' = request /\ target' = target /\ ids' = ids /\ raced' = raced
           /\ made' = made
           /\ w \in Busy => Same(w)
<1>1. /\ stage' = [stage EXCEPT ![w] = s] /\ request' = request /\ target' = target
      /\ ids' = ids /\ made' = made /\ raced' = raced
  BY DEF Goto
<1>2. stage' \in [Workers -> Stages] /\ stage'[w] = s
      /\ \A v \in Workers \ {w} : stage'[v] = stage[v]
  BY <1>1 DEF TypeOK
<1> QED
  BY <1>1, <1>2 DEF TypeOK, WorkTyped, Others, Same

\* It answers, and is a request no more.
LEMMA AnswerEffect ==
    ASSUME TypeOK, NEW w \in Workers, Answer(w)
    PROVE  /\ TxTyped' /\ WorkTyped' /\ Others(w)
           /\ tx'[w] = NoTx /\ stage'[w] = "idle" /\ request'[w] = NoRequest
           /\ w \notin Busy' /\ made' = made
<1>1. /\ tx' = [tx EXCEPT ![w] = NoTx] /\ stage' = [stage EXCEPT ![w] = "idle"]
      /\ request' = [request EXCEPT ![w] = NoRequest] /\ target' = [target EXCEPT ![w] = Null]
      /\ ids' = [ids EXCEPT ![w] = NoIds] /\ raced' = [raced EXCEPT ![w] = FALSE]
      /\ made' = made
  BY DEF Answer
<1>2. NoIds \in Numbers
  BY CampaignsAssumption DEF NoIds, Numbers
<1>3. /\ request' \in [Workers -> RequestOf \cup {NoRequest}]
      /\ stage' \in [Workers -> Stages] /\ ids' \in [Workers -> Numbers]
      /\ raced' \in [Workers -> BOOLEAN] /\ made' \in Numbers
  BY <1>1, <1>2 DEF TypeOK, Stages
<1>4. /\ tx'[w] = NoTx /\ stage'[w] = "idle" /\ request'[w] = NoRequest
      /\ target' = [v \in Workers |-> target'[v]] /\ target'[w] = Null
  BY <1>1 DEF TypeOK
<1>5. Others(w)
  BY <1>1 DEF TypeOK, Others
<1>6. \A v \in Workers : IF request'[v].kind = "pnl" THEN target'[v] \in Seq(Nat)
                         ELSE target'[v] \in Segments \cup {Null}
  BY <1>4, <1>5 DEF TypeOK, Others, NoRequest
<1>7. TxTyped'
  <2>1. tx' = [v \in Workers |-> IF v = w THEN NoTx ELSE tx[v]]
    BY <1>1 DEF TypeOK
  <2>2. Shaped(NoTx.new)
    BY DEF Shaped, NoTx
  <2>3. tx' = [v \in Workers |-> [new |-> tx'[v].new, gone |-> tx'[v].gone, held |-> tx'[v].held]]
    BY <2>1 DEF TypeOK, NoTx
  <2> QED
    BY <2>1, <2>2, <2>3 DEF TypeOK, TxTyped
<1>8. made' = made
  BY <1>1
<1>9. w \notin Busy'
  BY <1>4 DEF Busy
<1> QED
  BY <1>3, <1>4, <1>5, <1>6, <1>7, <1>8, <1>9 DEF WorkTyped

\* A request that has written nothing is in nobody's way.
LEMMA EmptyIsExclusive ==
    ASSUME NEW w \in Workers, tx[w] = NoTx
    PROVE  ExclusiveOf(w)
BY DEF ExclusiveOf, NoTx

\* An answer without a commit.
LEMMA RefuseLeaves ==
    ASSUME IInv, NEW w \in Workers, Refuse(w)
    PROVE  IInv'
<1>1. Answer(w) /\ db' = db /\ accepted' = accepted /\ deleted' = deleted
  BY DEF Refuse, history
<1>2. /\ TxTyped' /\ WorkTyped' /\ Others(w)
      /\ tx'[w] = NoTx /\ stage'[w] = "idle" /\ request'[w] = NoRequest
      /\ w \notin Busy' /\ made' = made
  BY <1>1, AnswerEffect DEF IInv
<1>3. OwnOK(w)'
  <2>1. TxOK(w)'
    BY <1>2 DEF TxOK, Writing, CreatingOK, DeletingOK, ReceivingOK, NoTx
  <2>2. StageOK(w)' /\ UnracedOK(w)' /\ ReadOK(w)'
    BY <1>2 DEF StageOK, UnracedOK, ReadOK, NoRequest
  <2> QED
    BY <2>1, <2>2 DEF OwnOK
<1>4. Same(w) /\ Finds(w)
  BY <1>2 DEF Same, Finds, Found
<1>5. ExclusiveOf(w)'
  BY <1>2 DEF ExclusiveOf, NoTx
<1> QED
  BY <1>1, <1>2, <1>3, <1>4, <1>5, Undisturbed

\* An IntegrityError of a request that another may make fail.
LEMMA FailLeaves ==
    ASSUME IInv, NEW w \in Workers, Fail(w), w \in Busy, raced[w], request[w].kind # "pnl"
    PROVE  IInv'
<1>1. /\ tx' = [tx EXCEPT ![w] = NoTx] /\ Goto(w, "failed")
      /\ db' = db /\ accepted' = accepted /\ deleted' = deleted
  BY DEF Fail, history
<1>2. tx'[w] = NoTx /\ \A v \in Workers \ {w} : tx'[v] = tx[v]
  BY <1>1 DEF IInv, TypeOK
<1>3. /\ WorkTyped' /\ Others(w) /\ stage'[w] = "failed" /\ Same(w)
      /\ request' = request /\ target' = target /\ ids' = ids /\ raced' = raced
      /\ made' = made
  BY <1>1, <1>2, GotoEffect DEF IInv, Stages
<1>4. TxTyped'
  <2>1. tx' = [v \in Workers |-> IF v = w THEN NoTx ELSE tx[v]]
    BY <1>1 DEF IInv, TypeOK
  <2>2. Shaped(NoTx.new)
    BY DEF Shaped, NoTx
  <2>3. tx' = [v \in Workers |-> [new |-> tx'[v].new, gone |-> tx'[v].gone, held |-> tx'[v].held]]
    BY <2>1 DEF IInv, TypeOK, NoTx
  <2> QED
    BY <2>1, <2>2, <2>3 DEF IInv, TypeOK, TxTyped
<1>5. OwnOK(w)'
  <2>1. TxOK(w)'
    BY <1>2, <1>3 DEF TxOK, Writing, CreatingOK, DeletingOK, ReceivingOK, NoTx
  <2>2. StageOK(w)' /\ UnracedOK(w)' /\ ReadOK(w)'
    BY <1>3 DEF StageOK, UnracedOK, ReadOK, Busy
  <2> QED
    BY <2>1, <2>2 DEF OwnOK
<1>6. Finds(w)
  BY <1>3 DEF Finds, Found
<1>7. ExclusiveOf(w)'
  BY <1>2 DEF ExclusiveOf, NoTx
<1> QED
  BY <1>1, <1>3, <1>4, <1>5, <1>6, <1>7, Undisturbed

\* A step of a request under way that has written nothing and writes nothing.
LEMMA MoveLeaves ==
    ASSUME IInv, NEW w \in Workers, w \in Busy, NEW s \in Stages, Goto(w, s), tx' = tx,
           db' = db, UNCHANGED history, s \notin {"failed", "read"},
           Finds(w), OwnOK(w)'
    PROVE  IInv'
<1>1. /\ WorkTyped' /\ Others(w) /\ stage'[w] = s /\ Same(w) /\ made' = made
  BY GotoEffect DEF IInv
<1>2. TxTyped' /\ ExclusiveOf(w)'
  BY DEF IInv, TypeOK, TxTyped, Exclusive, ExclusiveOf
<1> QED
  BY <1>1, <1>2, Undisturbed DEF history

\* It goes on with the segment it is for.
LEMMA AimLeaves ==
    ASSUME IInv, NEW w \in Workers, w \in Busy, NEW segment \in Segments, Aim(w, segment),
           request[w].kind \in {"winback", "campaign"},
           \A v \in Workers \ {w} : tx'[v] = tx[v], TxTyped', ExclusiveOf(w)',
           TxOK(w)', segment \in DOMAIN db \cup DOMAIN tx'[w].new
    PROVE  IInv'
<1>1. /\ target' = [target EXCEPT ![w] = segment]
      /\ stage' = [stage EXCEPT ![w] = "campaign"]
      /\ db' = db /\ request' = request /\ ids' = ids /\ made' = made /\ raced' = raced
      /\ accepted' = accepted /\ deleted' = deleted
  BY DEF Aim, history
<1>2. /\ stage' \in [Workers -> Stages] /\ stage'[w] = "campaign" /\ target'[w] = segment
      /\ \A v \in Workers \ {w} : stage'[v] = stage[v] /\ target'[v] = target[v]
      /\ target' = [v \in Workers |-> target'[v]]
  BY <1>1 DEF IInv, TypeOK, Stages
<1>3. WorkTyped'
  BY <1>1, <1>2 DEF IInv, TypeOK, WorkTyped
<1>4. Others(w) /\ Same(w) /\ Finds(w)
  BY <1>1, <1>2 DEF Others, Same, Finds, Found
<1>5. OwnOK(w)'
  <2>1. StageOK(w)' /\ ReadOK(w)'
    BY <1>1, <1>2 DEF StageOK, ReadOK
  <2>2. UnracedOK(w)'
    BY <1>1, <1>2 DEF UnracedOK
  <2> QED
    BY <2>1, <2>2 DEF OwnOK
<1> QED
  BY <1>1, <1>2, <1>3, <1>4, <1>5, Undisturbed

\* What w has written where it writes nothing.
LEMMA NothingWritten ==
    ASSUME IInv, NEW w \in Workers, ~Writing(w)
    PROVE  tx[w] = NoTx /\ ExclusiveOf(w)
BY EmptyIsExclusive DEF IInv, TxOK

-----------------------------------------------------------------------------
(* The actions that leave the committed rows alone. *)

\* create_segment looks for the definition.
LEMMA FindDefinitionLeaves ==
    ASSUME IInv, NEW w \in Workers, FindDefinition(w)
    PROVE  IInv'
<1>1. stage[w] = "get" /\ request[w].kind = "create"
  BY DEF FindDefinition, At
<1>2. CASE Refuse(w)
  BY <1>2, RefuseLeaves
<1>3. CASE Goto(w, "insert") /\ UNCHANGED <<db, tx, history>>
  <2>1. tx[w] = NoTx
    BY <1>1, NothingWritten DEF Writing
  <2>2. stage'[w] = "insert" /\ request' = request
    BY <1>3 DEF Goto, IInv, TypeOK
  <2>3. TxOK(w)'
    BY <1>3, <2>1, <2>2 DEF TxOK, Writing, CreatingOK, DeletingOK, ReceivingOK, NoTx
  <2>4. StageOK(w)' /\ UnracedOK(w)' /\ ReadOK(w)'
    BY <1>1, <2>2 DEF StageOK, UnracedOK, ReadOK
  <2>5. w \in Busy /\ Finds(w)
    BY <1>1, <2>2 DEF Busy, Finds, Found
  <2> QED
    BY <1>3, <2>3, <2>4, <2>5, MoveLeaves DEF OwnOK, Stages
<1> QED
  BY <1>2, <1>3 DEF FindDefinition

\* A win-back looks for its segment.
LEMMA FindWinbackLeaves ==
    ASSUME IInv, NEW w \in Workers, FindWinback(w)
    PROVE  IInv'
<1>1. stage[w] = "get" /\ request[w].kind = "winback" /\ w \in Busy
  BY DEF FindWinback, At, Busy
<1>2. tx[w] = NoTx /\ ExclusiveOf(w)
  BY <1>1, NothingWritten DEF Writing
<1>3. CASE /\ {r \in DOMAIN db : db[r] = request[w].id} = {}
           /\ Goto(w, "segment") /\ UNCHANGED <<db, tx, history>>
  <2>1. stage'[w] = "segment" /\ request' = request
    BY <1>3 DEF Goto, IInv, TypeOK
  <2>2. TxOK(w)'
    BY <1>2, <1>3, <2>1 DEF TxOK, Writing, CreatingOK, DeletingOK, ReceivingOK, NoTx
  <2>3. UnracedOK(w)'
    BY <1>1, <1>3, <2>1 DEF UnracedOK
  <2>4. StageOK(w)' /\ ReadOK(w)' /\ Finds(w)
    BY <1>1, <2>1 DEF StageOK, ReadOK, Finds, Found
  <2> QED
    BY <1>1, <1>3, <2>2, <2>3, <2>4, MoveLeaves DEF OwnOK, Stages
<1>4. ASSUME NEW r \in DOMAIN db, db[r] = request[w].id, Aim(w, r), tx' = tx
      PROVE  IInv'
  <2>1. request[w].id \in Keys
    BY <1>1, SMTT(30) DEF IInv, TypeOK, RequestOf, NoRequest, Keys
  <2>2. r \in Segments
    BY <1>4, <2>1, ReferredBy DEF IInv, TypeOK
  <2>3. stage'[w] = "campaign" /\ target'[w] = r /\ request' = request /\ ids' = ids /\ db' = db
    BY <1>4 DEF Aim, IInv, TypeOK
  <2>4. TxOK(w)'
    BY <1>1, <1>2, <1>4, <2>2, <2>3 DEF TxOK, Writing, CreatingOK, DeletingOK, ReceivingOK, NoTx
  <2>5. TxTyped' /\ ExclusiveOf(w)'
    BY <1>2, <1>4 DEF IInv, TypeOK, TxTyped, ExclusiveOf
  <2> QED
    BY <1>1, <1>4, <2>2, <2>4, <2>5, AimLeaves
<1> QED
  BY <1>3, <1>4 DEF FindWinback

\* create_campaign looks for its segment.
LEMMA GetSegmentLeaves ==
    ASSUME IInv, NEW w \in Workers, GetSegment(w)
    PROVE  IInv'
<1>1. stage[w] = "get" /\ request[w].kind = "campaign" /\ w \in Busy
  BY DEF GetSegment, At, Busy
<1>2. tx[w] = NoTx /\ ExclusiveOf(w)
  BY <1>1, NothingWritten DEF Writing
<1> DEFINE segment == Segment(request[w].id)
<1>3. CASE segment \in DOMAIN db /\ Aim(w, segment) /\ tx' = tx
  <2>1. segment \in Segments
    BY <1>1 DEF IInv, TypeOK, RequestOf, NoRequest, Segments
  <2>2. stage'[w] = "campaign" /\ target'[w] = segment /\ request' = request /\ ids' = ids
        /\ db' = db
    BY <1>3 DEF Aim, IInv, TypeOK
  <2>3. TxOK(w)'
    BY <1>1, <1>2, <1>3, <2>1, <2>2
       DEF TxOK, Writing, CreatingOK, DeletingOK, ReceivingOK, NoTx
  <2>4. TxTyped' /\ ExclusiveOf(w)'
    BY <1>2, <1>3 DEF IInv, TypeOK, TxTyped, ExclusiveOf
  <2> QED
    BY <1>1, <1>3, <2>1, <2>3, <2>4, AimLeaves
<1>4. CASE Refuse(w)
  BY <1>4, RefuseLeaves
<1> QED
  BY <1>3, <1>4 DEF GetSegment

\* delete_segment looks for the segment.
LEMMA GetDoomedSegmentLeaves ==
    ASSUME IInv, NEW w \in Workers, GetDoomedSegment(w)
    PROVE  IInv'
<1>1. stage[w] = "get" /\ request[w].kind = "dropSegment" /\ w \in Busy
  BY DEF GetDoomedSegment, Get, At, Busy
<1>2. tx[w] = NoTx
  BY <1>1, NothingWritten DEF Writing
<1>3. CASE Goto(w, "unlink") /\ UNCHANGED <<db, tx, history>>
  <2>1. stage'[w] = "unlink" /\ request' = request
    BY <1>3 DEF Goto, IInv, TypeOK
  <2>2. TxOK(w)'
    BY <1>2, <1>3, <2>1 DEF TxOK, Writing, CreatingOK, DeletingOK, ReceivingOK, NoTx
  <2>3. StageOK(w)' /\ UnracedOK(w)' /\ ReadOK(w)' /\ Finds(w)
    BY <1>1, <2>1 DEF StageOK, UnracedOK, ReadOK, Finds, Found
  <2> QED
    BY <1>1, <1>3, <2>2, <2>3, MoveLeaves DEF OwnOK, Stages
<1> QED
  BY <1>3, RefuseLeaves DEF GetDoomedSegment, Get

\* delete_campaign looks for the campaign.
LEMMA GetDoomedCampaignLeaves ==
    ASSUME IInv, NEW w \in Workers, GetDoomedCampaign(w)
    PROVE  IInv'
<1>1. stage[w] = "get" /\ request[w].kind = "dropCampaign" /\ w \in Busy
  BY DEF GetDoomedCampaign, Get, At, Busy
<1>2. tx[w] = NoTx
  BY <1>1, NothingWritten DEF Writing
<1>3. CASE /\ Campaign(request[w].id) \in DOMAIN db
           /\ Goto(w, "ids") /\ UNCHANGED <<db, tx, history>>
  <2>1. stage'[w] = "ids" /\ request' = request
    BY <1>3 DEF Goto, IInv, TypeOK
  <2>2. TxOK(w)'
    BY <1>2, <1>3, <2>1 DEF TxOK, Writing, CreatingOK, DeletingOK, ReceivingOK, NoTx
  <2>3. StageOK(w)' /\ UnracedOK(w)' /\ ReadOK(w)' /\ Finds(w)
    BY <1>1, <1>3, <2>1 DEF StageOK, UnracedOK, ReadOK, Finds
  <2> QED
    BY <1>1, <1>3, <2>2, <2>3, MoveLeaves DEF OwnOK, Stages
<1> QED
  BY <1>3, RefuseLeaves DEF GetDoomedCampaign, Get

\* The communications that it finds are those it deletes, so that without any it
\* need not delete.
LEMMA SelectCommsLeaves ==
    ASSUME IInv, NEW w \in Workers, SelectComms(w)
    PROVE  IInv'
<1>1. /\ stage[w] = "ids" /\ request[w].kind = "dropCampaign" /\ w \in Busy
      /\ Goto(w, IF CommsOf(db, w) = {} THEN "orders" ELSE "events")
      /\ UNCHANGED <<db, tx, history>>
  BY DEF SelectComms, At, Busy
<1>2. tx[w] = NoTx
  BY <1>1, NothingWritten DEF Writing
<1>3. request' = request
  BY <1>1 DEF Goto
<1>4. Finds(w)
  BY <1>1, <1>3 DEF Finds, Found
<1>5. CASE CommsOf(db, w) # {}
  <2>1. stage'[w] = "events" /\ Goto(w, "events")
    BY <1>1, <1>5 DEF Goto, IInv, TypeOK
  <2>2. TxOK(w)'
    BY <1>1, <1>2, <2>1 DEF TxOK, Writing, CreatingOK, DeletingOK, ReceivingOK, NoTx
  <2>3. StageOK(w)' /\ UnracedOK(w)' /\ ReadOK(w)'
    BY <1>1, <1>3, <2>1 DEF StageOK, UnracedOK, ReadOK
  <2> QED
    BY <1>1, <1>4, <2>1, <2>2, <2>3, MoveLeaves DEF OwnOK, Stages
<1>6. CASE CommsOf(db, w) = {}
  <2>1. stage'[w] = "orders" /\ Goto(w, "orders")
    BY <1>1, <1>6 DEF Goto, IInv, TypeOK
  <2>2. \A k \in Audience : Comm(<<request[w].id, k>>) \notin DOMAIN db
    <3> SUFFICES ASSUME NEW k \in Audience, Comm(<<request[w].id, k>>) \in DOMAIN db
                 PROVE  FALSE
      OBVIOUS
    <3>1. /\ <<request[w].id, k>> \in Comms
          /\ db[Comm(<<request[w].id, k>>)] = Campaign(<<request[w].id, k>>[1])
      BY Reference DEF IInv, TypeOK
    <3> QED
      BY <1>6, <3>1 DEF CommsOf, Refer
  <2>3. CommsGone(w)'
    BY <1>1, <1>3, <2>2 DEF CommsGone
  <2>4. Unlinks(w, OrderRows)' /\ tx'[w] = NoTx
    BY <1>1, <1>2 DEF Unlinks, NoTx
  <2>5. DeletingOK(w)'
    BY <1>1, <1>3, <2>1, <2>3, <2>4 DEF DeletingOK, NoTx
  <2>6. TxOK(w)'
    BY <2>1, <2>4, <2>5 DEF TxOK, Writing, CreatingOK, ReceivingOK, NoTx
  <2>7. StageOK(w)' /\ UnracedOK(w)' /\ ReadOK(w)'
    BY <1>1, <1>3, <2>1 DEF StageOK, UnracedOK, ReadOK
  <2> QED
    BY <1>1, <1>4, <2>1, <2>6, <2>7, MoveLeaves DEF OwnOK, Stages
<1> QED
  BY <1>5, <1>6

\* A receipt looks for its communication.
LEMMA KnownCommLeaves ==
    ASSUME IInv, NEW w \in Workers, KnownComm(w)
    PROVE  IInv'
<1>1. stage[w] = "get" /\ request[w].kind = "receipt" /\ w \in Busy
  BY DEF KnownComm, Get, At, Busy
<1>2. tx[w] = NoTx
  BY <1>1, NothingWritten DEF Writing
<1>3. CASE Comm(request[w].id) \in DOMAIN db /\ Goto(w, "event") /\ UNCHANGED <<db, tx, history>>
  <2>1. stage'[w] = "event" /\ request' = request
    BY <1>3 DEF Goto, IInv, TypeOK
  <2>2. TxOK(w)'
    BY <1>2, <1>3, <2>1 DEF TxOK, Writing, CreatingOK, DeletingOK, ReceivingOK, NoTx
  <2>3. StageOK(w)' /\ UnracedOK(w)' /\ ReadOK(w)' /\ Finds(w)
    BY <1>1, <1>3, <2>1 DEF StageOK, UnracedOK, ReadOK, Finds, Found
  <2> QED
    BY <1>1, <1>3, <2>2, <2>3, MoveLeaves DEF OwnOK, Stages
<1> QED
  BY <1>3, RefuseLeaves DEF KnownComm, Get

\* A P&L looks for its campaign.
LEMMA FindCampaignLeaves ==
    ASSUME IInv, NEW w \in Workers, FindCampaign(w)
    PROVE  IInv'
<1>1. stage[w] = "get" /\ request[w].kind = "pnl" /\ w \in Busy
  BY DEF FindCampaign, Get, At, Busy
<1>2. tx[w] = NoTx
  BY <1>1, NothingWritten DEF Writing
<1>3. CASE /\ Campaign(request[w].id) \in DOMAIN db
           /\ Goto(w, "contacts") /\ UNCHANGED <<db, tx, history>>
  <2>1. stage'[w] = "contacts" /\ request' = request /\ target' = target
    BY <1>3 DEF Goto, IInv, TypeOK
  <2>2. TxOK(w)'
    BY <1>2, <1>3, <2>1 DEF TxOK, Writing, CreatingOK, DeletingOK, ReceivingOK, NoTx
  <2>3. StageOK(w)' /\ UnracedOK(w)' /\ Finds(w)
    BY <1>1, <1>3, <2>1 DEF StageOK, UnracedOK, Finds
  <2>4. ReadOK(w)'
    BY <1>1, <2>1 DEF IInv, ReadOK
  <2> QED
    BY <1>1, <1>3, <2>2, <2>3, <2>4, MoveLeaves DEF OwnOK, Stages
<1> QED
  BY <1>3, RefuseLeaves DEF FindCampaign, Get

\* The communications of a campaign are one for a customer.
LEMMA CommsInForm ==
    ASSUME NEW f, Shaped(f), NEW c
    PROVE  CommsIn(f, c) = {Comm(m) : m \in {x \in Comms : x[1] = c /\ Comm(x) \in DOMAIN f}}
<1>1. ASSUME NEW r \in CommsIn(f, c)
      PROVE  r \in {Comm(m) : m \in {x \in Comms : x[1] = c /\ Comm(x) \in DOMAIN f}}
  <2>1. PICK m \in Comms : r = Comm(m)
    BY DEF CommsIn
  <2>2. r \in DOMAIN f /\ f[r] = Campaign(c)
    BY DEF CommsIn, Refer
  <2>3. f[r] = Campaign(m[1])
    BY <2>1, <2>2, Reference
  <2>4. m[1] = c
    BY <2>2, <2>3, RowsDiffer
  <2> QED
    BY <2>1, <2>2, <2>4
<1>2. ASSUME NEW m \in Comms, m[1] = c, Comm(m) \in DOMAIN f
      PROVE  Comm(m) \in CommsIn(f, c)
  <2>1. f[Comm(m)] = Campaign(m[1])
    BY <1>2, Reference
  <2> QED
    BY <1>2, <2>1 DEF CommsIn, Refer
<1> QED
  BY <1>1, <1>2

\* Hence there are finitely many, and they can be counted.
LEMMA CommsInFinite ==
    ASSUME NEW f, Shaped(f), NEW c
    PROVE  IsFiniteSet(CommsIn(f, c)) /\ Cardinality(CommsIn(f, c)) \in Nat
<1> DEFINE S == CommsIn(f, c)
           customer == [r \in S |-> r[2][2]]
<1>1. ASSUME NEW r \in S
      PROVE  r[2] \in Comms /\ r = Comm(r[2]) /\ r[2][1] = c
  BY CommsInForm, TableOf
<1>2. \A r \in S : customer[r] \in Audience
  BY <1>1, CommIds
<1>3. ASSUME NEW r \in S, NEW s \in S, customer[r] = customer[s] PROVE r = s
  <2>1. r[2] = <<c, customer[r]>> /\ s[2] = <<c, customer[s]>>
    BY <1>1, CommIds
  <2> QED
    BY <1>1, <1>3, <2>1
<1>4. customer \in [S -> Audience]
  BY <1>2
<1> HIDE DEF S, customer
<1>5. customer \in Injection(S, Audience)
  BY <1>3, <1>4 DEF Injection, IsInjective
<1>6. IsFiniteSet(S)
  BY <1>5, FS_Injection, CampaignsAssumption
<1> QED
  BY <1>6, FS_CardinalityType DEF S

\* Every order attributed to a campaign has its communication, and no other has it too.
LEMMA AttributedHaveComms ==
    ASSUME IInv, NEW w \in Workers
    PROVE  /\ Cardinality(Attributed(w)) \in Nat
           /\ Cardinality(Attributed(w)) <= Cardinality(CommsOf(db, w))
<1> DEFINE c == request[w].id
           S == Attributed(w)
           T == CommsIn(db, c)
           comm == [r \in S |-> Comm(r[2])]
<1>0. Shaped(db) /\ T = CommsOf(db, w)
  BY CommsOfIs DEF IInv, TypeOK
<1>1. ASSUME NEW r \in S
      PROVE  \E m \in Comms : m[1] = c /\ r = Order(m) /\ Comm(m) \in T
  <2>1. r \in DOMAIN db /\ db[r] = Campaign(c) /\ r \notin T
    BY <1>0 DEF Attributed, Refer
  <2>2. PICK m \in Comms : m[1] = c /\ (r = Comm(m) \/ r = Order(m))
    BY <1>0, <2>1, ReferredBy
  <2>3. r # Comm(m)
    BY <2>1, <2>2 DEF CommsIn, Refer
  <2>4. Comm(m) \in DOMAIN db
    BY <2>1, <2>2, <2>3 DEF IInv, DbOK
  <2>5. db[Comm(m)] = Campaign(m[1])
    BY <1>0, <2>4, Reference
  <2> QED
    BY <2>2, <2>3, <2>4, <2>5 DEF CommsIn, Refer
<1>2. \A r \in S : comm[r] \in T
  BY <1>1, TableOf
<1>3. \A r, s \in S : comm[r] = comm[s] => r = s
  BY <1>1, TableOf, RowsDiffer
<1>4. comm \in [S -> T]
  BY <1>2
<1>5. IsFiniteSet(T) /\ Cardinality(T) \in Nat
  BY <1>0, CommsInFinite
<1> HIDE DEF S, T, comm
<1>6. comm \in Injection(S, T)
  BY <1>3, <1>4 DEF Injection, IsInjective
<1>7. IsFiniteSet(S) /\ Cardinality(S) <= Cardinality(T)
  BY <1>5, <1>6, FS_Injection
<1>8. Cardinality(S) \in Nat
  BY <1>7, FS_CardinalityType
<1> QED
  BY <1>0, <1>7, <1>8 DEF S

\* What a statement of a P&L leaves behind.
LEMMA ReadEffect ==
    ASSUME IInv, NEW w \in Workers, NEW s, NEW figure \in Nat, NEW next \in {"revenue", "read"},
           s \in {"contacts", "revenue"}, Read(w, s, figure, next)
    PROVE  /\ WorkTyped' /\ TxTyped' /\ Others(w) /\ Same(w) /\ Finds(w) /\ TxOK(w)'
           /\ ExclusiveOf(w)' /\ UnracedOK(w)'
           /\ stage'[w] = next /\ target[w] \in Seq(Nat) /\ target'[w] = Append(target[w], figure)
           /\ request' = request /\ db' = db /\ UNCHANGED <<accepted, deleted, made>>
<1>1. /\ stage[w] = s /\ request[w].kind = "pnl" /\ w \in Busy
      /\ target' = [target EXCEPT ![w] = Append(@, figure)]
      /\ stage' = [stage EXCEPT ![w] = next]
      /\ UNCHANGED <<db, tx, request, ids, made, raced, accepted, deleted>>
  BY DEF Read, At, Busy, history
<1>2. target[w] \in Seq(Nat)
  BY <1>1 DEF IInv, TypeOK
<1>3. /\ stage' \in [Workers -> Stages] /\ stage'[w] = next
      /\ target'[w] = Append(target[w], figure) /\ target'[w] \in Seq(Nat)
      /\ target' = [v \in Workers |-> target'[v]]
      /\ \A v \in Workers \ {w} : stage'[v] = stage[v] /\ target'[v] = target[v]
  <2>1. Append(target[w], figure) \in Seq(Nat)
    BY <1>2
  <2>2. target = [v \in Workers |-> target[v]] /\ stage \in [Workers -> Stages]
    BY DEF IInv, TypeOK
  <2>3. /\ target'[w] = Append(target[w], figure)
        /\ target' = [v \in Workers |-> target'[v]]
        /\ \A v \in Workers \ {w} : target'[v] = target[v]
    BY <1>1, <2>2
  <2>4. /\ stage' \in [Workers -> Stages] /\ stage'[w] = next
        /\ \A v \in Workers \ {w} : stage'[v] = stage[v]
    BY <1>1, <2>2 DEF Stages
  <2> QED
    BY <2>1, <2>3, <2>4
<1>4. WorkTyped'
  BY <1>1, <1>3 DEF IInv, TypeOK, WorkTyped
<1>5. TxTyped'
  BY <1>1 DEF IInv, TypeOK, TxTyped
<1>6. tx'[w] = NoTx /\ ExclusiveOf(w)'
  <2>1. tx[w] = NoTx /\ ExclusiveOf(w)
    BY <1>1, NothingWritten DEF Writing
  <2> QED
    BY <1>1, <2>1 DEF ExclusiveOf
<1>7. TxOK(w)'
  BY <1>3, <1>6 DEF TxOK, Writing, CreatingOK, DeletingOK, ReceivingOK, NoTx
<1>8. UnracedOK(w)'
  BY <1>1, <1>3 DEF UnracedOK
<1>9. Others(w) /\ Same(w) /\ Finds(w)
  BY <1>1, <1>3 DEF Others, Same, Finds, Found
<1> QED
  BY <1>1, <1>2, <1>3, <1>4, <1>5, <1>6, <1>7, <1>8, <1>9

\* The contacts are counted as they are.
LEMMA ReadContactsLeaves ==
    ASSUME IInv, NEW w \in Workers, ReadContacts(w)
    PROVE  IInv'
<1> DEFINE count == Cardinality(CommsOf(db, w))
<1>1. count \in Nat
  BY CommsOfIs, CommsInFinite DEF IInv, TypeOK
<1>2. /\ Read(w, "contacts", count, "revenue")
      /\ stage[w] = "contacts" /\ request[w].kind = "pnl"
  BY DEF ReadContacts, Read, At
<1>3. target[w] = <<>>
  BY <1>2 DEF IInv, ReadOK, Null
<1> HIDE DEF count
<1>4. /\ WorkTyped' /\ TxTyped' /\ Others(w) /\ Same(w) /\ Finds(w) /\ TxOK(w)'
      /\ ExclusiveOf(w)' /\ UnracedOK(w)'
      /\ stage'[w] = "revenue" /\ target'[w] = Append(<<>>, count)
      /\ request' = request /\ db' = db /\ UNCHANGED <<accepted, deleted, made>>
  BY <1>1, <1>2, <1>3, ReadEffect
<1>5. Append(<<>>, count) \in Seq(Nat) /\ Len(Append(<<>>, count)) = 1
      /\ Append(<<>>, count)[1] = count
  BY <1>1
<1>6. CommsOf(db, w)' = CommsOf(db, w)
  BY <1>4 DEF CommsOf
<1>7. ReadOK(w)'
  BY <1>1, <1>4, <1>5, <1>6 DEF ReadOK, count
<1>8. StageOK(w)'
  BY <1>2, <1>4 DEF StageOK
<1> QED
  BY <1>4, <1>7, <1>8, Undisturbed DEF OwnOK

\* No more revenue is read than there are contacts, and none have come since.
LEMMA ReadRevenueLeaves ==
    ASSUME IInv, NEW w \in Workers, ReadRevenue(w)
    PROVE  IInv'
<1> DEFINE count == Cardinality(Attributed(w))
<1>1. count \in Nat /\ count <= Cardinality(CommsOf(db, w))
  BY AttributedHaveComms
<1>2. /\ Read(w, "revenue", count, "read")
      /\ stage[w] = "revenue" /\ request[w].kind = "pnl"
  BY DEF ReadRevenue, Read, At
<1>3. /\ target[w] \in Seq(Nat) /\ Len(target[w]) = 1 /\ target[w][1] \in Nat
      /\ Cardinality(CommsOf(db, w)) <= target[w][1] /\ Cardinality(CommsOf(db, w)) \in Nat
  <2>1. /\ target[w] \in Seq(Nat) /\ Len(target[w]) = 1
        /\ Cardinality(CommsOf(db, w)) <= target[w][1]
    BY <1>2 DEF IInv, ReadOK
  <2>2. target[w][1] \in Nat
    BY <2>1
  <2> QED
    BY <2>1, <2>2, CommsOfIs, CommsInFinite DEF IInv, TypeOK
<1> HIDE DEF count
<1>4. /\ WorkTyped' /\ TxTyped' /\ Others(w) /\ Same(w) /\ Finds(w) /\ TxOK(w)'
      /\ ExclusiveOf(w)' /\ UnracedOK(w)'
      /\ stage'[w] = "read" /\ target'[w] = Append(target[w], count)
      /\ request' = request /\ db' = db /\ UNCHANGED <<accepted, deleted, made>>
  BY <1>1, <1>2, ReadEffect
<1>5. Append(target[w], count)[1] = target[w][1] /\ Append(target[w], count)[2] = count
  BY <1>1, <1>3
<1>6. count <= target[w][1]
  BY <1>1, <1>3
<1>7. ReadOK(w)' /\ StageOK(w)'
  BY <1>2, <1>4 DEF ReadOK, StageOK
<1> QED
  BY <1>4, <1>5, <1>6, <1>7, Undisturbed DEF OwnOK

-----------------------------------------------------------------------------
(* What a transaction writes. *)

\* The rows an open transaction has written, and those it has deleted.
LEMMA WrittenRows ==
    ASSUME IInv, NEW v \in Workers, NEW r \in DOMAIN tx[v].new
    PROVE  \/ r \in CampaignRows \cup OrderRows /\ r \in DOMAIN db
           \/ MakesSegment(v) /\ request[v].kind = "winback" /\ r = Segment(ids[v].segment)
           \/ MakesCampaign(v) /\ r = Campaign(ids[v].campaign)
           \/ request[v].kind = "receipt" /\ r \in {Event(request[v].id), Order(request[v].id)}
<1>1. TxOK(v) /\ StageOK(v)
  BY DEF IInv
<1>2. Writing(v)
  BY <1>1 DEF TxOK, NoTx
<1>3. v \in Busy
  BY <1>2 DEF Writing, Busy
<1>4. CASE stage[v] \in {"campaign", "audience"}
  <2>1. request[v].kind \in {"winback", "campaign"}
    BY <1>1, <1>4 DEF StageOK, NoRequest
  <2>2. /\ r \in {Segment(ids[v].segment), Campaign(ids[v].campaign)}
        /\ r = Segment(ids[v].segment) => request[v].kind = "winback"
    BY <1>1, <1>4 DEF TxOK, CreatingOK
  <2> QED
    BY <1>3, <2>1, <2>2 DEF MakesSegment, MakesCampaign
<1>5. CASE stage[v] \in {"order", "commit"}
  <2>1. request[v].kind = "receipt"
    BY <1>1, <1>5, <1>2 DEF StageOK, Writing
  <2> QED
    BY <1>1, <1>5, <2>1 DEF TxOK, ReceivingOK
<1>6. CASE stage[v] \in {"comms", "orders", "delete"}
  <2>1. (request[v].kind = "dropSegment" /\ stage[v] = "delete") \/ request[v].kind = "dropCampaign"
    BY <1>1, <1>6 DEF StageOK
  <2> QED
    BY <1>1, <1>2, <2>1 DEF TxOK, DeletingOK, Unlinks
<1> QED
  BY <1>2, <1>4, <1>5, <1>6 DEF Writing

\* Only the deletion of a campaign deletes rows before it commits.
LEMMA DeletedRows ==
    ASSUME IInv, NEW v \in Workers, NEW r \in tx[v].gone
    PROVE  /\ request[v].kind = "dropCampaign" /\ Writing(v) /\ v \in Busy
           /\ \E m \in Comms : m[1] = request[v].id /\ r \in {Comm(m), Event(m)}
<1>1. TxOK(v) /\ StageOK(v)
  BY DEF IInv
<1>2. Writing(v)
  BY <1>1 DEF TxOK, NoTx
<1>3. v \in Busy
  BY <1>2 DEF Writing, Busy
<1>4. stage[v] \notin {"campaign", "audience", "order", "commit"}
  BY <1>1 DEF TxOK, CreatingOK, ReceivingOK
<1>5. request[v].kind = "dropCampaign"
  <2>1. stage[v] \in {"comms", "orders", "delete"}
    BY <1>2, <1>4 DEF Writing
  <2>2. request[v].kind \in {"dropSegment", "dropCampaign"}
    BY <1>1, <2>1 DEF StageOK
  <2>3. ~(request[v].kind = "dropSegment" /\ stage[v] = "delete")
    BY <1>1 DEF TxOK, DeletingOK
  <2> QED
    BY <1>1, <2>1, <2>2, <2>3 DEF StageOK
<1>6. PICK k \in Audience : r \in {Comm(<<request[v].id, k>>), Event(<<request[v].id, k>>)}
  BY <1>1, <1>2, <1>5 DEF TxOK, DeletingOK
<1>7. request[v].id \in 1..MaxCampaigns
  BY <1>5 DEF IInv, TypeOK, RequestOf, NoRequest
<1> QED
  BY <1>2, <1>3, <1>5, <1>6, <1>7, CommIds

\* Nobody else has written the segment or the campaign that is being made.
LEMMA FreshIsFree ==
    ASSUME IInv, NEW w \in Workers
    PROVE  /\ MakesSegment(w) => CanWrite(w, {Segment(ids[w].segment)})
           /\ MakesCampaign(w) => CanWrite(w, {Campaign(ids[w].campaign)})
<1> SUFFICES ASSUME NEW v \in Workers, v # w
             PROVE  /\ MakesSegment(w) =>
                          Segment(ids[w].segment) \notin DOMAIN tx[v].new \cup tx[v].gone
                    /\ MakesCampaign(w) =>
                          Campaign(ids[w].campaign) \notin DOMAIN tx[v].new \cup tx[v].gone
  BY DEF CanWrite
<1>1. \A a : Segment(a) \notin tx[v].gone /\ Campaign(a) \notin tx[v].gone
  BY DeletedRows, RowsDiffer
<1>2. ASSUME MakesSegment(w), Segment(ids[w].segment) \in DOMAIN tx[v].new
      PROVE  FALSE
  <2>1. FreshOK(w)
    BY DEF IInv
  <2>2. Segment(ids[w].segment) \notin CampaignRows \cup OrderRows
    BY RowsDiffer DEF CampaignRows, OrderRows
  <2>3. MakesSegment(v) /\ ids[w].segment = ids[v].segment
    BY <1>2, <2>2, WrittenRows, RowsDiffer
  <2> QED
    BY <1>2, <2>1, <2>3 DEF FreshOK
<1>3. ASSUME MakesCampaign(w), Campaign(ids[w].campaign) \in DOMAIN tx[v].new
      PROVE  FALSE
  <2>1. FreshOK(w) /\ Campaign(ids[w].campaign) \notin DOMAIN db
    BY <1>3 DEF IInv, FreshOK
  <2>2. MakesCampaign(v) /\ ids[w].campaign = ids[v].campaign
    BY <1>3, <2>1, WrittenRows, RowsDiffer
  <2> QED
    BY <1>3, <2>1, <2>2 DEF FreshOK
<1> QED
  BY <1>1, <1>2, <1>3

\* A statement that keeps its own promises and waits for whom it must.
LEMMA WriteLeaves ==
    ASSUME IInv, NEW w \in Workers, w \in Busy, request[w].kind # "pnl",
           NEW new, NEW gone, NEW held, NEW s \in Stages \ {"failed", "read", "revenue"},
           Write(w, new, gone, held, s), Shaped(new),
           CanWrite(w, DOMAIN new), CanDelete(w, gone), \A r \in held : CanRefer(w, r),
           Finds(w), StageOK(w)', TxOK(w)', UnracedOK(w)'
    PROVE  IInv'
<1> DEFINE n == Merge(new, tx[w].new)
           g == tx[w].gone \cup gone
           h == tx[w].held \cup held
<1>1. /\ tx' = [tx EXCEPT ![w] = [new |-> n, gone |-> g, held |-> h]]
      /\ Goto(w, s) /\ db' = db /\ accepted' = accepted /\ deleted' = deleted
  BY DEF Write, history
<1>2. Shaped(n) /\ DOMAIN n = DOMAIN new \cup DOMAIN tx[w].new
  <2>1. Shaped(tx[w].new)
    BY DEF IInv, TypeOK
  <2> QED
    BY <2>1 DEF Merge, Shaped
<1> HIDE DEF n, g, h
<1>3. tx'[w] = [new |-> n, gone |-> g, held |-> h] /\ \A v \in Workers \ {w} : tx'[v] = tx[v]
  BY <1>1 DEF IInv, TypeOK
<1>4. TxTyped'
  <2>1. tx' = [v \in Workers |-> IF v = w THEN [new |-> n, gone |-> g, held |-> h] ELSE tx[v]]
    BY <1>1 DEF IInv, TypeOK
  <2>2. tx' = [v \in Workers |-> [new |-> tx'[v].new, gone |-> tx'[v].gone, held |-> tx'[v].held]]
    BY <2>1 DEF IInv, TypeOK
  <2> QED
    BY <1>2, <1>3, <2>2 DEF IInv, TypeOK, TxTyped
<1>5. /\ WorkTyped' /\ Others(w) /\ Same(w) /\ stage'[w] = s /\ request' = request
      /\ made' = made
  BY <1>1, <1>3, GotoEffect DEF IInv
<1>6. ExclusiveOf(w)'
  <2> SUFFICES ASSUME NEW v \in Workers, v # w
               PROVE  /\ DOMAIN n \cap DOMAIN tx[v].new = {}
                      /\ g \cap (DOMAIN tx[v].new \cup tx[v].gone \cup tx[v].held) = {}
                      /\ tx[v].gone \cap (DOMAIN n \cup g \cup h) = {}
    BY <1>3 DEF ExclusiveOf
  <2>1. ExclusiveOf(w)
    BY Exclusion DEF IInv
  <2>2. /\ DOMAIN new \cap (DOMAIN tx[v].new \cup tx[v].gone) = {}
        /\ gone \cap (DOMAIN tx[v].new \cup tx[v].gone) = {}
        /\ gone \cap tx[v].held = {}
        /\ \A r \in held : r \notin tx[v].gone
    BY DEF CanWrite, CanDelete, CanRefer
  <2> QED
    BY <1>2, <2>1, <2>2 DEF ExclusiveOf, g, h
<1>7. ReadOK(w)'
  BY <1>5 DEF ReadOK
<1> QED
  BY <1>1, <1>4, <1>5, <1>6, <1>7, Undisturbed DEF OwnOK

\* What such a statement leaves in the transaction.
Wrote(w, new, gone, held, s) ==
    /\ tx'[w].gone = tx[w].gone \cup gone /\ tx'[w].held = tx[w].held \cup held
    /\ DOMAIN tx'[w].new = DOMAIN new \cup DOMAIN tx[w].new
    /\ \A r \in DOMAIN new : tx'[w].new[r] = new[r]
    /\ \A r \in DOMAIN tx[w].new \ DOMAIN new : tx'[w].new[r] = tx[w].new[r]
    /\ stage'[w] = s /\ request' = request /\ target' = target /\ ids' = ids
    /\ raced' = raced /\ db' = db

\* It is what the statement says, over what was there.
LEMMA WriteEffect ==
    ASSUME IInv, NEW w \in Workers, NEW new, NEW gone, NEW held, NEW s,
           Write(w, new, gone, held, s)
    PROVE  Wrote(w, new, gone, held, s)
<1>1. tx'[w] = [new |-> Merge(new, tx[w].new), gone |-> tx[w].gone \cup gone,
                held |-> tx[w].held \cup held]
  BY DEF Write, IInv, TypeOK
<1>2. stage'[w] = s
  BY DEF Write, Goto, IInv, TypeOK
<1>3. tx'[w].new = Merge(new, tx[w].new)
  BY <1>1
<1>4. /\ DOMAIN tx'[w].new = DOMAIN new \cup DOMAIN tx[w].new
      /\ \A r \in DOMAIN new : tx'[w].new[r] = new[r]
      /\ \A r \in DOMAIN tx[w].new \ DOMAIN new : tx'[w].new[r] = tx[w].new[r]
  BY <1>3 DEF Merge
<1> QED
  BY <1>1, <1>2, <1>4 DEF Write, Goto, Wrote

\* What a transaction sees: its own rows first.
LEMMA Seen ==
    ASSUME NEW w, NEW S
    PROVE  Referring(w, S) =
               {r \in DOMAIN tx[w].new \ tx[w].gone : tx[w].new[r] \in S}
               \cup {r \in DOMAIN db \ (DOMAIN tx[w].new \cup tx[w].gone) : db[r] \in S}
BY DEF Referring, View, Without, Merge

\* The rows it sees.
LEMMA SeenRows == \A w : DOMAIN View(w) = (DOMAIN tx[w].new \cup DOMAIN db) \ tx[w].gone
BY DEF View, Without, Merge

-----------------------------------------------------------------------------
(* The actions that write rows. *)

\* The key is nobody else's, or the request fails in a race.
LEMMA AddWinbackLeaves ==
    ASSUME IInv, NEW w \in Workers, AddWinback(w)
    PROVE  IInv'
<1> DEFINE key == request[w].id
           segment == Segment(ids[w].segment)
           new == [r \in {segment} |-> key]
<1>1. stage[w] = "segment" /\ request[w].kind = "winback" /\ w \in Busy
  BY DEF AddWinback, At, Busy
<1>2. tx[w] = NoTx /\ MakesSegment(w)
  BY <1>1, NothingWritten DEF Writing, MakesSegment
<1>3. CASE Fail(w) /\ {r \in DOMAIN db : db[r] = key} # {}
  <2>1. raced[w]
    BY <1>1, <1>3 DEF IInv, UnracedOK, TypeOK
  <2> QED
    BY <1>1, <1>3, <2>1, FailLeaves
<1>4. CASE tx' = [tx EXCEPT ![w].new = Merge(new, @)] /\ Aim(w, segment)
  <2>1. request[w].id \in Keys
    BY <1>1 DEF IInv, TypeOK, RequestOf, NoRequest, Keys
  <2>2. segment \in Segments
    <3>1. ids[w].segment \in 1..made.segment /\ made \in Numbers
      BY <1>2 DEF IInv, FreshOK, TypeOK
    <3>2. ids[w].segment \in 1..MaxSegments
      BY <3>1, CampaignsAssumption DEF Numbers
    <3> QED
      BY <3>2 DEF Segments
  <2>3. DOMAIN new = {segment} /\ new[segment] = key
    OBVIOUS
  <2>4. Shaped(new)
    <3>1. segment[1] = "segments" /\ segment \in Rows
      BY <2>2, TableOf DEF Rows
    <3> QED
      BY <2>1, <2>3, <3>1 DEF Shaped, Refers
  <2> HIDE DEF new
  <2>5. Merge(new, NoTx.new) = new
    <3>1. DOMAIN NoTx.new = {}
      BY DEF NoTx
    <3>2. new = [r \in DOMAIN new |-> new[r]]
      BY DEF new
    <3> QED
      BY <3>1, <3>2 DEF Merge
  <2>6. tx' = [v \in Workers |-> IF v = w THEN [new |-> new, gone |-> {}, held |-> {}] ELSE tx[v]]
    <3> DEFINE merged == Merge(new, tx[w].new)
    <3>1. merged = new
      BY <1>2, <2>5
    <3>2. tx' = [tx EXCEPT ![w].new = merged]
      BY <1>4
    <3> HIDE DEF merged
    <3>3. tx[w] = [new |-> tx[w].new, gone |-> {}, held |-> {}]
      BY <1>2 DEF NoTx
    <3>4. tx' = [v \in Workers |-> IF v = w THEN [tx[w] EXCEPT !.new = merged] ELSE tx[v]]
      BY <3>2 DEF IInv, TypeOK
    <3>5. [tx[w] EXCEPT !.new = merged] = [new |-> merged, gone |-> {}, held |-> {}]
      BY <3>3
    <3> QED
      BY <3>1, <3>4, <3>5
  <2>7. TxTyped'
    <3>1. tx' = [v \in Workers |-> [new |-> tx'[v].new, gone |-> tx'[v].gone, held |-> tx'[v].held]]
      BY <2>6 DEF IInv, TypeOK
    <3> QED
      BY <2>4, <2>6, <3>1 DEF IInv, TypeOK, TxTyped
  <2>8. ExclusiveOf(w)'
    BY <1>2, <2>3, <2>6, FreshIsFree DEF ExclusiveOf, CanWrite
  <2>9. /\ stage'[w] = "campaign" /\ target'[w] = segment /\ request' = request /\ ids' = ids
        /\ db' = db
    BY <1>4 DEF Aim, IInv, TypeOK
  <2>10. TxOK(w)'
    <3>1. Campaign(ids[w].campaign) # segment
      BY RowsDiffer
    <3> QED
      BY <1>1, <2>2, <2>3, <2>6, <2>9, <3>1
         DEF TxOK, Writing, CreatingOK, DeletingOK, ReceivingOK
  <2> QED
    BY <1>1, <1>4, <2>2, <2>3, <2>6, <2>7, <2>8, <2>10, AimLeaves
<1> QED
  BY <1>3, <1>4 DEF AddWinback

\* The segment is there, or was deleted in a race.
LEMMA InsertCampaignLeaves ==
    ASSUME IInv, NEW w \in Workers, InsertCampaign(w)
    PROVE  IInv'
<1> DEFINE segment == target[w]
           campaign == Campaign(ids[w].campaign)
           new == [r \in {campaign} |-> segment]
<1>1. stage[w] = "campaign" /\ w \in Busy /\ CanRefer(w, segment)
  BY DEF InsertCampaign, Busy
<1>2. request[w].kind \in {"winback", "campaign"} /\ MakesCampaign(w)
  BY <1>1 DEF IInv, StageOK, NoRequest, MakesCampaign
<1>3. TxOK(w) /\ CreatingOK(w) /\ segment \in Segments /\ tx[w].gone = {} /\ tx[w].held = {}
  BY <1>1 DEF IInv, TxOK, CreatingOK
<1>4. CASE segment \in DOMAIN View(w) /\ Write(w, new, {}, {segment}, "audience")
  <2>1. campaign \in CampaignRows
    <3>1. ids[w].campaign \in 1..made.campaign /\ made \in Numbers
      BY <1>2 DEF IInv, FreshOK, TypeOK
    <3>2. ids[w].campaign \in 1..MaxCampaigns
      BY <3>1, CampaignsAssumption DEF Numbers
    <3> QED
      BY <3>2 DEF CampaignRows
  <2>2. DOMAIN new = {campaign} /\ new[campaign] = segment
    OBVIOUS
  <2>3. Shaped(new)
    <3>1. campaign[1] = "campaigns" /\ campaign \in Rows
      BY <2>1, TableOf DEF Rows
    <3> QED
      BY <1>3, <2>2, <3>1 DEF Shaped, Refers
  <2> HIDE DEF new
  <2>4. /\ tx'[w].gone = {} /\ tx'[w].held = {segment}
        /\ DOMAIN tx'[w].new = {campaign} \cup DOMAIN tx[w].new
        /\ tx'[w].new[campaign] = segment
        /\ \A r \in DOMAIN tx[w].new \ {campaign} : tx'[w].new[r] = tx[w].new[r]
        /\ stage'[w] = "audience" /\ request' = request /\ target' = target /\ ids' = ids
        /\ db' = db
    <3>1. Wrote(w, new, {}, {segment}, "audience")
      BY <1>4, WriteEffect
    <3> QED
      BY <1>3, <2>2, <3>1 DEF Wrote
  <2>5. segment \in DOMAIN db \cup DOMAIN tx[w].new
    BY <1>4, SeenRows
  <2>6. CreatingOK(w)'
    <3>1. Segment(ids[w].segment) # campaign
      BY RowsDiffer
    <3> QED
      BY <1>1, <1>3, <2>4, <3>1 DEF CreatingOK
  <2>7. TxOK(w)'
    BY <1>2, <2>4, <2>5, <2>6 DEF TxOK, Writing, DeletingOK, ReceivingOK
  <2>8. StageOK(w)' /\ UnracedOK(w)' /\ Finds(w)
    BY <1>2, <2>4 DEF StageOK, UnracedOK, Finds, Found
  <2>9. CanWrite(w, DOMAIN new) /\ CanDelete(w, {}) /\ \A r \in {segment} : CanRefer(w, r)
    BY <1>1, <1>2, <2>2, FreshIsFree DEF CanDelete, CanWrite
  <2> QED
    BY <1>1, <1>2, <1>4, <2>3, <2>7, <2>8, <2>9, WriteLeaves DEF Stages
<1>5. CASE segment \notin DOMAIN View(w) /\ Fail(w)
  <2>1. raced[w]
    <3>1. segment \notin DOMAIN db \cup DOMAIN tx[w].new
      BY <1>3, <1>5, SeenRows
    <3> QED
      BY <1>1, <3>1 DEF IInv, UnracedOK, TypeOK
  <2> QED
    BY <1>1, <1>2, <1>5, <2>1, FailLeaves
<1> QED
  BY <1>4, <1>5 DEF InsertCampaign

\* The campaigns of a segment lose it.
LEMMA UnlinkCampaignsLeaves ==
    ASSUME IInv, NEW w \in Workers, UnlinkCampaigns(w)
    PROVE  IInv'
<1> DEFINE linked == Refer(db, Segment(request[w].id))
           new == [r \in linked |-> Null]
<1>1. /\ stage[w] = "unlink" /\ request[w].kind = "dropSegment" /\ w \in Busy
      /\ CanWrite(w, linked) /\ Write(w, new, {}, {}, "delete")
  BY DEF UnlinkCampaigns, At, Busy, NoTx
<1>2. tx[w] = NoTx
  BY <1>1, NothingWritten DEF Writing
<1>3. request[w].id \in 1..MaxSegments
  BY <1>1 DEF IInv, TypeOK, RequestOf, NoRequest
<1>4. linked \subseteq CampaignRows /\ linked \subseteq DOMAIN db
  <2>1. ASSUME NEW r \in linked PROVE r \in CampaignRows /\ r \in DOMAIN db
    <3>1. r \in DOMAIN db /\ db[r] \in Segments
      BY <1>3 DEF Refer, Segments
    <3> QED
      BY <3>1, ReferredBy DEF IInv, TypeOK
  <2> QED
    BY <2>1
<1>5. DOMAIN new = linked /\ \A r \in linked : new[r] = Null
  OBVIOUS
<1>6. \A s \in DOMAIN db \ linked : db[s] # Segment(request[w].id)
  BY DEF Refer
<1> HIDE DEF new, linked
<1>7. Shaped(new)
  <2>1. \A r \in CampaignRows : r[1] = "campaigns" /\ r \in Rows
    BY TableOf DEF CampaignRows, Rows
  <2> QED
    BY <1>4, <1>5, <2>1 DEF Shaped, Refers
<1>8. /\ tx'[w].gone = {} /\ tx'[w].held = {} /\ DOMAIN tx'[w].new = linked
      /\ \A r \in linked : tx'[w].new[r] = Null
      /\ stage'[w] = "delete" /\ request' = request /\ db' = db
  <2>1. DOMAIN tx[w].new = {} /\ tx[w].gone = {} /\ tx[w].held = {}
    BY <1>2 DEF NoTx
  <2>2. Wrote(w, new, {}, {}, "delete")
    BY <1>1, WriteEffect
  <2> QED
    BY <1>5, <2>1, <2>2 DEF Wrote
<1>9. TxOK(w)'
  <2>1. Unlinks(w, CampaignRows)'
    BY <1>4, <1>8 DEF Unlinks
  <2>2. DeletingOK(w)'
    BY <1>1, <1>8, <2>1 DEF DeletingOK
  <2> QED
    BY <1>8, <2>2 DEF TxOK, Writing, CreatingOK, ReceivingOK
<1>10. UnracedOK(w)'
  BY <1>1, <1>6, <1>8 DEF UnracedOK
<1>11. StageOK(w)' /\ Finds(w)
  BY <1>1, <1>8 DEF StageOK, Finds, Found
<1>12. CanWrite(w, DOMAIN new) /\ CanDelete(w, {})
  BY <1>1, <1>5 DEF CanDelete, CanWrite
<1> QED
  BY <1>1, <1>7, <1>9, <1>10, <1>11, <1>12, WriteLeaves DEF Stages

\* A statement that inserts nothing.
LEMMA NothingNew == DOMAIN NoTx.new = {} /\ Shaped(NoTx.new)
BY DEF NoTx, Shaped

\* No row refers to an event, so that events can always be deleted.
LEMMA DeleteEventsLeaves ==
    ASSUME IInv, NEW w \in Workers, DeleteEvents(w)
    PROVE  IInv'
<1> DEFINE c == request[w].id
           doomed == {Event(<<request[w].id, k>>) : k \in Audience} \cap DOMAIN db
<1>1. /\ stage[w] = "events" /\ request[w].kind = "dropCampaign" /\ w \in Busy
      /\ CanDelete(w, doomed) /\ Write(w, NoTx.new, doomed, {}, "comms")
  BY DEF DeleteEvents, At, Busy
<1>2. DOMAIN tx[w].new = {} /\ tx[w].gone = {} /\ tx[w].held = {}
  <2>1. tx[w] = NoTx
    BY <1>1, NothingWritten DEF Writing
  <2> QED
    BY <2>1 DEF NoTx
<1>3. /\ \A r \in doomed : \E k \in Audience : r = Event(<<c, k>>)
      /\ \A k \in Audience : Event(<<c, k>>) \in DOMAIN db => Event(<<c, k>>) \in doomed
  OBVIOUS
<1> HIDE DEF doomed
<1>4. /\ tx'[w].gone = doomed /\ tx'[w].held = {} /\ DOMAIN tx'[w].new = {}
      /\ stage'[w] = "comms" /\ request' = request /\ db' = db
  <2>1. Wrote(w, NoTx.new, doomed, {}, "comms")
    BY <1>1, WriteEffect
  <2> QED
    BY <1>2, <2>1, NothingNew DEF Wrote
<1>5. ASSUME NEW r \in DOMAIN db, db[r] \in doomed PROVE FALSE
  <2>1. PICK k \in Audience : db[r] = Event(<<c, k>>)
    BY <1>3, <1>5
  <2> QED
    BY <2>1, ReferredBy DEF IInv, TypeOK
<1>6. DeletingOK(w)'
  <2>1. Unlinks(w, OrderRows)'
    BY <1>4 DEF Unlinks
  <2>2. doomed \subseteq UNION {{Comm(<<c, k>>), Event(<<c, k>>)} : k \in Audience}
    BY <1>3
  <2>3. (tx[w].gone \subseteq UNION {{Comm(<<request[w].id, k>>), Event(<<request[w].id, k>>)} :
                                          k \in Audience})'
    BY <1>4, <2>2
  <2> QED
    BY <1>1, <1>4, <1>5, <2>1, <2>3 DEF DeletingOK
<1>7. TxOK(w)'
  BY <1>4, <1>6 DEF TxOK, Writing, CreatingOK, ReceivingOK
<1>8. UnracedOK(w)'
  BY <1>1, <1>3, <1>4 DEF UnracedOK
<1>9. StageOK(w)' /\ Finds(w)
  BY <1>1, <1>4 DEF StageOK, Finds, Found
<1>10. CanWrite(w, DOMAIN NoTx.new)
  BY NothingNew DEF CanWrite
<1> QED
  BY <1>1, <1>7, <1>8, <1>9, <1>10, NothingNew, WriteLeaves DEF Stages

\* The only events left are those that a receipt added in a race.
LEMMA DeleteCommsLeaves ==
    ASSUME IInv, NEW w \in Workers, DeleteComms(w)
    PROVE  IInv'
<1> DEFINE c == request[w].id
           doomed == CommsOf(db, w)
<1>1. /\ stage[w] = "comms" /\ request[w].kind = "dropCampaign" /\ w \in Busy
      /\ CanDelete(w, doomed)
  BY DEF DeleteComms, At, Busy
<1>2. /\ Unlinks(w, OrderRows) /\ DOMAIN tx[w].new = {} /\ tx[w].held = {}
      /\ tx[w].gone \subseteq UNION {{Comm(<<c, k>>), Event(<<c, k>>)} : k \in Audience}
      /\ \A r \in DOMAIN db \ tx[w].gone : db[r] \notin tx[w].gone
  <2>1. DeletingOK(w) /\ Writing(w)
    BY <1>1 DEF IInv, TxOK, Writing
  <2> QED
    BY <1>1, <2>1 DEF DeletingOK, Unlinks
<1>3. doomed = {Comm(m) : m \in {x \in Comms : x[1] = c /\ Comm(x) \in DOMAIN db}}
  BY CommsInForm, CommsOfIs DEF IInv, TypeOK
<1>4. \A r \in doomed : \E k \in Audience : r = Comm(<<c, k>>)
  BY <1>3, CommIds
<1>5. \A k \in Audience : Comm(<<c, k>>) \in DOMAIN db => Comm(<<c, k>>) \in doomed
  <2> SUFFICES ASSUME NEW k \in Audience, Comm(<<c, k>>) \in DOMAIN db
               PROVE  Comm(<<c, k>>) \in doomed
    OBVIOUS
  <2>1. <<c, k>> \in Comms
    BY Reference DEF IInv, TypeOK
  <2> QED
    BY <1>3, <2>1, CommIds
<1>6. CASE Referring(w, doomed) = {} /\ Write(w, NoTx.new, doomed, {}, "orders")
  <2>1. \A r \in DOMAIN db \ tx[w].gone : db[r] \notin doomed
    BY <1>2, <1>6, Seen
  <2> HIDE DEF doomed
  <2>2. /\ tx'[w].gone = tx[w].gone \cup doomed /\ tx'[w].held = {} /\ DOMAIN tx'[w].new = {}
        /\ stage'[w] = "orders" /\ request' = request /\ db' = db
    <3>1. Wrote(w, NoTx.new, doomed, {}, "orders")
      BY <1>6, WriteEffect
    <3> QED
      BY <1>2, <3>1, NothingNew DEF Wrote
  <2>3. DeletingOK(w)'
    <3>1. Unlinks(w, OrderRows)'
      BY <2>2 DEF Unlinks
    <3>2. doomed \subseteq UNION {{Comm(<<c, k>>), Event(<<c, k>>)} : k \in Audience}
      BY <1>4
    <3>3. (tx[w].gone \subseteq UNION {{Comm(<<request[w].id, k>>), Event(<<request[w].id, k>>)} :
                                            k \in Audience})'
      BY <1>2, <2>2, <3>2
    <3>4. CommsGone(w)'
      BY <1>5, <2>2 DEF CommsGone
    <3>5. \A r \in DOMAIN db' \ tx'[w].gone : db'[r] \notin tx'[w].gone
      BY <1>2, <2>1, <2>2
    <3> QED
      BY <1>1, <2>2, <3>1, <3>3, <3>4, <3>5 DEF DeletingOK
  <2>4. TxOK(w)'
    BY <2>2, <2>3 DEF TxOK, Writing, CreatingOK, ReceivingOK
  <2>5. StageOK(w)' /\ UnracedOK(w)' /\ Finds(w)
    BY <1>1, <2>2 DEF StageOK, UnracedOK, Finds, Found
  <2>6. CanWrite(w, DOMAIN NoTx.new)
    BY NothingNew DEF CanWrite
  <2> QED
    BY <1>1, <1>6, <2>4, <2>5, <2>6, NothingNew, WriteLeaves DEF Stages
<1>7. CASE Referring(w, doomed) # {} /\ Fail(w)
  <2>1. PICK r \in DOMAIN db \ tx[w].gone : db[r] \in doomed
    BY <1>2, <1>7, Seen
  <2>2. PICK k \in Audience : db[r] = Comm(<<c, k>>)
    BY <1>4, <2>1
  <2>3. r = Event(<<c, k>>)
    BY <2>1, <2>2, ReferredBy DEF IInv, TypeOK
  <2>4. raced[w]
    BY <1>1, <2>1, <2>3 DEF IInv, UnracedOK, TypeOK
  <2> QED
    BY <1>1, <1>7, <2>4, FailLeaves
<1> QED
  BY <1>6, <1>7 DEF DeleteComms

\* The orders of a campaign lose it.
LEMMA UnlinkOrdersLeaves ==
    ASSUME IInv, NEW w \in Workers, UnlinkOrders(w)
    PROVE  IInv'
<1> DEFINE c == request[w].id
           linked == Refer(db, Campaign(c)) \cap {Order(m) : m \in Comms}
           new == [r \in linked |-> Null]
<1>1. /\ stage[w] = "orders" /\ request[w].kind = "dropCampaign" /\ w \in Busy
      /\ CanWrite(w, linked) /\ Write(w, new, {}, {}, "delete")
  BY DEF UnlinkOrders, At, Busy
<1>2. /\ DOMAIN tx[w].new = {} /\ tx[w].held = {} /\ CommsGone(w)
      /\ tx[w].gone \subseteq UNION {{Comm(<<c, k>>), Event(<<c, k>>)} : k \in Audience}
      /\ \A r \in DOMAIN db \ tx[w].gone : db[r] \notin tx[w].gone
  <2>1. DeletingOK(w) /\ Writing(w)
    BY <1>1 DEF IInv, TxOK, Writing
  <2> QED
    BY <1>1, <2>1 DEF DeletingOK, Unlinks
<1>3. linked \subseteq OrderRows \cap DOMAIN db
  BY DEF OrderRows, Refer
<1>4. DOMAIN new = linked /\ \A r \in linked : new[r] = Null
  OBVIOUS
<1>5. \A m \in Comms : Order(m) \in DOMAIN db \ linked => db[Order(m)] # Campaign(c)
  BY DEF Refer
<1> HIDE DEF new, linked
<1>6. Shaped(new)
  <2>1. \A r \in OrderRows : r[1] = "orders" /\ r \in Rows
    BY TableOf DEF OrderRows, Rows
  <2> QED
    BY <1>3, <1>4, <2>1 DEF Shaped, Refers
<1>7. /\ tx'[w].gone = tx[w].gone /\ tx'[w].held = {} /\ DOMAIN tx'[w].new = linked
      /\ \A r \in linked : tx'[w].new[r] = Null
      /\ stage'[w] = "delete" /\ request' = request /\ db' = db
  <2>1. Wrote(w, new, {}, {}, "delete")
    BY <1>1, WriteEffect
  <2> QED
    BY <1>2, <1>4, <2>1 DEF Wrote
<1>8. TxOK(w)'
  <2>1. Unlinks(w, OrderRows)'
    BY <1>3, <1>7 DEF Unlinks
  <2>2. CommsGone(w)'
    BY <1>2, <1>7 DEF CommsGone
  <2>3. (tx[w].gone \subseteq UNION {{Comm(<<request[w].id, k>>), Event(<<request[w].id, k>>)} :
                                          k \in Audience})'
    BY <1>2, <1>7
  <2>4. \A r \in DOMAIN db' \ tx'[w].gone : db'[r] \notin tx'[w].gone
    BY <1>2, <1>7
  <2>5. DeletingOK(w)'
    BY <1>1, <1>7, <2>1, <2>2, <2>3, <2>4 DEF DeletingOK
  <2> QED
    BY <1>7, <2>5 DEF TxOK, Writing, CreatingOK, ReceivingOK
<1>9. UnracedOK(w)'
  BY <1>1, <1>5, <1>7 DEF UnracedOK
<1>10. StageOK(w)' /\ Finds(w)
  BY <1>1, <1>7 DEF StageOK, Finds, Found
<1>11. CanWrite(w, DOMAIN new) /\ CanDelete(w, {})
  BY <1>1, <1>4 DEF CanDelete, CanWrite
<1> QED
  BY <1>1, <1>6, <1>8, <1>9, <1>10, <1>11, WriteLeaves DEF Stages

\* The communication is there, or was deleted in a race.
LEMMA InsertEventLeaves ==
    ASSUME IInv, NEW w \in Workers, InsertEvent(w)
    PROVE  IInv'
<1> DEFINE m == request[w].id
           new == [r \in {Event(m)} |-> Comm(m)]
<1>1. /\ stage[w] = "event" /\ request[w].kind = "receipt" /\ w \in Busy
      /\ CanWrite(w, {Event(m)})
  BY DEF InsertEvent, At, Busy
<1>2. DOMAIN tx[w].new = {} /\ tx[w].gone = {} /\ tx[w].held = {}
  <2>1. tx[w] = NoTx
    BY <1>1, NothingWritten DEF Writing
  <2> QED
    BY <2>1 DEF NoTx
<1>3. m \in Comms
  BY <1>1 DEF IInv, TypeOK, RequestOf, NoRequest
<1>4. CASE Refuse(w)
  BY <1>4, RefuseLeaves
<1>5. CASE Comm(m) \notin DOMAIN db /\ Fail(w)
  <2>1. raced[w]
    BY <1>1, <1>5 DEF IInv, UnracedOK, TypeOK
  <2> QED
    BY <1>1, <1>5, <2>1, FailLeaves
<1>6. CASE CanRefer(w, Comm(m)) /\ Comm(m) \in DOMAIN db
           /\ Write(w, new, {}, {Comm(m)}, "order")
  <2>1. DOMAIN new = {Event(m)} /\ new[Event(m)] = Comm(m)
    OBVIOUS
  <2> HIDE DEF new
  <2>2. Shaped(new)
    <3>1. /\ Event(m)[1] = "communication_events" /\ Event(m)[2] = m /\ Event(m) \in Rows
      BY <1>3, TableOf DEF Rows
    <3> QED
      BY <2>1, <3>1 DEF Shaped, Refers
  <2>3. /\ tx'[w].gone = {} /\ tx'[w].held = {Comm(m)} /\ DOMAIN tx'[w].new = {Event(m)}
        /\ stage'[w] = "order" /\ request' = request /\ db' = db
    <3>1. Wrote(w, new, {}, {Comm(m)}, "order")
      BY <1>6, WriteEffect
    <3> QED
      BY <1>2, <2>1, <3>1 DEF Wrote
  <2>4. TxOK(w)'
    <3>1. ReceivingOK(w)'
      BY <2>3, RowsDiffer DEF ReceivingOK
    <3> QED
      BY <1>1, <1>6, <2>3, <3>1 DEF TxOK, Writing, CreatingOK, DeletingOK
  <2>5. StageOK(w)' /\ UnracedOK(w)' /\ Finds(w)
    BY <1>1, <2>3 DEF StageOK, UnracedOK, Finds, Found
  <2>6. CanWrite(w, DOMAIN new) /\ CanDelete(w, {}) /\ \A r \in {Comm(m)} : CanRefer(w, r)
    BY <1>1, <1>6, <2>1 DEF CanDelete, CanWrite
  <2> QED
    BY <1>1, <1>6, <2>2, <2>4, <2>5, <2>6, WriteLeaves DEF Stages
<1> QED
  BY <1>4, <1>5, <1>6 DEF InsertEvent

\* The communication that the event refers to keeps its campaign there.
LEMMA InsertOrderLeaves ==
    ASSUME IInv, NEW w \in Workers, InsertOrder(w)
    PROVE  IInv'
<1> DEFINE m == request[w].id
           campaign == Campaign(m[1])
           rows == {Order(m)} \ DOMAIN db
           new == [r \in rows |-> campaign]
<1>1. /\ stage[w] = "order" /\ request[w].kind = "receipt" /\ w \in Busy
      /\ CanWrite(w, {Order(m)}) /\ CanRefer(w, campaign)
      /\ IF campaign \notin DOMAIN db THEN Fail(w)
         ELSE Write(w, new, {}, {campaign}, "commit")
  BY DEF InsertOrder, At, Busy
<1>2. m \in Comms
  BY <1>1, SMTT(30) DEF IInv, TypeOK, RequestOf, NoRequest
<1>3. /\ tx[w].gone = {} /\ tx[w].held = {Comm(m)} /\ Event(m) \in DOMAIN tx[w].new
      /\ DOMAIN tx[w].new \subseteq {Event(m), Order(m)} /\ Order(m) \notin DOMAIN tx[w].new
      /\ tx[w].held \subseteq DOMAIN db \cup DOMAIN tx[w].new
  BY <1>1 DEF IInv, TxOK, ReceivingOK
<1>4. Comm(m) \in DOMAIN db
  BY <1>3, RowsDiffer
<1>5. campaign \in DOMAIN db
  <2>1. db[Comm(m)] = campaign
    BY <1>4, Reference DEF IInv, TypeOK
  <2>2. campaign \in Rows
    BY <1>2, CommIds DEF Rows, CampaignRows
  <2> QED
    BY <1>4, <2>1, <2>2 DEF IInv, DbOK, Closed
<1>6. Write(w, new, {}, {campaign}, "commit")
  BY <1>1, <1>5
<1>7. /\ DOMAIN new = rows /\ \A r \in rows : new[r] = campaign
      /\ rows \subseteq {Order(m)} /\ Order(m) \in DOMAIN db \cup rows
  OBVIOUS
<1> HIDE DEF new, rows
<1>8. Shaped(new)
  <2>1. Order(m)[1] = "orders" /\ Order(m)[2] = m /\ Order(m) \in Rows
    BY <1>2, TableOf DEF Rows, OrderRows
  <2> QED
    BY <1>7, <2>1 DEF Shaped, Refers
<1>9. /\ tx'[w].gone = {} /\ tx'[w].held = {Comm(m), campaign}
      /\ DOMAIN tx'[w].new = rows \cup DOMAIN tx[w].new
      /\ stage'[w] = "commit" /\ request' = request /\ db' = db
  <2>1. Wrote(w, new, {}, {campaign}, "commit")
    BY <1>6, WriteEffect
  <2> QED
    BY <1>3, <1>7, <2>1 DEF Wrote
<1>10. TxOK(w)'
  <2>1. ReceivingOK(w)'
    BY <1>3, <1>7, <1>9 DEF ReceivingOK
  <2> QED
    BY <1>1, <1>4, <1>5, <1>9, <2>1 DEF TxOK, Writing, CreatingOK, DeletingOK
<1>11. StageOK(w)' /\ UnracedOK(w)' /\ Finds(w)
  BY <1>1, <1>9 DEF StageOK, UnracedOK, Finds, Found
<1>12. CanWrite(w, DOMAIN new) /\ CanDelete(w, {}) /\ \A r \in {campaign} : CanRefer(w, r)
  BY <1>1, <1>7 DEF CanDelete, CanWrite
<1> QED
  BY <1>1, <1>6, <1>8, <1>10, <1>11, <1>12, WriteLeaves DEF Stages

-----------------------------------------------------------------------------
(* A request begins. *)

\* It has written nothing, its ids are nobody else's, and each of the requests
\* under way and it know whether the other may make it fail.
LEMMA BeginEffect ==
    ASSUME IInv, NEW w \in Workers, NEW r \in RequestOf, Begin(w, r)
    PROVE  /\ TypeOK' /\ tx' = tx /\ db' = db /\ UNCHANGED <<accepted, deleted>>
           /\ w \notin Busy /\ tx[w] = NoTx
           /\ made'.segment \in Nat /\ made'.campaign \in Nat
           /\ made'.segment >= made.segment /\ made'.campaign >= made.campaign
           /\ r.kind \in {"create", "winback"} =>
                  ids'[w].segment = made.segment + 1 /\ made'.segment = made.segment + 1
           /\ r.kind \in {"campaign", "winback"} =>
                  ids'[w].campaign = made.campaign + 1 /\ made'.campaign = made.campaign + 1
           /\ stage'[w] = "get" /\ request'[w] = r /\ target'[w] = Null
           /\ \A v \in Workers \ {w} : /\ stage'[v] = stage[v] /\ request'[v] = request[v]
                                       /\ target'[v] = target[v] /\ ids'[v] = ids[v]
           /\ raced' = [v \in Workers |->
                  IF v = w THEN \E u \in Busy : request[u] \in Races(r)
                  ELSE raced[v] \/ (v \in Busy /\ r \in Races(request[v]))]
<1> DEFINE segment == IF r.kind \in {"create", "winback"} THEN 1 ELSE 0
           campaign == IF r.kind \in {"campaign", "winback"} THEN 1 ELSE 0
<1>1. /\ w \notin Busy
      /\ made.segment + segment <= MaxSegments
      /\ made.campaign + campaign <= MaxCampaigns
      /\ made' = [segment |-> made.segment + segment, campaign |-> made.campaign + campaign]
      /\ ids' = [ids EXCEPT ![w] = IF segment + campaign > 0 THEN made' ELSE NoIds]
      /\ request' = [request EXCEPT ![w] = r]
      /\ stage' = [stage EXCEPT ![w] = "get"]
      /\ target' = [target EXCEPT ![w] = Null]
      /\ raced' = [v \in Workers |->
             IF v = w THEN \E u \in Busy : request[u] \in Races(r)
             ELSE raced[v] \/ (v \in Busy /\ r \in Races(request[v]))]
      /\ UNCHANGED <<db, tx, accepted, deleted>>
  BY DEF Begin, history
<1>2. TypeOK
  BY DEF IInv
<1>3. segment \in {0, 1} /\ campaign \in {0, 1}
      /\ (r.kind \in {"create", "winback"} => segment = 1)
      /\ (r.kind \in {"campaign", "winback"} => campaign = 1)
  OBVIOUS
<1> HIDE DEF segment, campaign
<1>4. made.segment \in 0..MaxSegments /\ made.campaign \in 0..MaxCampaigns
  BY <1>2 DEF TypeOK, Numbers
<1>5. made' \in Numbers /\ made'.segment = made.segment + segment
      /\ made'.campaign = made.campaign + campaign
  BY <1>1, <1>3, <1>4, CampaignsAssumption DEF Numbers
<1>6. ids' \in [Workers -> Numbers] /\ ids'[w] = (IF segment + campaign > 0 THEN made' ELSE NoIds)
      /\ \A v \in Workers \ {w} : ids'[v] = ids[v]
  <2>1. NoIds \in Numbers
    BY CampaignsAssumption DEF NoIds, Numbers
  <2> QED
    BY <1>1, <1>2, <1>5, <2>1 DEF TypeOK
<1>7. /\ request' \in [Workers -> RequestOf \cup {NoRequest}] /\ stage' \in [Workers -> Stages]
      /\ stage'[w] = "get" /\ request'[w] = r
      /\ \A v \in Workers \ {w} : stage'[v] = stage[v] /\ request'[v] = request[v]
  BY <1>1, <1>2 DEF TypeOK, Stages
<1>8. /\ target' = [v \in Workers |-> target'[v]] /\ target'[w] = Null
      /\ \A v \in Workers \ {w} : target'[v] = target[v]
  BY <1>1, <1>2 DEF TypeOK
<1>9. \A v \in Workers : IF request'[v].kind = "pnl" THEN target'[v] \in Seq(Nat)
                         ELSE target'[v] \in Segments \cup {Null}
  <2>1. Null \in Seq(Nat)
    BY DEF Null
  <2> QED
    BY <1>2, <1>7, <1>8, <2>1 DEF TypeOK
<1>10. raced' \in [Workers -> BOOLEAN]
  BY <1>1, <1>2 DEF TypeOK
<1>11. TypeOK'
  <2>1. TxTyped' /\ Shaped(db') /\ accepted' \subseteq Comms /\ deleted' \subseteq 1..MaxCampaigns
    BY <1>1, <1>2 DEF TypeOK, TxTyped
  <2>2. WorkTyped'
    BY <1>5, <1>6, <1>7, <1>8, <1>9, <1>10 DEF WorkTyped
  <2> QED
    BY <2>1, <2>2 DEF TypeOK, TxTyped, WorkTyped
<1>12. tx[w] = NoTx
  BY <1>1, NothingWritten DEF Writing, Busy
<1>13. /\ made'.segment \in Nat /\ made'.campaign \in Nat
       /\ made'.segment >= made.segment /\ made'.campaign >= made.campaign
       /\ r.kind \in {"create", "winback"} =>
              ids'[w].segment = made.segment + 1 /\ made'.segment = made.segment + 1
       /\ r.kind \in {"campaign", "winback"} =>
              ids'[w].campaign = made.campaign + 1 /\ made'.campaign = made.campaign + 1
  BY <1>3, <1>4, <1>5, <1>6, CampaignsAssumption
<1> QED
  BY <1>1, <1>7, <1>6, <1>8, <1>11, <1>12, <1>13

\* Hence the invariant holds with one more request.
LEMMA BeginLeaves ==
    ASSUME IInv, NEW w \in Workers, NEW r \in RequestOf, Begin(w, r)
    PROVE  IInv'
<1>1. /\ TypeOK' /\ tx' = tx /\ db' = db /\ UNCHANGED <<accepted, deleted>>
      /\ w \notin Busy /\ tx[w] = NoTx
      /\ made'.segment \in Nat /\ made'.campaign \in Nat
      /\ made'.segment >= made.segment /\ made'.campaign >= made.campaign
      /\ r.kind \in {"create", "winback"} =>
             ids'[w].segment = made.segment + 1 /\ made'.segment = made.segment + 1
      /\ r.kind \in {"campaign", "winback"} =>
             ids'[w].campaign = made.campaign + 1 /\ made'.campaign = made.campaign + 1
      /\ stage'[w] = "get" /\ request'[w] = r /\ target'[w] = Null
      /\ \A v \in Workers \ {w} : /\ stage'[v] = stage[v] /\ request'[v] = request[v]
                                  /\ target'[v] = target[v] /\ ids'[v] = ids[v]
  BY BeginEffect
<1>2. raced' = [v \in Workers |->
                  IF v = w THEN \E u \in Busy : request[u] \in Races(r)
                  ELSE raced[v] \/ (v \in Busy /\ r \in Races(request[v]))]
  BY BeginEffect
<1>3. Busy' = Busy \cup {w}
  BY <1>1 DEF Busy
<1>4. \A v \in Workers \ {w} : raced[v] => raced'[v]
  BY <1>2 DEF IInv, TypeOK
<1>5. made.segment \in Nat /\ made.campaign \in Nat
      /\ made.segment \in 0..MaxSegments /\ made.campaign \in 0..MaxCampaigns
  BY CampaignsAssumption DEF IInv, TypeOK, Numbers
<1>6. ASSUME NEW v \in Workers \ {w} PROVE OwnOK(v)'
  <2>1. OwnOK(v)
    BY DEF IInv, OwnOK
  <2>2. /\ tx'[v] = tx[v] /\ db' = db /\ request'[v] = request[v] /\ stage'[v] = stage[v]
        /\ target'[v] = target[v] /\ ids'[v] = ids[v]
    BY <1>1
  <2>3. StageOK(v)' /\ ReadOK(v)'
    <3>1. CommsOf(db, v)' = CommsOf(db, v)
      BY <2>2 DEF CommsOf
    <3> QED
      BY <2>1, <2>2, <3>1 DEF OwnOK, StageOK, ReadOK
  <2>4. TxOK(v)'
    <3>1. CreatingOK(v)' /\ ReceivingOK(v)'
      BY <2>1, <2>2 DEF OwnOK, TxOK, CreatingOK, ReceivingOK
    <3>2. CommsGone(v)' <=> CommsGone(v)
      BY <2>2 DEF CommsGone
    <3>3. \A rows : Unlinks(v, rows)' <=> Unlinks(v, rows)
      BY <2>2 DEF Unlinks
    <3>4. DeletingOK(v)'
      BY <2>1, <2>2, <3>2, <3>3 DEF OwnOK, TxOK, DeletingOK, Writing
    <3> QED
      BY <2>1, <2>2, <3>1, <3>4 DEF OwnOK, TxOK, Writing
  <2>5. UnracedOK(v)'
    <3>1. v \in Busy' <=> v \in Busy
      BY <1>3
    <3>2. ~raced'[v] => ~raced[v]
      BY <1>4
    <3> QED
      BY <2>1, <2>2, <3>1, <3>2 DEF OwnOK, UnracedOK
  <2> QED
    BY <2>3, <2>4, <2>5 DEF OwnOK
<1>7. OwnOK(w)'
  <2>1. TxOK(w)'
    BY <1>1 DEF TxOK, Writing, CreatingOK, DeletingOK, ReceivingOK, NoTx
  <2>2. StageOK(w)' /\ UnracedOK(w)' /\ ReadOK(w)'
    BY <1>1 DEF StageOK, UnracedOK, ReadOK
  <2> QED
    BY <2>1, <2>2 DEF OwnOK
<1>8. ASSUME NEW v \in Workers PROVE FreshOK(v)'
  <2>1. \A u \in Workers : FreshOK(u)
    BY DEF IInv
  <2>2. \A u \in Workers \ {w} : /\ MakesSegment(u)' <=> MakesSegment(u)
                                 /\ MakesCampaign(u)' <=> MakesCampaign(u)
                                 /\ Found(u)' <=> Found(u)
                                 /\ ids'[u] = ids[u] /\ request'[u].id = request[u].id
    BY <1>1, <1>3 DEF MakesSegment, MakesCampaign, Found
  <2>3. ~Found(w)' /\ ~MakesSegment(w) /\ ~MakesCampaign(w)
    BY <1>1 DEF Found, MakesSegment, MakesCampaign
  <2>4. /\ MakesSegment(w)' => /\ ids'[w].segment = made.segment + 1
                               /\ ids'[w].segment \in 1..made'.segment
        /\ MakesCampaign(w)' => /\ ids'[w].campaign = made.campaign + 1
                                /\ ids'[w].campaign \in 1..made'.campaign
    BY <1>1, <1>5 DEF MakesSegment, MakesCampaign
  <2>5. \A u \in Workers \ {w} : /\ MakesSegment(u) => ids[u].segment \in 1..made.segment
                                 /\ MakesCampaign(u) => ids[u].campaign \in 1..made.campaign
                                 /\ Found(u) => request[u].id \in 1..made.campaign
    BY <2>1 DEF FreshOK
  <2>6. /\ MakesSegment(w)' => Segment(ids'[w].segment) \notin DOMAIN db
        /\ MakesCampaign(w)' => /\ Campaign(ids'[w].campaign) \notin DOMAIN db
                                /\ ids'[w].campaign \notin deleted
    <3>1. made' \in Numbers
      BY <1>1 DEF TypeOK
    <3>2. made'.segment \in 0..MaxSegments /\ made'.campaign \in 0..MaxCampaigns
      BY <3>1 DEF Numbers
    <3>3. /\ MakesSegment(w)' => ids'[w].segment \in 1..MaxSegments /\ ~(ids'[w].segment <= made.segment)
          /\ MakesCampaign(w)' => ids'[w].campaign \in 1..MaxCampaigns /\ ~(ids'[w].campaign <= made.campaign)
      BY <1>5, <2>4, <3>2, CampaignsAssumption
    <3> QED
      BY <3>3 DEF IInv, DbOK
  <2>7. CASE v = w
    <3>1. \A u \in Workers \ {w} : /\ MakesSegment(w)' /\ MakesSegment(u) => ids[u].segment # ids'[w].segment
                                   /\ MakesCampaign(w)' /\ MakesCampaign(u) => ids[u].campaign # ids'[w].campaign
                                   /\ MakesCampaign(w)' /\ Found(u) => request[u].id # ids'[w].campaign
      BY <1>5, <2>4, <2>5
    <3> QED
      BY <1>1, <2>2, <2>3, <2>4, <2>6, <2>7, <3>1 DEF FreshOK
  <2>8. CASE v # w
    <3>1. /\ MakesSegment(v)' =>
                 /\ ids'[v].segment \in 1..made'.segment /\ Segment(ids'[v].segment) \notin DOMAIN db'
                 /\ \A u \in Workers \ {v} : MakesSegment(u)' => ids'[u].segment # ids'[v].segment
      BY <1>1, <1>5, <2>1, <2>2, <2>4, <2>5, <2>8 DEF FreshOK
    <3>2. /\ MakesCampaign(v)' =>
                 /\ ids'[v].campaign \in 1..made'.campaign
                 /\ Campaign(ids'[v].campaign) \notin DOMAIN db' /\ ids'[v].campaign \notin deleted'
                 /\ \A u \in Workers \ {v} : MakesCampaign(u)' => ids'[u].campaign # ids'[v].campaign
                 /\ \A u \in Workers : Found(u)' => request'[u].id # ids'[v].campaign
      BY <1>1, <1>5, <2>1, <2>2, <2>3, <2>4, <2>5, <2>8 DEF FreshOK
    <3>3. Found(v)' => request'[v].id \in 1..made'.campaign
      BY <1>1, <1>5, <2>2, <2>5, <2>8
    <3> QED
      BY <3>1, <3>2, <3>3 DEF FreshOK
  <2> QED
    BY <2>7, <2>8
<1>9. Exclusive'
  BY <1>1 DEF IInv, Exclusive
<1>10. DbOK'
  <2>1. \A n \in 1..MaxSegments : Segment(n) \in DOMAIN db => n <= made'.segment
    BY <1>1, <1>5 DEF IInv, DbOK
  <2>2. \A c \in 1..MaxCampaigns : Campaign(c) \in DOMAIN db \/ c \in deleted => c <= made'.campaign
    BY <1>1, <1>5 DEF IInv, DbOK
  <2> QED
    BY <1>1, <2>1, <2>2 DEF IInv, DbOK
<1>11. RacesKnown'
  <2> SUFFICES ASSUME NEW u \in Busy', NEW v \in Busy', u # v,
                      request'[v] \in Races(request'[u])
               PROVE  raced'[u]
    BY DEF RacesKnown
  <2>1. u \in Workers /\ v \in Workers
    BY DEF Busy
  <2>2. CASE u = w
    BY <1>1, <1>2, <1>3, <2>1, <2>2
  <2>3. CASE v = w
    BY <1>1, <1>2, <1>3, <2>1, <2>3
  <2>4. CASE u # w /\ v # w
    <3>1. raced[u]
      BY <1>1, <1>3, <2>1, <2>4 DEF IInv, RacesKnown
    <3> QED
      BY <1>4, <2>1, <2>4, <3>1
  <2> QED
    BY <2>2, <2>3, <2>4
<1>12. FailsOnlyInARace'
  BY <1>1, <1>4 DEF IInv, FailsOnlyInARace
<1>13. AcceptedUntilDeleted' /\ RevenueHasCost'
  BY <1>1 DEF IInv, AcceptedUntilDeleted, RevenueHasCost
<1> QED
  BY <1>1, <1>6, <1>7, <1>8, <1>9, <1>10, <1>11, <1>12, <1>13 DEF IInv, OwnOK

-----------------------------------------------------------------------------
(* A request commits. *)

\* The rows W come in or change, the rows D go, and the request is over.
Commits(w, W, D) ==
    /\ Answer(w)
    /\ DOMAIN db' = (DOMAIN W \cup DOMAIN db) \ D
    /\ \A r \in DOMAIN db' : db'[r] = IF r \in DOMAIN W THEN W[r] ELSE db[r]

\* It is what a commit does.
LEMMA CommitIs ==
    ASSUME NEW w, NEW new, NEW gone, NEW W, NEW D, Commit(w, new, gone), Answer(w),
           W = Merge(new, tx[w].new), D = tx[w].gone \cup gone,
           DOMAIN new \cap tx[w].gone = {}
    PROVE  Commits(w, W, D)
<1>1. DOMAIN View(w) = (DOMAIN tx[w].new \cup DOMAIN db) \ tx[w].gone
      /\ \A r \in DOMAIN View(w) : View(w)[r] = IF r \in DOMAIN tx[w].new THEN tx[w].new[r] ELSE db[r]
  BY DEF View, Without, Merge
<1>2. db' = Without(Merge(new, View(w)), gone)
  BY DEF Commit
<1>3. DOMAIN db' = (DOMAIN new \cup DOMAIN View(w)) \ gone
      /\ \A r \in DOMAIN db' : db'[r] = IF r \in DOMAIN new THEN new[r] ELSE View(w)[r]
  BY <1>2 DEF Without, Merge
<1>4. DOMAIN W = DOMAIN new \cup DOMAIN tx[w].new
      /\ \A r \in DOMAIN W : W[r] = IF r \in DOMAIN new THEN new[r] ELSE tx[w].new[r]
  BY DEF Merge
<1>5. DOMAIN db' = (DOMAIN W \cup DOMAIN db) \ D
  BY <1>1, <1>3, <1>4
<1>6. ASSUME NEW r \in DOMAIN db' PROVE db'[r] = IF r \in DOMAIN W THEN W[r] ELSE db[r]
  BY <1>1, <1>3, <1>4
<1> QED
  BY <1>5, <1>6 DEF Commits

\* What it refers to stays, and nothing that stays refers to what goes.
RefersWell(w, W, D) ==
    /\ Shaped(W)
    /\ \A r \in DOMAIN W : W[r] \in Rows => W[r] \in (DOMAIN W \cup DOMAIN db) \ D
    /\ \A r \in DOMAIN W : W[r] \notin D
    /\ \A r \in DOMAIN db \ (DOMAIN W \cup D) : db[r] \notin D

\* It takes no row from another request, and refers to none that another deletes.
LetsBe(w, W, D) ==
    \A v \in Workers \ {w} :
        /\ D \cap (DOMAIN tx[v].new \cup tx[v].held) = {}
        /\ \A r \in DOMAIN W : W[r] \notin tx[v].gone

\* What a request of each kind brings, and what it takes away.
Brings(w, W) ==
    /\ \A n : Segment(n) \in DOMAIN W => MakesSegment(w) /\ n = ids[w].segment
    /\ \A c : Campaign(c) \in DOMAIN W =>
                  Campaign(c) \in DOMAIN db \/ (MakesCampaign(w) /\ c = ids[w].campaign)
    /\ \A m : Comm(m) \in DOMAIN W => MakesCampaign(w) /\ m[1] = ids[w].campaign
    /\ \A m : Event(m) \in DOMAIN W => request[w].kind = "receipt" /\ m = request[w].id
    /\ \A m : Order(m) \in DOMAIN W /\ W[Order(m)] # Null =>
                  /\ request[w].kind = "receipt" /\ m = request[w].id
                  /\ Comm(m) \in DOMAIN db
    /\ \A r \in DOMAIN W : \A n : W[r] = Segment(n) =>
                  request[w].kind = "winback" \/ (request[w].kind = "campaign" /\ request[w].id = n)
    /\ \A r \in DOMAIN W : W[r] \in Tenants \X Hashes =>
                  request[w].kind = "winback" /\ request[w].id = W[r]

Takes(w, D) ==
    /\ \A n : Segment(n) \in D => request[w].kind = "dropSegment" /\ n = request[w].id
    /\ \A m : Comm(m) \in D \/ Event(m) \in D =>
                  /\ request[w].kind = "dropCampaign" /\ m[1] = request[w].id
                  /\ Campaign(m[1]) \in D
    /\ \A c : Campaign(c) \in D =>
                  /\ request[w].kind = "dropCampaign" /\ Found(w)
                  /\ c = request[w].id /\ c \in deleted'
    /\ \A m : Order(m) \notin D

\* What it remembers.
Remembers(w, W, D) ==
    /\ \/ deleted' = deleted
       \/ /\ request[w].kind = "dropCampaign" /\ Campaign(request[w].id) \in D
          /\ deleted' = deleted \cup {request[w].id}
    /\ \/ accepted' = accepted
       \/ /\ request[w].kind = "receipt" /\ D = {}
          /\ accepted' = accepted \cup {request[w].id}
          /\ {Event(request[w].id), Order(request[w].id)} \subseteq DOMAIN W \cup DOMAIN db

CommitOK(w, W, D) ==
    /\ RefersWell(w, W, D) /\ LetsBe(w, W, D) /\ Brings(w, W) /\ Takes(w, D)
    /\ Remembers(w, W, D)

\* A campaign that is taken away had been found, and one that is remembered is.
LEMMA TakenCampaign ==
    ASSUME IInv, NEW w \in Workers, NEW D, Takes(w, D), NEW c, Campaign(c) \in D
    PROVE  c \in 1..MaxCampaigns /\ c \in 1..made.campaign
<1>1. request[w].kind = "dropCampaign" /\ Found(w) /\ c = request[w].id
  BY DEF Takes
<1>2. request[w].id \in 1..made.campaign
  BY <1>1 DEF IInv, FreshOK
<1>3. request[w].id \in 1..MaxCampaigns
  BY <1>1 DEF IInv, TypeOK, RequestOf, NoRequest
<1> QED
  BY <1>1, <1>2, <1>3

\* The committed rows.
LEMMA CommitKeepsRows ==
    ASSUME IInv, NEW w \in Workers, NEW W, NEW D, Commits(w, W, D), CommitOK(w, W, D)
    PROVE  Shaped(db') /\ DbOK' /\ AcceptedUntilDeleted'
<1>1. /\ DOMAIN db' = (DOMAIN W \cup DOMAIN db) \ D
      /\ \A r \in DOMAIN db' : db'[r] = IF r \in DOMAIN W THEN W[r] ELSE db[r]
      /\ Answer(w)
  BY DEF Commits
<1>2. made' = made /\ made.segment \in 0..MaxSegments /\ made.campaign \in 0..MaxCampaigns
  BY <1>1 DEF Answer, IInv, TypeOK, Numbers
<1>3. RefersWell(w, W, D) /\ Brings(w, W) /\ Takes(w, D) /\ Remembers(w, W, D)
  BY DEF CommitOK
<1>4. Shaped(db) /\ Closed(db) /\ Shaped(W)
  BY <1>3 DEF IInv, TypeOK, DbOK, RefersWell
<1>5. Shaped(db')
  BY <1>1, <1>4 DEF Shaped
<1>6. Closed(db')
  <2> SUFFICES ASSUME NEW r \in DOMAIN db', db'[r] \in Rows PROVE db'[r] \in DOMAIN db'
    BY DEF Closed
  <2>1. CASE r \in DOMAIN W
    BY <1>1, <1>3, <2>1 DEF RefersWell
  <2>2. CASE r \notin DOMAIN W
    BY <1>1, <1>3, <1>4, <2>2 DEF RefersWell, Closed
  <2> QED
    BY <2>1, <2>2
<1>7. \A r \in DOMAIN db' : db'[r] \notin D
  BY <1>1, <1>3 DEF RefersWell
<1>8. ASSUME NEW m \in Comms, Order(m) \in DOMAIN db', db'[Order(m)] = Campaign(m[1])
      PROVE  Comm(m) \in DOMAIN db'
  <2>1. Comm(m) \in DOMAIN db
    <3>1. CASE Order(m) \in DOMAIN W
      <4>1. W[Order(m)] # Null
        BY <1>1, <1>8, <3>1, NullIsNoRow
      <4> QED
        BY <1>3, <3>1, <4>1 DEF Brings
    <3>2. CASE Order(m) \notin DOMAIN W
      BY <1>1, <1>8, <3>2 DEF IInv, DbOK
    <3> QED
      BY <3>1, <3>2
  <2>2. Comm(m) \notin D
    BY <1>3, <1>7, <1>8 DEF Takes
  <2> QED
    BY <1>1, <2>1, <2>2
<1>9. ASSUME NEW n \in 1..MaxSegments, Segment(n) \in DOMAIN db' PROVE n <= made'.segment
  <2>1. CASE Segment(n) \in DOMAIN W
    <3>1. MakesSegment(w) /\ n = ids[w].segment
      BY <1>3, <2>1 DEF Brings
    <3>2. ids[w].segment \in 1..made.segment
      BY <3>1 DEF IInv, FreshOK
    <3> QED
      BY <1>2, <3>1, <3>2
  <2>2. CASE Segment(n) \in DOMAIN db
    BY <1>2, <2>2 DEF IInv, DbOK
  <2> QED
    BY <1>1, <1>9, <2>1, <2>2
<1>10. ASSUME NEW c \in deleted' PROVE c \in deleted \/ Campaign(c) \in D
  BY <1>3 DEF Remembers
<1>11. ASSUME NEW c \in 1..MaxCampaigns, Campaign(c) \in DOMAIN db' \/ c \in deleted'
       PROVE  c <= made'.campaign
  <2>1. CASE Campaign(c) \in DOMAIN W /\ Campaign(c) \notin DOMAIN db
    <3>1. MakesCampaign(w) /\ c = ids[w].campaign
      BY <1>3, <2>1 DEF Brings
    <3>2. ids[w].campaign \in 1..made.campaign
      BY <3>1 DEF IInv, FreshOK
    <3> QED
      BY <1>2, <3>1, <3>2
  <2>2. CASE Campaign(c) \in DOMAIN db \/ c \in deleted
    BY <1>2, <2>2 DEF IInv, DbOK
  <2>3. CASE Campaign(c) \in D
    <3>1. c \in 1..made.campaign
      BY <1>3, <2>3, TakenCampaign
    <3> QED
      BY <1>2, <3>1
  <2> QED
    BY <1>1, <1>10, <1>11, <2>1, <2>2, <2>3
<1>12. ASSUME NEW c \in deleted', Campaign(c) \in DOMAIN db' PROVE FALSE
  <2>1. Campaign(c) \notin D
    BY <1>1, <1>12
  <2>2. c \in deleted /\ Campaign(c) \notin DOMAIN db
    BY <1>10, <2>1 DEF IInv, DbOK
  <2>3. MakesCampaign(w) /\ c = ids[w].campaign
    BY <1>1, <1>3, <1>12, <2>2 DEF Brings
  <2> QED
    BY <2>2, <2>3 DEF IInv, FreshOK
<1>13. DbOK'
  BY <1>6, <1>8, <1>9, <1>11, <1>12 DEF DbOK
<1>14. ASSUME NEW m \in accepted'
       PROVE  (Event(m) \in DOMAIN db' \/ m[1] \in deleted') /\ Order(m) \in DOMAIN db'
  <2>1. CASE m \in accepted
    <3>1. (Event(m) \in DOMAIN db \/ m[1] \in deleted) /\ Order(m) \in DOMAIN db
      BY <2>1 DEF IInv, AcceptedUntilDeleted
    <3>2. Order(m) \notin D /\ (Event(m) \in D => m[1] \in deleted')
      BY <1>3 DEF Takes
    <3>3. deleted \subseteq deleted'
      BY <1>3 DEF Remembers
    <3> QED
      BY <1>1, <3>1, <3>2, <3>3
  <2>2. CASE m \notin accepted
    BY <1>1, <1>3, <1>14, <2>2 DEF Remembers
  <2> QED
    BY <2>1, <2>2
<1> QED
  BY <1>5, <1>13, <1>14 DEF AcceptedUntilDeleted

\* What is not done beside a request that no other may make fail.
LEMMA NoRace ==
    ASSUME IInv, NEW w \in Workers, NEW v \in Workers, w # v, w \in Busy, v \in Busy, ~raced[v]
    PROVE  LET r == request[v]
               s == request[w]
           IN  /\ r.kind = "winback" =>
                      s.kind # "dropSegment" /\ ~(s.kind = "winback" /\ s.id = r.id)
               /\ r.kind = "campaign" => ~(s.kind = "dropSegment" /\ s.id = r.id)
               /\ r.kind = "dropSegment" =>
                      s.kind # "winback" /\ ~(s.kind = "campaign" /\ s.id = r.id)
               /\ r.kind = "dropCampaign" => ~(s.kind = "receipt" /\ s.id[1] = r.id)
               /\ r.kind = "receipt" => ~(s.kind = "dropCampaign" /\ s.id = r.id[1])
<1> DEFINE r == request[v]
           s == request[w]
<1>1. s \notin Races(r)
  BY DEF IInv, RacesKnown
<1>2. r \in RequestOf \cup {NoRequest} /\ s \in RequestOf \cup {NoRequest}
  BY DEF IInv, TypeOK
<1> HIDE DEF r, s
<1>3. ASSUME r.kind = "winback"
      PROVE  s.kind # "dropSegment" /\ ~(s.kind = "winback" /\ s.id = r.id)
  <2>1. Races(r) = {r} \cup [kind : {"dropSegment"}, id : 1..MaxSegments]
    BY <1>3 DEF Races
  <2>2. s.kind = "dropSegment" => s \in [kind : {"dropSegment"}, id : 1..MaxSegments]
    BY <1>2 DEF RequestOf, NoRequest
  <2>3. s.kind = "winback" /\ s.id = r.id => s = r
    BY <1>2, <1>3 DEF RequestOf, NoRequest
  <2> QED
    BY <1>1, <2>1, <2>2, <2>3
<1>4. ASSUME r.kind = "campaign", s.kind = "dropSegment", s.id = r.id PROVE FALSE
  <2>1. Races(r) = [kind : {"dropSegment"}, id : {r.id}]
    BY <1>4 DEF Races
  <2>2. s \in [kind : {"dropSegment"}, id : {r.id}]
    BY <1>2, <1>4 DEF RequestOf, NoRequest
  <2> QED
    BY <1>1, <2>1, <2>2
<1>5. ASSUME r.kind = "dropSegment"
      PROVE  s.kind # "winback" /\ ~(s.kind = "campaign" /\ s.id = r.id)
  <2>1. Races(r) = [kind : {"campaign"}, id : {r.id}]
                       \cup [kind : {"winback"}, id : Tenants \X Hashes]
    BY <1>5 DEF Races
  <2>2. s.kind = "winback" => s \in [kind : {"winback"}, id : Tenants \X Hashes]
    BY <1>2 DEF RequestOf, NoRequest
  <2>3. s.kind = "campaign" /\ s.id = r.id => s \in [kind : {"campaign"}, id : {r.id}]
    BY <1>2 DEF RequestOf, NoRequest
  <2> QED
    BY <1>1, <2>1, <2>2, <2>3
<1>6. ASSUME r.kind = "dropCampaign", s.kind = "receipt", s.id[1] = r.id PROVE FALSE
  <2>1. Races(r) = [kind : {"receipt"}, id : {r.id} \X Audience]
    BY <1>6 DEF Races
  <2>2. s \in [kind : {"receipt"}, id : Comms]
    BY <1>2, <1>6 DEF RequestOf, NoRequest
  <2>3. s.id \in {r.id} \X Audience
    BY <1>6, <2>2, CommIds
  <2>4. s \in [kind : {"receipt"}, id : {r.id} \X Audience]
    BY <2>2, <2>3
  <2> QED
    BY <1>1, <2>1, <2>4
<1>7. ASSUME r.kind = "receipt", s.kind = "dropCampaign", s.id = r.id[1] PROVE FALSE
  <2>1. Races(r) = [kind : {"dropCampaign"}, id : {r.id[1]}]
    BY <1>7 DEF Races
  <2>2. s \in [kind : {"dropCampaign"}, id : {r.id[1]}]
    BY <1>2, <1>7 DEF RequestOf, NoRequest
  <2> QED
    BY <1>1, <2>1, <2>2
<1> QED
  BY <1>3, <1>4, <1>5, <1>6, <1>7 DEF r, s

\* Two requests do not make the same campaign, nor does one find what another makes.
LEMMA CommitKeepsFresh ==
    ASSUME IInv, NEW w \in Workers, NEW W, NEW D, Commits(w, W, D), CommitOK(w, W, D)
    PROVE  \A v \in Workers : FreshOK(v)'
<1>1. /\ DOMAIN db' = (DOMAIN W \cup DOMAIN db) \ D
      /\ Others(w) /\ w \notin Busy' /\ stage'[w] = "idle" /\ request'[w] = NoRequest
      /\ made' = made
  BY AnswerEffect DEF Commits, IInv
<1>2. Brings(w, W) /\ Takes(w, D) /\ Remembers(w, W, D)
  BY DEF CommitOK
<1>3. \A v \in Workers : FreshOK(v)
  BY DEF IInv
<1>4. ~MakesSegment(w)' /\ ~MakesCampaign(w)' /\ ~Found(w)'
  BY <1>1 DEF MakesSegment, MakesCampaign, Found
<1>5. \A v \in Workers \ {w} : /\ MakesSegment(v)' <=> MakesSegment(v)
                               /\ MakesCampaign(v)' <=> MakesCampaign(v)
                               /\ Found(v)' <=> Found(v)
                               /\ ids'[v] = ids[v] /\ request'[v] = request[v]
  BY <1>1, OthersBusy DEF Others, MakesSegment, MakesCampaign, Found
<1> SUFFICES ASSUME NEW v \in Workers, v # w PROVE FreshOK(v)'
  BY <1>4 DEF FreshOK
<1>6. MakesSegment(v)' =>
          /\ ids'[v].segment \in 1..made'.segment /\ Segment(ids'[v].segment) \notin DOMAIN db'
          /\ \A u \in Workers \ {v} : MakesSegment(u)' => ids'[u].segment # ids'[v].segment
  <2> SUFFICES ASSUME MakesSegment(v)
               PROVE  /\ ids[v].segment \in 1..made.segment
                      /\ Segment(ids[v].segment) \notin DOMAIN db'
                      /\ \A u \in Workers \ {v} : MakesSegment(u)' => ids'[u].segment # ids[v].segment
    BY <1>1, <1>5
  <2>1. Segment(ids[v].segment) \notin DOMAIN W
    BY <1>2, <1>3 DEF Brings, FreshOK
  <2> QED
    BY <1>1, <1>3, <1>4, <1>5, <2>1 DEF FreshOK
<1>7. MakesCampaign(v)' =>
          /\ ids'[v].campaign \in 1..made'.campaign
          /\ Campaign(ids'[v].campaign) \notin DOMAIN db' /\ ids'[v].campaign \notin deleted'
          /\ \A u \in Workers \ {v} : MakesCampaign(u)' => ids'[u].campaign # ids'[v].campaign
          /\ \A u \in Workers : Found(u)' => request'[u].id # ids'[v].campaign
  <2> SUFFICES ASSUME MakesCampaign(v)
               PROVE  /\ ids[v].campaign \in 1..made.campaign
                      /\ Campaign(ids[v].campaign) \notin DOMAIN db'
                      /\ ids[v].campaign \notin deleted'
                      /\ \A u \in Workers \ {v} : MakesCampaign(u)' => ids'[u].campaign # ids[v].campaign
                      /\ \A u \in Workers : Found(u)' => request'[u].id # ids[v].campaign
    BY <1>1, <1>5
  <2>1. Campaign(ids[v].campaign) \notin DOMAIN W
    BY <1>2, <1>3 DEF Brings, FreshOK
  <2>2. ids[v].campaign \notin deleted'
    <3>1. \A c : Campaign(c) \in D => c # ids[v].campaign
      BY <1>2, <1>3 DEF Takes, FreshOK
    <3> QED
      BY <1>2, <1>3, <3>1 DEF Remembers, FreshOK
  <2> QED
    BY <1>1, <1>3, <1>4, <1>5, <2>1, <2>2 DEF FreshOK
<1>8. Found(v)' => request'[v].id \in 1..made'.campaign
  BY <1>1, <1>3, <1>5 DEF FreshOK
<1> QED
  BY <1>6, <1>7, <1>8 DEF FreshOK

\* The other requests still fit the committed rows.
LEMMA CommitKeepsTx ==
    ASSUME IInv, NEW w \in Workers, NEW W, NEW D, Commits(w, W, D), CommitOK(w, W, D),
           NEW v \in Workers, v # w
    PROVE  TxOK(v)'
<1>1. /\ DOMAIN db' = (DOMAIN W \cup DOMAIN db) \ D
      /\ \A r \in DOMAIN db' : db'[r] = IF r \in DOMAIN W THEN W[r] ELSE db[r]
      /\ tx'[v] = tx[v] /\ request'[v] = request[v] /\ stage'[v] = stage[v]
      /\ target'[v] = target[v] /\ ids'[v] = ids[v]
  BY AnswerEffect DEF Commits, IInv, Others
<1>2. RefersWell(w, W, D) /\ LetsBe(w, W, D) /\ Brings(w, W) /\ Takes(w, D)
  BY DEF CommitOK
<1>3. /\ ~Writing(v) => tx[v] = NoTx
      /\ CreatingOK(v) /\ DeletingOK(v) /\ ReceivingOK(v)
      /\ tx[v].held \subseteq DOMAIN db \cup DOMAIN tx[v].new
  BY DEF IInv, TxOK
<1>4. D \cap (DOMAIN tx[v].new \cup tx[v].held) = {} /\ \A r \in DOMAIN W : W[r] \notin tx[v].gone
  BY <1>2 DEF LetsBe
<1>5. CreatingOK(v)'
  BY <1>1, <1>3 DEF CreatingOK
<1>6. \A rows : Unlinks(v, rows) => Unlinks(v, rows)'
  BY <1>1, <1>4 DEF Unlinks
<1>7. ASSUME request[v].kind = "dropCampaign", CommsGone(v), Writing(v) PROVE CommsGone(v)'
  <2> SUFFICES ASSUME NEW k \in Audience, Comm(<<request[v].id, k>>) \in DOMAIN db'
               PROVE  Comm(<<request[v].id, k>>) \in tx[v].gone
    BY <1>1 DEF CommsGone
  <2>1. ASSUME Comm(<<request[v].id, k>>) \in DOMAIN W PROVE FALSE
    <3>1. MakesCampaign(w) /\ request[v].id = ids[w].campaign
      BY <1>2, <2>1 DEF Brings
    <3>2. Found(v)
      <4>1. StageOK(v)
        BY DEF IInv
      <4> QED
        BY <1>7, <4>1 DEF StageOK, Writing, Found
    <3> QED
      BY <3>1, <3>2 DEF IInv, FreshOK
  <2>2. Comm(<<request[v].id, k>>) \in DOMAIN db
    BY <1>1, <2>1
  <2> QED
    BY <1>7, <2>2 DEF CommsGone
<1>8. \A r \in DOMAIN db' \ tx[v].gone :
          (\A s \in DOMAIN db \ tx[v].gone : db[s] \notin tx[v].gone) => db'[r] \notin tx[v].gone
  BY <1>1, <1>4
<1>9. DeletingOK(v)'
  <2>1. request[v].kind = "dropSegment" /\ stage[v] = "delete" =>
            tx[v].gone = {} /\ Unlinks(v, CampaignRows)'
    BY <1>3, <1>6 DEF DeletingOK
  <2>2. request[v].kind = "dropCampaign" /\ Writing(v) =>
            /\ Unlinks(v, OrderRows)'
            /\ stage[v] # "delete" => DOMAIN tx[v].new = {}
            /\ tx[v].gone \subseteq UNION {{Comm(<<request[v].id, k>>), Event(<<request[v].id, k>>)} :
                                              k \in Audience}
            /\ \A r \in DOMAIN db' \ tx[v].gone : db'[r] \notin tx[v].gone
            /\ stage[v] # "comms" => CommsGone(v)'
    BY <1>3, <1>6, <1>7, <1>8 DEF DeletingOK
  <2>3. Writing(v)' <=> Writing(v)
    BY <1>1 DEF Writing
  <2> QED
    BY <1>1, <2>1, <2>2, <2>3 DEF DeletingOK
<1>10. ReceivingOK(v)'
  <2>1. \A m : Order(m) \notin D
    BY <1>2 DEF Takes
  <2> QED
    BY <1>1, <1>3, <2>1 DEF ReceivingOK
<1>11. tx[v].held \subseteq DOMAIN db' \cup DOMAIN tx[v].new
  BY <1>1, <1>3, <1>4
<1>12. Writing(v)' <=> Writing(v)
  BY <1>1 DEF Writing
<1> QED
  BY <1>1, <1>3, <1>5, <1>9, <1>10, <1>11, <1>12 DEF TxOK

\* And those that no other may make fail rely on nothing that this one changed.
LEMMA CommitKeepsUnraced ==
    ASSUME IInv, NEW w \in Workers, w \in Busy, NEW W, NEW D, Commits(w, W, D), CommitOK(w, W, D),
           NEW v \in Workers, v # w
    PROVE  UnracedOK(v)'
<1>1. /\ DOMAIN db' = (DOMAIN W \cup DOMAIN db) \ D
      /\ \A r \in DOMAIN db' : db'[r] = IF r \in DOMAIN W THEN W[r] ELSE db[r]
      /\ Others(w)
  BY AnswerEffect DEF Commits, IInv
<1>2. /\ tx'[v] = tx[v] /\ request'[v] = request[v] /\ stage'[v] = stage[v]
      /\ target'[v] = target[v] /\ ids'[v] = ids[v] /\ raced'[v] = raced[v]
      /\ v \in Busy' <=> v \in Busy
  BY <1>1, OthersBusy DEF Others
<1>3. RefersWell(w, W, D) /\ LetsBe(w, W, D) /\ Brings(w, W) /\ Takes(w, D)
  BY DEF CommitOK
<1> SUFFICES ASSUME v \in Busy, ~raced[v] PROVE UnracedOK(v)'
  BY <1>2 DEF UnracedOK
<1> DEFINE r == request[v]
           s == request[w]
<1>4. UnracedOK(v) /\ StageOK(v) /\ r \in RequestOf \cup {NoRequest}
  BY DEF IInv, TypeOK
<1>5. /\ r.kind = "winback" =>
             s.kind # "dropSegment" /\ ~(s.kind = "winback" /\ s.id = r.id)
      /\ r.kind = "campaign" => ~(s.kind = "dropSegment" /\ s.id = r.id)
      /\ r.kind = "dropSegment" =>
             s.kind # "winback" /\ ~(s.kind = "campaign" /\ s.id = r.id)
      /\ r.kind = "dropCampaign" => ~(s.kind = "receipt" /\ s.id[1] = r.id)
      /\ r.kind = "receipt" => ~(s.kind = "dropCampaign" /\ s.id = r.id[1])
  BY NoRace
<1> HIDE DEF r, s
<1>6. ASSUME stage[v] = "segment", NEW x \in DOMAIN db' PROVE db'[x] # r.id
  <2>1. r.kind = "winback" /\ r.id \in Tenants \X Hashes
    BY <1>4, <1>6 DEF StageOK, RequestOf, NoRequest, r
  <2>2. x \notin DOMAIN W => db[x] # r.id
    BY <1>1, <1>4, <1>6 DEF UnracedOK, r
  <2>3. x \in DOMAIN W => W[x] # r.id
    BY <1>3, <1>5, <2>1 DEF Brings, s
  <2> QED
    BY <1>1, <2>2, <2>3
<1>7. ASSUME stage[v] = "campaign" PROVE target[v] \in DOMAIN db' \cup DOMAIN tx[v].new
  <2>1. target[v] \in DOMAIN db \cup DOMAIN tx[v].new
    BY <1>4, <1>7 DEF UnracedOK
  <2>2. target[v] \in Segments /\ (r.kind = "campaign" => target[v] = Segment(r.id))
    BY <1>7 DEF IInv, TxOK, CreatingOK, r
  <2>3. r.kind \in {"winback", "campaign"}
    BY <1>4, <1>7 DEF StageOK, NoRequest, r
  <2>4. target[v] \notin D
    <3>1. PICK n : target[v] = Segment(n)
      BY <2>2 DEF Segments
    <3>2. Segment(n) \in D => s.kind = "dropSegment" /\ n = s.id
      BY <1>3 DEF Takes, s
    <3>3. r.kind = "campaign" => n = r.id
      BY <2>2, <3>1, RowsDiffer
    <3> QED
      BY <1>5, <2>3, <3>1, <3>2, <3>3
  <2> QED
    BY <1>1, <2>1, <2>4
<1>8. ASSUME r.kind = "dropSegment", stage[v] = "delete", NEW x \in DOMAIN db' \ DOMAIN tx[v].new
      PROVE  db'[x] # Segment(r.id)
  <2>1. x \notin DOMAIN W => db[x] # Segment(r.id)
    BY <1>1, <1>4, <1>8 DEF UnracedOK, r
  <2>2. x \in DOMAIN W => W[x] # Segment(r.id)
    BY <1>3, <1>5, <1>8 DEF Brings, s
  <2> QED
    BY <1>1, <2>1, <2>2
<1>9. ASSUME stage[v] = "comms", NEW k \in Audience, Event(<<r.id, k>>) \in DOMAIN db'
      PROVE  Event(<<r.id, k>>) \in tx[v].gone
  <2>1. r.kind = "dropCampaign"
    BY <1>4, <1>9 DEF StageOK, r
  <2>2. Event(<<r.id, k>>) \notin DOMAIN W
    BY <1>3, <1>5, <2>1 DEF Brings, s
  <2>3. Event(<<r.id, k>>) \in DOMAIN db
    BY <1>1, <1>9, <2>2
  <2> QED
    BY <1>4, <1>9, <2>3 DEF UnracedOK, r
<1>10. ASSUME r.kind = "dropCampaign", stage[v] = "delete", NEW m \in Comms,
              Order(m) \in DOMAIN db' \ DOMAIN tx[v].new
       PROVE  db'[Order(m)] # Campaign(r.id)
  <2>1. CASE Order(m) \in DOMAIN W
    <3>1. W[Order(m)] # Null => s.kind = "receipt" /\ m = s.id
      BY <1>3, <2>1 DEF Brings, s
    <3>2. W[Order(m)] \in {Campaign(m[1]), Null}
      BY <1>3, <2>1, Reference DEF RefersWell
    <3> QED
      BY <1>1, <1>5, <1>10, <2>1, <3>1, <3>2, RowsDiffer, NullIsNoRow
  <2>2. CASE Order(m) \notin DOMAIN W
    BY <1>1, <1>4, <1>10, <2>2 DEF UnracedOK, r
  <2> QED
    BY <2>1, <2>2
<1>11. ASSUME stage[v] = "event" PROVE Comm(r.id) \in DOMAIN db'
  <2>1. r.kind = "receipt"
    BY <1>4, <1>11 DEF StageOK, r
  <2>2. Comm(r.id) \in DOMAIN db
    BY <1>4, <1>11 DEF UnracedOK, r
  <2>3. Comm(r.id) \notin D
    BY <1>3, <1>5, <2>1 DEF Takes, s
  <2> QED
    BY <1>1, <2>2, <2>3
<1> QED
  BY <1>2, <1>6, <1>7, <1>8, <1>9, <1>10, <1>11 DEF UnracedOK, r

\* The communications of a campaign that was found only get fewer.
LEMMA CommitKeepsRead ==
    ASSUME IInv, NEW w \in Workers, NEW W, NEW D, Commits(w, W, D), CommitOK(w, W, D),
           NEW v \in Workers, v # w
    PROVE  ReadOK(v)'
<1>1. /\ DOMAIN db' = (DOMAIN W \cup DOMAIN db) \ D
      /\ request'[v] = request[v] /\ stage'[v] = stage[v] /\ target'[v] = target[v]
  BY AnswerEffect DEF Commits, IInv, Others
<1>2. ReadOK(v) /\ StageOK(v) /\ Shaped(db) /\ Shaped(db')
  BY CommitKeepsRows DEF IInv, TypeOK
<1>3. CASE stage[v] = "revenue"
  <2> DEFINE c == request[v].id
             old == CommsIn(db, c)
             new == CommsIn(db', c)
  <2>1. Found(v)
    BY <1>2, <1>3 DEF StageOK, Found
  <2>2. \A m : Comm(m) \in DOMAIN W => m[1] # c
    BY <2>1 DEF IInv, FreshOK, CommitOK, Brings
  <2>3. /\ old = {Comm(m) : m \in {x \in Comms : x[1] = c /\ Comm(x) \in DOMAIN db}}
        /\ new = {Comm(m) : m \in {x \in Comms : x[1] = c /\ Comm(x) \in DOMAIN db'}}
    BY <1>2, CommsInForm
  <2>4. new \subseteq old
    BY <1>1, <2>2, <2>3
  <2>5. IsFiniteSet(old) /\ Cardinality(old) \in Nat /\ Cardinality(new) \in Nat
    BY <1>2, CommsInFinite
  <2>6. CommsOf(db, v) = old /\ CommsOf(db, v)' = new
    BY <1>1 DEF CommsOf, CommsIn
  <2>7. target[v] \in Seq(Nat) /\ Len(target[v]) = 1 /\ Cardinality(CommsOf(db, v)) <= target[v][1]
    BY <1>2, <1>3 DEF ReadOK
  <2> HIDE DEF old, new
  <2>8. Cardinality(new) <= Cardinality(old)
    BY <2>4, <2>5, FS_Subset
  <2>9. target[v][1] \in Nat
    BY <2>7
  <2>10. Cardinality(new) <= target[v][1]
    BY <2>5, <2>6, <2>7, <2>8, <2>9
  <2> QED
    BY <1>1, <1>3, <2>6, <2>7, <2>10 DEF ReadOK
<1>4. CASE stage[v] # "revenue"
  BY <1>1, <1>2, <1>4 DEF ReadOK
<1> QED
  BY <1>3, <1>4

\* A commit that fits leaves everything in order.
LEMMA CommitLeaves ==
    ASSUME IInv, NEW w \in Workers, w \in Busy, NEW W, NEW D, Commits(w, W, D), CommitOK(w, W, D)
    PROVE  IInv'
<1>1. /\ TxTyped' /\ WorkTyped' /\ Others(w)
      /\ tx'[w] = NoTx /\ stage'[w] = "idle" /\ request'[w] = NoRequest
      /\ w \notin Busy' /\ made' = made
  BY AnswerEffect DEF Commits, IInv
<1>2. Shaped(db') /\ DbOK' /\ AcceptedUntilDeleted'
  BY CommitKeepsRows
<1>3. accepted' \subseteq Comms /\ deleted' \subseteq 1..MaxCampaigns
  <2>1. request[w].kind = "dropCampaign" => request[w].id \in 1..MaxCampaigns
    BY DEF IInv, TypeOK, RequestOf, NoRequest
  <2>2. request[w].kind = "receipt" => request[w].id \in Comms
    BY DEF IInv, TypeOK, RequestOf, NoRequest
  <2> QED
    BY <2>1, <2>2 DEF CommitOK, Remembers, IInv, TypeOK
<1>4. TypeOK'
  BY <1>1, <1>2, <1>3 DEF TypeOK, TxTyped, WorkTyped
<1>5. ASSUME NEW v \in Workers PROVE StageOK(v)' /\ TxOK(v)' /\ UnracedOK(v)' /\ ReadOK(v)'
  <2>1. CASE v = w
    <3>1. TxOK(w)'
      BY <1>1 DEF TxOK, Writing, CreatingOK, DeletingOK, ReceivingOK, NoTx
    <3>2. StageOK(w)' /\ UnracedOK(w)' /\ ReadOK(w)'
      BY <1>1 DEF StageOK, UnracedOK, ReadOK, NoRequest
    <3> QED
      BY <2>1, <3>1, <3>2
  <2>2. CASE v # w
    <3>1. StageOK(v)'
      BY <1>1, <2>2 DEF IInv, Others, StageOK
    <3> QED
      BY <2>2, <3>1, CommitKeepsTx, CommitKeepsUnraced, CommitKeepsRead
  <2> QED
    BY <2>1, <2>2
<1>6. \A v \in Workers : FreshOK(v)'
  BY CommitKeepsFresh
<1>7. Exclusive'
  BY <1>1 DEF IInv, Exclusive, Others, NoTx
<1>8. RacesKnown'
  <2> SUFFICES ASSUME NEW u \in Busy', NEW v \in Busy', u # v,
                      request'[v] \in Races(request'[u])
               PROVE  raced'[u]
    BY DEF RacesKnown
  <2>1. u \in Workers /\ v \in Workers /\ u # w /\ v # w
    BY <1>1 DEF Busy
  <2>2. u \in Busy /\ v \in Busy
    BY <1>1, <2>1, OthersBusy
  <2> QED
    BY <1>1, <2>1, <2>2 DEF IInv, RacesKnown, Others
<1>9. FailsOnlyInARace' /\ RevenueHasCost'
  BY <1>1 DEF IInv, FailsOnlyInARace, RevenueHasCost, Others
<1> QED
  BY <1>2, <1>4, <1>5, <1>6, <1>7, <1>8, <1>9 DEF IInv

\* A segment without a tenant.
LEMMA CreateSegmentLeaves ==
    ASSUME IInv, NEW w \in Workers, CreateSegment(w)
    PROVE  IInv'
<1> DEFINE key == <<NoTenant, request[w].id>>
           segment == Segment(ids[w].segment)
           new == [r \in {segment} |-> key]
           W == Merge(new, tx[w].new)
<1>1. /\ stage[w] = "insert" /\ request[w].kind = "create" /\ w \in Busy
      /\ Commit(w, new, {}) /\ Answer(w) /\ accepted' = accepted /\ deleted' = deleted
  BY DEF CreateSegment, At, Busy, history
<1>2. tx[w] = NoTx /\ MakesSegment(w)
  BY <1>1, NothingWritten DEF Writing, MakesSegment
<1>3. key \in Keys /\ key \notin Tenants \X Hashes
  <2>1. request[w].id \in Hashes
    BY <1>1, SMTT(30) DEF IInv, TypeOK, RequestOf, NoRequest
  <2>2. NoTenant \notin Tenants
    BY CampaignsAssumption
  <2> QED
    BY <2>1, <2>2 DEF Keys
<1>4. segment \in Segments
  <2>1. ids[w].segment \in 1..made.segment /\ made \in Numbers
    BY <1>2 DEF IInv, FreshOK, TypeOK
  <2>2. ids[w].segment \in 1..MaxSegments
    BY <2>1, CampaignsAssumption DEF Numbers
  <2> QED
    BY <2>2 DEF Segments
<1>5. DOMAIN W = {segment} /\ W[segment] = key
  BY <1>2, NothingNew DEF Merge
<1>6. Commits(w, W, {})
  <2>1. DOMAIN new \cap tx[w].gone = {} /\ {} = tx[w].gone \cup {}
    BY <1>2 DEF NoTx
  <2> QED
    BY <1>1, <2>1, CommitIs
<1> HIDE DEF new, W, key
<1>7. key \notin Rows /\ key # Null /\ \A a : key # Segment(a) /\ key # Comm(a) /\ key # Event(a)
  BY <1>3, KeyIsNoRow
<1>8. RefersWell(w, W, {})
  <2>1. segment[1] = "segments" /\ segment \in Rows
    BY <1>4, TableOf DEF Rows
  <2>2. Shaped(W)
    BY <1>3, <1>5, <2>1 DEF Shaped, Refers
  <2> QED
    BY <1>5, <1>7, <2>2 DEF RefersWell
<1>9. LetsBe(w, W, {})
  BY <1>5, <1>7, DeletedRows DEF LetsBe
<1>10. Brings(w, W)
  BY <1>2, <1>3, <1>5, <1>7, RowsDiffer DEF Brings
<1>11. Takes(w, {}) /\ Remembers(w, W, {})
  BY <1>1 DEF Takes, Remembers
<1> QED
  BY <1>1, <1>6, <1>8, <1>9, <1>10, <1>11, CommitLeaves DEF CommitOK

\* A campaign, its communications, and the segment of a win-back.
LEMMA InsertAudienceLeaves ==
    ASSUME IInv, NEW w \in Workers, InsertAudience(w)
    PROVE  IInv'
<1>1. PICK A \in SUBSET Audience :
          Commit(w, [r \in {Comm(<<ids[w].campaign, k>>) : k \in A} |-> Campaign(ids[w].campaign)], {})
  BY DEF InsertAudience
<1> DEFINE c == ids[w].campaign
           segment == Segment(ids[w].segment)
           comms == {Comm(<<ids[w].campaign, k>>) : k \in A}
           new == [r \in comms |-> Campaign(c)]
           W == Merge(new, tx[w].new)
<1>2. /\ stage[w] = "audience" /\ w \in Busy /\ Answer(w)
      /\ accepted' = accepted /\ deleted' = deleted
  BY DEF InsertAudience, Busy, history
<1>3. request[w].kind \in {"winback", "campaign"} /\ MakesCampaign(w)
  BY <1>2 DEF IInv, StageOK, NoRequest, MakesCampaign
<1>4. /\ tx[w].gone = {} /\ tx[w].held = {target[w]} /\ target[w] \in Segments
      /\ request[w].kind = "campaign" => target[w] = Segment(request[w].id)
      /\ DOMAIN tx[w].new \subseteq {segment, Campaign(c)} /\ Campaign(c) \in DOMAIN tx[w].new
      /\ tx[w].new[Campaign(c)] = target[w]
      /\ segment \in DOMAIN tx[w].new =>
             request[w].kind = "winback" /\ tx[w].new[segment] = request[w].id
      /\ target[w] \in DOMAIN db \cup DOMAIN tx[w].new
  BY <1>2 DEF IInv, TxOK, CreatingOK
<1>5. c \in 1..MaxCampaigns
  <2>1. ids[w].campaign \in 1..made.campaign /\ made \in Numbers
    BY <1>3 DEF IInv, FreshOK, TypeOK
  <2> QED
    BY <2>1, CampaignsAssumption DEF Numbers
<1>6. /\ \A r \in comms : \E m \in Comms : r = Comm(m) /\ m[1] = c
      /\ \A m : Comm(m) \in comms => m[1] = c
      /\ Campaign(c) \notin comms /\ segment \notin comms
  <2>1. ASSUME NEW k \in A PROVE <<c, k>> \in Comms /\ <<c, k>>[1] = c
    BY <1>5, CommIds
  <2>2. \A r \in comms : \E m \in Comms : r = Comm(m) /\ m[1] = c
    <3> SUFFICES ASSUME NEW k \in A
                 PROVE  \E m \in Comms : Comm(<<c, k>>) = Comm(m) /\ m[1] = c
      OBVIOUS
    <3> QED
      BY <2>1
  <2> HIDE DEF comms, c
  <2>3. \A m : Comm(m) \in comms => m[1] = c
    BY <2>2, RowsDiffer
  <2> QED
    BY <2>2, <2>3, RowsDiffer
<1>7. /\ DOMAIN W = comms \cup DOMAIN tx[w].new
      /\ \A r \in comms : W[r] = Campaign(c)
      /\ \A r \in DOMAIN tx[w].new \ comms : W[r] = tx[w].new[r]
  BY DEF Merge
<1>8. Commits(w, W, {})
  <2>1. DOMAIN new \cap tx[w].gone = {} /\ {} = tx[w].gone \cup {}
    BY <1>4
  <2> QED
    BY <1>1, <1>2, <2>1, CommitIs
<1> HIDE DEF comms, new, W, segment, c
<1>9. Shaped(W)
  <2> SUFFICES ASSUME NEW r \in DOMAIN W PROVE r \in Rows /\ W[r] \in Refers(r)
    BY DEF Shaped
  <2>1. CASE r \in comms
    <3> PICK m \in Comms : r = Comm(m) /\ m[1] = c
      BY <1>6, <2>1
    <3>1. r[1] = "communications" /\ r[2] = m /\ r \in Rows
      BY TableOf DEF Rows
    <3> QED
      BY <1>7, <2>1, <3>1 DEF Refers
  <2>2. CASE r \in DOMAIN tx[w].new \ comms
    <3>1. Shaped(tx[w].new)
      BY DEF IInv, TypeOK
    <3> QED
      BY <1>7, <2>2, <3>1 DEF Shaped
  <2> QED
    BY <1>7, <2>1, <2>2
<1>10. \A r \in DOMAIN W :
           \/ r \in comms /\ W[r] = Campaign(c)
           \/ r = Campaign(c) /\ W[r] = target[w]
           \/ r = segment /\ W[r] = request[w].id /\ request[w].kind = "winback"
  BY <1>4, <1>6, <1>7
<1>11. request[w].kind = "winback" =>
           /\ MakesSegment(w) /\ request[w].id \in Keys
           /\ request[w].id \notin Rows /\ request[w].id # Null
           /\ \A a : request[w].id # Segment(a) /\ request[w].id # Comm(a) /\ request[w].id # Event(a)
  <2> SUFFICES ASSUME request[w].kind = "winback"
               PROVE  MakesSegment(w) /\ request[w].id \in Keys
    BY KeyIsNoRow
  <2> QED
    BY <1>2 DEF IInv, TypeOK, RequestOf, NoRequest, Keys, MakesSegment
<1>12. RefersWell(w, W, {})
  <2>1. \A r \in DOMAIN W : W[r] \in Rows => W[r] \in DOMAIN W \cup DOMAIN db
    BY <1>4, <1>7, <1>10, <1>11
  <2> QED
    BY <1>9, <2>1 DEF RefersWell
<1>13. LetsBe(w, W, {})
  <2> SUFFICES ASSUME NEW v \in Workers, v # w, NEW r \in DOMAIN W, W[r] \in tx[v].gone
               PROVE  FALSE
    BY DEF LetsBe
  <2>1. PICK m \in Comms : W[r] \in {Comm(m), Event(m)}
    BY DeletedRows
  <2> QED
    BY <1>4, <1>10, <1>11, <2>1, RowsDiffer DEF Segments
<1>14. Brings(w, W)
  <2>1. \A n : Segment(n) \in DOMAIN W => MakesSegment(w) /\ n = ids[w].segment
    BY <1>6, <1>10, <1>11, RowsDiffer DEF segment
  <2>2. \A d : Campaign(d) \in DOMAIN W =>
                   Campaign(d) \in DOMAIN db \/ (MakesCampaign(w) /\ d = ids[w].campaign)
    BY <1>3, <1>6, <1>10, RowsDiffer DEF segment, c
  <2>3. \A m : Comm(m) \in DOMAIN W => MakesCampaign(w) /\ m[1] = ids[w].campaign
    BY <1>3, <1>6, <1>10, RowsDiffer DEF segment, c
  <2>4. \A m : Event(m) \notin DOMAIN W /\ Order(m) \notin DOMAIN W
    BY <1>6, <1>10, RowsDiffer DEF segment
  <2>5. \A r \in DOMAIN W : \A n : W[r] = Segment(n) =>
            request[w].kind = "winback" \/ (request[w].kind = "campaign" /\ request[w].id = n)
    <3>1. ASSUME NEW r \in DOMAIN W, NEW n, W[r] = Segment(n), request[w].kind # "winback"
          PROVE  request[w].kind = "campaign" /\ request[w].id = n
      <4>1. W[r] = Campaign(c) \/ W[r] = target[w]
        BY <1>10, <3>1
      <4>2. request[w].kind = "campaign" /\ target[w] = Segment(request[w].id)
        BY <1>3, <1>4, <3>1
      <4> QED
        BY <3>1, <4>1, <4>2, RowsDiffer
    <3> QED
      BY <3>1
  <2>6. \A r \in DOMAIN W : W[r] \in Tenants \X Hashes =>
            request[w].kind = "winback" /\ request[w].id = W[r]
    <3>1. \A key \in Tenants \X Hashes : key # Campaign(c) /\ key \notin Segments
      BY KeyIsNoRow DEF Keys, Segments
    <3> QED
      BY <1>4, <1>10, <3>1
  <2> QED
    BY <2>1, <2>2, <2>3, <2>4, <2>5, <2>6 DEF Brings
<1>15. Takes(w, {}) /\ Remembers(w, W, {})
  BY <1>2 DEF Takes, Remembers
<1> QED
  BY <1>2, <1>8, <1>12, <1>13, <1>14, <1>15, CommitLeaves DEF CommitOK

\* Only a campaign that was added in a race refers to the segment still.
LEMMA DeleteSegmentLeaves ==
    ASSUME IInv, NEW w \in Workers, DeleteSegment(w)
    PROVE  IInv'
<1> DEFINE row == Segment(request[w].id)
           W == Merge(NoTx.new, tx[w].new)
           D == {row}
<1>1. /\ stage[w] = "delete" /\ request[w].kind = "dropSegment" /\ w \in Busy
      /\ CanDelete(w, D) /\ row[1] = "segments"
  BY TableOf DEF DeleteSegment, Drop, At, Busy
<1>2. /\ tx[w].gone = {} /\ tx[w].held = {} /\ DOMAIN tx[w].new \subseteq CampaignRows \cap DOMAIN db
      /\ \A r \in DOMAIN tx[w].new : tx[w].new[r] = Null
  BY <1>1 DEF IInv, TxOK, DeletingOK, Unlinks
<1>3. CASE Referring(w, D) # {} /\ Fail(w)
  <2>1. PICK r : \/ r \in DOMAIN tx[w].new /\ tx[w].new[r] = row
                 \/ r \in DOMAIN db \ DOMAIN tx[w].new /\ db[r] = row
    BY <1>3, Seen
  <2>2. r \in DOMAIN db \ DOMAIN tx[w].new /\ db[r] = row
    BY <1>2, <2>1, NullIsNoRow
  <2>3. raced[w]
    BY <1>1, <2>2 DEF IInv, UnracedOK, TypeOK
  <2> QED
    BY <1>1, <1>3, <2>3, FailLeaves
<1>4. CASE /\ Referring(w, D) = {} /\ Commit(w, NoTx.new, D) /\ Answer(w)
           /\ deleted' = deleted /\ accepted' = accepted
  <2>1. DOMAIN W = DOMAIN tx[w].new /\ \A r \in DOMAIN W : W[r] = Null
    BY <1>2, NothingNew DEF Merge
  <2>2. Commits(w, W, D)
    <3>1. DOMAIN NoTx.new \cap tx[w].gone = {} /\ D = tx[w].gone \cup D
      BY <1>2
    <3> QED
      BY <1>4, <3>1, CommitIs
  <2>3. \A r \in DOMAIN db \ DOMAIN W : db[r] # row
    BY <1>2, <1>4, <2>1, Seen
  <2> HIDE DEF W
  <2>4. DOMAIN W \subseteq CampaignRows /\ DOMAIN W \subseteq DOMAIN db
    BY <1>2, <2>1
  <2>5. RefersWell(w, W, D)
    <3>1. Shaped(W)
      <4>1. \A r \in CampaignRows : r[1] = "campaigns" /\ r \in Rows
        BY TableOf DEF CampaignRows, Rows
      <4> QED
        BY <2>1, <2>4, <4>1 DEF Shaped, Refers
    <3> QED
      BY <2>1, <2>3, <3>1, NullIsNoRow DEF RefersWell
  <2>6. LetsBe(w, W, D)
    <3>1. \A v \in Workers \ {w} : D \cap (DOMAIN tx[v].new \cup tx[v].held) = {}
      BY <1>1 DEF CanDelete, CanWrite
    <3>2. \A v \in Workers : Null \notin tx[v].gone
      BY DeletedRows, NullIsNoRow
    <3> QED
      BY <2>1, <3>1, <3>2 DEF LetsBe
  <2>7. Brings(w, W)
    <3>1. \A key \in Tenants \X Hashes : key # Null
      BY KeyIsNoRow DEF Keys
    <3>2. \A m : Segment(m) \notin CampaignRows /\ Comm(m) \notin CampaignRows
                 /\ Event(m) \notin CampaignRows
      BY RowsDiffer DEF CampaignRows
    <3> QED
      BY <2>1, <2>4, <3>1, <3>2, NullIsNoRow DEF Brings
  <2>8. Takes(w, D)
    BY <1>1, RowsDiffer DEF Takes
  <2>9. Remembers(w, W, D)
    BY <1>4 DEF Remembers
  <2> QED
    BY <1>1, <2>2, <2>5, <2>6, <2>7, <2>8, <2>9, CommitLeaves DEF CommitOK
<1> QED
  BY <1>1, <1>3, <1>4 DEF DeleteSegment, Drop

\* Only an order that was added in a race refers to the campaign still.
LEMMA DeleteCampaignLeaves ==
    ASSUME IInv, NEW w \in Workers, DeleteCampaign(w)
    PROVE  IInv'
<1> DEFINE c == request[w].id
           row == Campaign(c)
           W == Merge(NoTx.new, tx[w].new)
           D == tx[w].gone \cup {row}
<1>1. /\ stage[w] = "delete" /\ request[w].kind = "dropCampaign" /\ w \in Busy
      /\ CanDelete(w, {row}) /\ row[1] = "campaigns" /\ row[2] = c
  BY TableOf DEF DeleteCampaign, Drop, At, Busy
<1>2. /\ tx[w].held = {} /\ DOMAIN tx[w].new \subseteq OrderRows \cap DOMAIN db
      /\ \A r \in DOMAIN tx[w].new : tx[w].new[r] = Null
      /\ \A r \in DOMAIN db \ tx[w].gone : db[r] \notin tx[w].gone
      /\ CommsGone(w)
  BY <1>1 DEF IInv, TxOK, DeletingOK, Unlinks, Writing
<1>3. \A r \in tx[w].gone : \E m \in Comms : m[1] = c /\ r \in {Comm(m), Event(m)}
  BY DeletedRows
<1>4. CASE Referring(w, {row}) # {} /\ Fail(w)
  <2>1. PICK r : \/ r \in DOMAIN tx[w].new /\ tx[w].new[r] = row
                 \/ r \in DOMAIN db \ (DOMAIN tx[w].new \cup tx[w].gone) /\ db[r] = row
    BY <1>4, Seen
  <2>2. r \in DOMAIN db \ (DOMAIN tx[w].new \cup tx[w].gone) /\ db[r] = Campaign(c)
    BY <1>2, <2>1, NullIsNoRow
  <2>3. PICK m \in Comms : m[1] = c /\ (r = Comm(m) \/ r = Order(m))
    BY <2>2, ReferredBy DEF IInv, TypeOK
  <2>4. r # Comm(m)
    <3>1. m = <<c, m[2]>> /\ m[2] \in Audience
      BY <2>3, CommIds
    <3> QED
      BY <1>2, <2>2, <3>1 DEF CommsGone
  <2>5. raced[w]
    <3>1. Order(m) \in DOMAIN db \ DOMAIN tx[w].new /\ db[Order(m)] = Campaign(c)
      BY <2>2, <2>3, <2>4
    <3>2. UnracedOK(w) /\ raced \in [Workers -> BOOLEAN]
      BY DEF IInv, TypeOK
    <3> QED
      BY <1>1, <2>3, <3>1, <3>2 DEF UnracedOK
  <2> QED
    BY <1>1, <1>4, <2>5, FailLeaves
<1>5. CASE /\ Referring(w, {row}) = {} /\ Commit(w, NoTx.new, {row}) /\ Answer(w)
           /\ deleted' = deleted \cup {c} /\ accepted' = accepted
  <2>1. DOMAIN W = DOMAIN tx[w].new /\ \A r \in DOMAIN W : W[r] = Null
    BY <1>2, NothingNew DEF Merge
  <2>2. Commits(w, W, D)
    <3>1. DOMAIN NoTx.new \cap tx[w].gone = {}
      BY NothingNew
    <3> QED
      BY <1>5, <3>1, CommitIs
  <2>3. \A r \in DOMAIN db \ (DOMAIN W \cup tx[w].gone) : db[r] # row
    BY <1>5, <2>1, Seen
  <2> HIDE DEF W
  <2>4. DOMAIN W \subseteq OrderRows /\ DOMAIN W \subseteq DOMAIN db
    BY <1>2, <2>1
  <2>5. Null \notin D
    BY <1>3, NullIsNoRow
  <2>6. RefersWell(w, W, D)
    <3>1. Shaped(W)
      <4>1. \A r \in OrderRows : r[1] = "orders" /\ r \in Rows
        BY TableOf DEF OrderRows, Rows
      <4> QED
        BY <2>1, <2>4, <4>1 DEF Shaped, Refers
    <3>2. \A r \in DOMAIN db \ (DOMAIN W \cup D) : db[r] \notin D
      BY <1>2, <2>3
    <3> QED
      BY <2>1, <2>5, <3>1, <3>2, NullIsNoRow DEF RefersWell
  <2>7. LetsBe(w, W, D)
    <3>1. \A v \in Workers \ {w} : {row} \cap (DOMAIN tx[v].new \cup tx[v].held) = {}
      BY <1>1 DEF CanDelete, CanWrite
    <3>2. \A v \in Workers \ {w} : tx[w].gone \cap (DOMAIN tx[v].new \cup tx[v].held) = {}
      BY DEF IInv, Exclusive
    <3>3. \A v \in Workers : Null \notin tx[v].gone
      BY DeletedRows, NullIsNoRow
    <3> QED
      BY <2>1, <3>1, <3>2, <3>3 DEF LetsBe
  <2>8. Brings(w, W)
    <3>1. \A key \in Tenants \X Hashes : key # Null
      BY KeyIsNoRow DEF Keys
    <3>2. \A m : Segment(m) \notin OrderRows /\ Comm(m) \notin OrderRows
                 /\ Event(m) \notin OrderRows /\ Campaign(m) \notin OrderRows
      BY RowsDiffer DEF OrderRows
    <3> QED
      BY <2>1, <2>4, <3>1, <3>2, NullIsNoRow DEF Brings
  <2>9. Takes(w, D)
    <3>1. Found(w)
      BY <1>1 DEF Found
    <3>2. \A m : Comm(m) \in D \/ Event(m) \in D => m[1] = c
      BY <1>3, RowsDiffer
    <3>3. \A n : Segment(n) \notin D /\ Order(n) \notin D
      BY <1>3, RowsDiffer
    <3>4. \A d : Campaign(d) \in D => d = c
      BY <1>3, RowsDiffer
    <3> QED
      BY <1>1, <1>5, <3>1, <3>2, <3>3, <3>4 DEF Takes
  <2>10. Remembers(w, W, D)
    BY <1>1, <1>5 DEF Remembers
  <2> QED
    BY <1>1, <2>2, <2>6, <2>7, <2>8, <2>9, <2>10, CommitLeaves DEF CommitOK
<1> QED
  BY <1>1, <1>4, <1>5 DEF DeleteCampaign, Drop

\* An event and its order.
LEMMA CommitReceiptLeaves ==
    ASSUME IInv, NEW w \in Workers, CommitReceipt(w)
    PROVE  IInv'
<1> DEFINE m == request[w].id
           W == Merge(NoTx.new, tx[w].new)
<1>1. /\ stage[w] = "commit" /\ request[w].kind = "receipt" /\ w \in Busy
      /\ Commit(w, NoTx.new, {}) /\ Answer(w)
      /\ accepted' = accepted \cup {m} /\ deleted' = deleted
  BY DEF CommitReceipt, At, Busy
<1>2. /\ tx[w].gone = {} /\ tx[w].held = {Comm(m), Campaign(m[1])}
      /\ Event(m) \in DOMAIN tx[w].new /\ DOMAIN tx[w].new \subseteq {Event(m), Order(m)}
      /\ Order(m) \in DOMAIN db \cup DOMAIN tx[w].new
      /\ tx[w].held \subseteq DOMAIN db \cup DOMAIN tx[w].new
  BY <1>1 DEF IInv, TxOK, ReceivingOK
<1>3. m \in Comms
  BY <1>1 DEF IInv, TypeOK, RequestOf, NoRequest
<1>4. Comm(m) \in DOMAIN db /\ Campaign(m[1]) \in DOMAIN db
  BY <1>2, RowsDiffer
<1>5. W = [r \in DOMAIN tx[w].new |-> tx[w].new[r]] /\ DOMAIN W = DOMAIN tx[w].new
      /\ \A r \in DOMAIN W : W[r] = tx[w].new[r]
  BY NothingNew DEF Merge
<1>6. Commits(w, W, {})
  <2>1. DOMAIN NoTx.new \cap tx[w].gone = {} /\ {} = tx[w].gone \cup {}
    BY <1>2
  <2> QED
    BY <1>1, <2>1, CommitIs
<1> HIDE DEF W
<1>7. Shaped(W)
  <2>1. Shaped(tx[w].new)
    BY DEF IInv, TypeOK
  <2> QED
    BY <1>5, <2>1 DEF Shaped
<1>8. \A r \in DOMAIN W : \/ r = Event(m) /\ W[r] = Comm(m)
                          \/ r = Order(m) /\ W[r] \in {Campaign(m[1]), Null}
  BY <1>2, <1>5, <1>7, Reference
<1>9. RefersWell(w, W, {})
  BY <1>4, <1>7, <1>8, NullIsNoRow DEF RefersWell
<1>10. LetsBe(w, W, {})
  <2> SUFFICES ASSUME NEW v \in Workers, v # w, NEW r \in DOMAIN W, W[r] \in tx[v].gone
               PROVE  FALSE
    BY DEF LetsBe
  <2>1. Comm(m) \notin tx[v].gone
    BY <1>2 DEF IInv, Exclusive
  <2>2. Campaign(m[1]) \notin tx[v].gone /\ Null \notin tx[v].gone
    BY DeletedRows, RowsDiffer, NullIsNoRow
  <2> QED
    BY <1>8, <2>1, <2>2
<1>11. Brings(w, W)
  <2>1. \A key \in Tenants \X Hashes : \A a : key # Null /\ key # Comm(a) /\ key # Campaign(a)
    BY KeyIsNoRow DEF Keys
  <2> QED
    BY <1>1, <1>4, <1>8, <2>1, RowsDiffer, NullIsNoRow DEF Brings
<1>12. Takes(w, {})
  BY DEF Takes
<1>13. Remembers(w, W, {})
  BY <1>1, <1>2, <1>5 DEF Remembers
<1> QED
  BY <1>1, <1>6, <1>9, <1>10, <1>11, <1>12, <1>13, CommitLeaves DEF CommitOK

-----------------------------------------------------------------------------
(* The theorems. *)

\* There are no rows and no requests.
LEMMA InitInvariant == Init => IInv
<1> SUFFICES ASSUME Init PROVE IInv
  OBVIOUS
<1>1. /\ DOMAIN db = {} /\ tx = [w \in Workers |-> NoTx]
      /\ request = [w \in Workers |-> NoRequest] /\ stage = [w \in Workers |-> "idle"]
      /\ target = [w \in Workers |-> Null] /\ ids = [w \in Workers |-> NoIds]
      /\ made = NoIds /\ raced = [w \in Workers |-> FALSE] /\ accepted = {} /\ deleted = {}
  BY DEF Init
<1>2. \A w \in Workers : tx[w] = NoTx /\ stage[w] = "idle" /\ request[w] = NoRequest
  BY <1>1
<1>3. NoIds \in Numbers
  BY CampaignsAssumption DEF NoIds, Numbers
<1>4. TypeOK
  <2>1. Shaped(db)
    BY <1>1 DEF Shaped
  <2>2. tx = [w \in Workers |-> [new |-> tx[w].new, gone |-> tx[w].gone, held |-> tx[w].held]]
        /\ \A w \in Workers : Shaped(tx[w].new)
    BY <1>1, NothingNew DEF NoTx
  <2>3. WorkTyped
    BY <1>1, <1>3 DEF WorkTyped, NoRequest, Stages
  <2> QED
    BY <1>1, <2>1, <2>2, <2>3 DEF TypeOK, WorkTyped
<1>5. Busy = {}
  BY <1>2 DEF Busy
<1>6. ASSUME NEW w \in Workers
      PROVE  StageOK(w) /\ TxOK(w) /\ FreshOK(w) /\ UnracedOK(w) /\ ReadOK(w)
  <2>1. StageOK(w) /\ ReadOK(w)
    BY <1>2 DEF StageOK, ReadOK, NoRequest
  <2>2. TxOK(w)
    BY <1>2 DEF TxOK, Writing, CreatingOK, DeletingOK, ReceivingOK, NoTx
  <2>3. FreshOK(w) /\ UnracedOK(w)
    BY <1>2, <1>5 DEF FreshOK, UnracedOK, MakesSegment, MakesCampaign, Found
  <2> QED
    BY <2>1, <2>2, <2>3
<1>7. Exclusive
  BY <1>2 DEF Exclusive, NoTx
<1>8. DbOK
  BY <1>1 DEF DbOK, Closed
<1>9. RacesKnown
  BY <1>5 DEF RacesKnown
<1>10. FailsOnlyInARace /\ AcceptedUntilDeleted /\ RevenueHasCost
  BY <1>1, <1>2 DEF FailsOnlyInARace, AcceptedUntilDeleted, RevenueHasCost
<1> QED
  BY <1>4, <1>6, <1>7, <1>8, <1>9, <1>10 DEF IInv

\* One action, one lemma.
LEMMA NextInvariant == IInv /\ [Next]_vars => IInv'
<1> SUFFICES ASSUME IInv, [Next]_vars PROVE IInv'
  OBVIOUS
<1>1. ASSUME NEW w \in Workers, Step(w) PROVE IInv'
  <2>1. CASE FindDefinition(w) \/ CreateSegment(w)
    BY <2>1, FindDefinitionLeaves, CreateSegmentLeaves
  <2>2. CASE FindWinback(w) \/ AddWinback(w)
    BY <2>2, FindWinbackLeaves, AddWinbackLeaves
  <2>3. CASE GetSegment(w) \/ InsertCampaign(w) \/ InsertAudience(w)
    BY <2>3, GetSegmentLeaves, InsertCampaignLeaves, InsertAudienceLeaves
  <2>4. CASE GetDoomedSegment(w) \/ UnlinkCampaigns(w) \/ DeleteSegment(w)
    BY <2>4, GetDoomedSegmentLeaves, UnlinkCampaignsLeaves, DeleteSegmentLeaves
  <2>5. CASE GetDoomedCampaign(w) \/ SelectComms(w) \/ DeleteEvents(w) \/ DeleteComms(w)
    BY <2>5, GetDoomedCampaignLeaves, SelectCommsLeaves, DeleteEventsLeaves, DeleteCommsLeaves
  <2>6. CASE UnlinkOrders(w) \/ DeleteCampaign(w)
    BY <2>6, UnlinkOrdersLeaves, DeleteCampaignLeaves
  <2>7. CASE KnownComm(w) \/ InsertEvent(w) \/ InsertOrder(w) \/ CommitReceipt(w)
    BY <2>7, KnownCommLeaves, InsertEventLeaves, InsertOrderLeaves, CommitReceiptLeaves
  <2>8. CASE FindCampaign(w) \/ ReadContacts(w) \/ ReadRevenue(w)
    BY <2>8, FindCampaignLeaves, ReadContactsLeaves, ReadRevenueLeaves
  <2> QED
    BY <1>1, <2>1, <2>2, <2>3, <2>4, <2>5, <2>6, <2>7, <2>8 DEF Step
<1>2. ASSUME NEW w \in Workers, NEW r \in RequestOf, Begin(w, r) PROVE IInv'
  BY <1>2, BeginLeaves
<1>3. CASE UNCHANGED vars
  <2>1. /\ db' = db /\ tx' = tx /\ request' = request /\ stage' = stage /\ target' = target
        /\ ids' = ids /\ made' = made /\ raced' = raced /\ accepted' = accepted
        /\ deleted' = deleted
    BY <1>3 DEF vars, work, history
  <2>2. TypeOK' /\ Exclusive' /\ DbOK'
    BY <2>1 DEF IInv, TypeOK, Exclusive, DbOK
  <2>3. Busy' = Busy
    BY <2>1 DEF Busy
  <2>4. ASSUME NEW w \in Workers
        PROVE  StageOK(w)' /\ TxOK(w)' /\ FreshOK(w)' /\ UnracedOK(w)' /\ ReadOK(w)'
    <3>1. StageOK(w)' /\ UnracedOK(w)'
      BY <2>1, <2>3 DEF IInv, StageOK, UnracedOK
    <3>2. ReadOK(w)'
      <4>1. CommsOf(db, w)' = CommsOf(db, w)
        BY <2>1 DEF CommsOf
      <4> QED
        BY <2>1, <4>1 DEF IInv, ReadOK
    <3>3. TxOK(w)'
      <4>1. CommsGone(w)' <=> CommsGone(w)
        BY <2>1 DEF CommsGone
      <4>2. \A rows : Unlinks(w, rows)' <=> Unlinks(w, rows)
        BY <2>1 DEF Unlinks
      <4> QED
        BY <2>1, <4>1, <4>2 DEF IInv, TxOK, CreatingOK, DeletingOK, ReceivingOK, Writing
    <3>4. FreshOK(w)'
      BY <2>1, <2>3 DEF IInv, FreshOK, MakesSegment, MakesCampaign, Found
    <3> QED
      BY <3>1, <3>2, <3>3, <3>4
  <2>5. RacesKnown' /\ FailsOnlyInARace' /\ AcceptedUntilDeleted' /\ RevenueHasCost'
    BY <2>1, <2>3 DEF IInv, RacesKnown, FailsOnlyInARace, AcceptedUntilDeleted, RevenueHasCost
  <2> QED
    BY <2>2, <2>4, <2>5 DEF IInv
<1> QED
  BY <1>1, <1>2, <1>3 DEF Next

(* The inductive invariant: what each open transaction has written, deleted    *)
(* and locked still fits the committed rows when it commits, whatever the      *)
(* other requests did since (campaigns.py:123-145, segments.py:113-125,        *)
(* campaign_service.py:159-178, receipt_service.py:78-149).                    *)
THEOREM Invariant == Spec => []IInv
BY InitInvariant, NextInvariant, PTL DEF Spec

(* A request ends with a 500 only if it overlapped with one that may take from *)
(* under it what it needs (campaigns.py:123-145, segments.py:113-125).         *)
THEOREM FailuresNeedARace == Spec => []FailsOnlyInARace
<1>1. IInv => FailsOnlyInARace
  BY DEF IInv
<1> QED
  BY <1>1, Invariant, PTL

\* Without its row a campaign has no communication and no order either.
LEMMA NothingIsLeft == IInv => DeletedStaysDeleted
<1> SUFFICES ASSUME IInv, NEW c \in deleted
             PROVE  Campaign(c) \notin DOMAIN db /\ Refer(db, Campaign(c)) = {}
  BY DEF DeletedStaysDeleted
<1>1. Shaped(db) /\ Closed(db) /\ Campaign(c) \notin DOMAIN db
  BY DEF IInv, TypeOK, DbOK
<1>2. c \in 1..MaxCampaigns
  BY DEF IInv, TypeOK
<1>3. \A r \in DOMAIN db : db[r] # Campaign(c)
  <2>1. Campaign(c) \in Rows
    BY <1>2 DEF Rows, CampaignRows
  <2> QED
    BY <1>1, <2>1 DEF Closed
<1> QED
  BY <1>1, <1>3 DEF Refer

(* A campaign whose deletion was answered 204 is not there again, and no       *)
(* communication and no order refers to it (campaigns.py:137-145).             *)
THEOREM DeletedIsGone == Spec => []DeletedStaysDeleted
BY Invariant, NothingIsLeft, PTL

(* An accepted event is in the log until its campaign is deleted, and its      *)
(* order after that (receipt_service.py:149, campaigns.py:138-142).            *)
THEOREM AcceptedIsThere == Spec => []AcceptedUntilDeleted
<1>1. IInv => AcceptedUntilDeleted
  BY DEF IInv
<1> QED
  BY <1>1, Invariant, PTL

(* A profit and loss shows no revenue without the contact it came from, though *)
(* it reads the one and then the other (scores_service.py:144-153).            *)
THEOREM NoRevenueWithoutCost == Spec => []RevenueHasCost
<1>1. IInv => RevenueHasCost
  BY DEF IInv
<1> QED
  BY <1>1, Invariant, PTL
=============================================================================
