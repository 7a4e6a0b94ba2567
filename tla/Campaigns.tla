------------------------------ MODULE Campaigns ------------------------------
(***************************************************************************)
(* Segments and campaigns: how they are created (create_segment,           *)
(* create_campaign, create_winback_campaign), how they are deleted         *)
(* (delete_segment, delete_campaign), receipts that arrive meanwhile, and  *)
(* the profit and loss that is read from them (campaign_pnl).              *)
(* The tables are one function, from the rows there are to what each row   *)
(* refers to.  Every request is a READ COMMITTED transaction that sees     *)
(* what is committed and what it has written itself; an insert locks the   *)
(* row it refers to against deletion, and waits for it if it is being      *)
(* deleted.  A statement that takes several rows takes them together, and  *)
(* a receipt is of one event; hence two requests never wait for each other *)
(* here, which batches over several communications may do (see Receipts).  *)
(***************************************************************************)
EXTENDS Naturals, FiniteSets, Sequences

CONSTANTS
    Tenants, Hashes,   \* tenants, and the hashes of segment definitions
    Audience,          \* the customers a campaign may be for
    Workers,           \* requests handled at the same time
    MaxSegments,       \* bound: ids of segments handed out
    MaxCampaigns       \* bound: ids of campaigns handed out

VARIABLES
    db,          \* the committed rows
    tx,          \* what each request has written, deleted and locked
    request, stage,
    target,      \* the segment that a campaign is for; what a P&L has read so far
    ids,         \* the ids each request may use, and the number handed out
    made,
    raced,       \* history: whether one that may make it fail overlapped with it
    accepted,    \* history: the events answered "accepted"
    deleted      \* history: the campaigns whose deletion was answered 204

work    == <<request, stage, target, ids, made, raced>>
history == <<accepted, deleted>>
vars    == <<db, tx, work, history>>

-----------------------------------------------------------------------------
\* Rows. A segment "refers to" its tenant and definition; Null is no reference.
Null == <<>>
NoTenant == "none"
Segment(n)  == <<"segments", n>>
Campaign(n) == <<"campaigns", n>>
Comm(m)     == <<"communications", m>>     \* m = <<campaign, customer>>
Event(m)    == <<"communication_events", m>>
Order(m)    == <<"orders", m>>

Comms == (1..MaxCampaigns) \X Audience
Tables == {"segments", "campaigns", "communications", "communication_events", "orders"}

\* A tenant is a UUID, which no table is called and which is not the lack of one.
ASSUME CampaignsAssumption ==
    /\ MaxSegments \in Nat /\ MaxCampaigns \in Nat
    /\ IsFiniteSet(Audience)
    /\ Tenants \cap (Tables \cup {NoTenant}) = {}

RequestOf ==
    [kind : {"create"}, id : Hashes]
    \cup [kind : {"winback"}, id : Tenants \X Hashes]
    \cup [kind : {"campaign", "dropSegment"}, id : 1..MaxSegments]
    \cup [kind : {"dropCampaign", "pnl"}, id : 1..MaxCampaigns]
    \cup [kind : {"receipt"}, id : Comms]

NoRequest == [kind |-> "none", id |-> 0]
NoIds == [segment |-> 0, campaign |-> 0]
NoTx == [new |-> [r \in {} |-> Null], gone |-> {}, held |-> {}]

Init ==
    /\ db = [r \in {} |-> Null]
    /\ tx = [w \in Workers |-> NoTx]
    /\ request = [w \in Workers |-> NoRequest]
    /\ stage = [w \in Workers |-> "idle"]
    /\ target = [w \in Workers |-> Null]
    /\ ids = [w \in Workers |-> NoIds]
    /\ made = NoIds
    /\ raced = [w \in Workers |-> FALSE]
    /\ accepted = {}
    /\ deleted = {}

-----------------------------------------------------------------------------
\* Transactions.
Merge(f, g) == [r \in DOMAIN f \cup DOMAIN g |-> IF r \in DOMAIN f THEN f[r] ELSE g[r]]
Without(f, S) == [r \in DOMAIN f \ S |-> f[r]]

View(w) == Without(Merge(tx[w].new, db), tx[w].gone)
Referring(w, S) == {r \in DOMAIN View(w) : View(w)[r] \in S}

\* What w can update, delete and refer to without waiting for another request.
CanWrite(w, S)  == \A v \in Workers \ {w} : S \cap (DOMAIN tx[v].new \cup tx[v].gone) = {}
CanDelete(w, S) == CanWrite(w, S) /\ \A v \in Workers \ {w} : S \cap tx[v].held = {}
CanRefer(w, r)  == \A v \in Workers \ {w} : r \notin tx[v].gone

Goto(w, s) == stage' = [stage EXCEPT ![w] = s] /\ UNCHANGED <<request, target, ids, made, raced>>

At(w, kind, s) == stage[w] = s /\ request[w].kind = kind

\* One statement: rows written, rows deleted, a row locked; then the next stage.
Write(w, new, gone, held, s) ==
    /\ tx' = [tx EXCEPT ![w] = [new |-> Merge(new, @.new), gone |-> @.gone \cup gone,
                                held |-> @.held \cup held]]
    /\ Goto(w, s)
    /\ UNCHANGED <<db, history>>

\* The request is over; one that failed is remembered until the next.
Answer(w) ==
    /\ tx' = [tx EXCEPT ![w] = NoTx]
    /\ stage' = [stage EXCEPT ![w] = "idle"]
    /\ request' = [request EXCEPT ![w] = NoRequest]
    /\ target' = [target EXCEPT ![w] = Null]
    /\ ids' = [ids EXCEPT ![w] = NoIds]
    /\ raced' = [raced EXCEPT ![w] = FALSE]
    /\ UNCHANGED made

\* An answer without a commit, and an IntegrityError that nobody catches: 500.
Refuse(w) == Answer(w) /\ UNCHANGED <<db, history>>

Fail(w) ==
    /\ tx' = [tx EXCEPT ![w] = NoTx]
    /\ Goto(w, "failed")
    /\ UNCHANGED <<db, history>>

Commit(w, new, gone) == db' = Without(Merge(new, View(w)), gone)

-----------------------------------------------------------------------------
\* The requests that may make a request fail.
Races(r) ==
    CASE r.kind = "receipt"      -> [kind : {"dropCampaign"}, id : {r.id[1]}]
      [] r.kind = "dropCampaign" -> [kind : {"receipt"}, id : {r.id} \X Audience]
      [] r.kind = "campaign"     -> [kind : {"dropSegment"}, id : {r.id}]
      [] r.kind = "winback"      -> {r} \cup [kind : {"dropSegment"}, id : 1..MaxSegments]
      [] r.kind = "dropSegment"  -> [kind : {"campaign"}, id : {r.id}]
                                    \cup [kind : {"winback"}, id : Tenants \X Hashes]
      [] OTHER                   -> {}

Busy == {v \in Workers : stage[v] \notin {"idle", "failed", "read"}}

Begin(w, r) ==
    LET segment  == IF r.kind \in {"create", "winback"} THEN 1 ELSE 0
        campaign == IF r.kind \in {"campaign", "winback"} THEN 1 ELSE 0
    IN  /\ w \notin Busy
        /\ made.segment + segment <= MaxSegments
        /\ made.campaign + campaign <= MaxCampaigns
        /\ made' = [segment |-> made.segment + segment, campaign |-> made.campaign + campaign]
        /\ ids' = [ids EXCEPT ![w] = IF segment + campaign > 0 THEN made' ELSE NoIds]
        /\ request' = [request EXCEPT ![w] = r]
        /\ stage' = [stage EXCEPT ![w] = "get"]
        /\ target' = [target EXCEPT ![w] = Null]
        /\ raced' = [v \in Workers |->
               IF v = w THEN \E u \in Busy : request[u] \in Races(r)
               ELSE raced[v] \/ (v \in Busy /\ r \in Races(request[v]))]
        /\ UNCHANGED <<db, tx, history>>

\* session.get, or the first SELECT, of a row.
Get(w, kind, row, next) ==
    /\ At(w, kind, "get")
    /\ IF row \in DOMAIN db THEN Goto(w, next) /\ UNCHANGED <<db, tx, history>>
       ELSE Refuse(w)

-----------------------------------------------------------------------------
\* create_segment. The tenant is left out, so the unique key never conflicts and
\* the branch for the IntegrityError is never taken.
FindDefinition(w) ==
    /\ At(w, "create", "get")
    /\ IF \E r \in DOMAIN db : r[1] = "segments" /\ db[r][2] = request[w].id
       THEN Refuse(w)
       ELSE Goto(w, "insert") /\ UNCHANGED <<db, tx, history>>

CreateSegment(w) ==
    /\ At(w, "create", "insert")
    /\ LET key == <<NoTenant, request[w].id>>
       IN  Commit(w, [r \in {Segment(ids[w].segment)} |-> key], {})
    /\ Answer(w)
    /\ UNCHANGED history

-----------------------------------------------------------------------------
\* create_winback_campaign. The segment it found or added is the target.
Aim(w, segment) ==
    /\ target' = [target EXCEPT ![w] = segment]
    /\ stage' = [stage EXCEPT ![w] = "campaign"]
    /\ UNCHANGED <<db, request, ids, made, raced, history>>

FindWinback(w) ==
    /\ At(w, "winback", "get")
    /\ LET found == {r \in DOMAIN db : db[r] = request[w].id}
       IN  IF found = {} THEN Goto(w, "segment") /\ UNCHANGED <<db, tx, history>>
           ELSE (\E r \in found : Aim(w, r)) /\ UNCHANGED tx

\* The flush: it waits for whoever is adding or deleting the same key.
AddWinback(w) ==
    LET key == request[w].id
        segment == Segment(ids[w].segment)
        holders(f) == {r \in DOMAIN f : f[r] = key}
    IN  /\ At(w, "winback", "segment")
        /\ \A v \in Workers \ {w} : holders(tx[v].new) = {}
        /\ CanWrite(w, holders(db))
        /\ IF holders(db) # {} THEN Fail(w)
           ELSE /\ tx' = [tx EXCEPT ![w].new = Merge([r \in {segment} |-> key], @)]
                /\ Aim(w, segment)

\* create_campaign.
GetSegment(w) ==
    /\ At(w, "campaign", "get")
    /\ LET segment == Segment(request[w].id)
       IN  IF segment \in DOMAIN db THEN Aim(w, segment) /\ UNCHANGED tx ELSE Refuse(w)

InsertCampaign(w) ==
    LET segment == target[w]
    IN  /\ stage[w] = "campaign"
        /\ CanRefer(w, segment)
        /\ IF segment \in DOMAIN View(w)
           THEN Write(w, [r \in {Campaign(ids[w].campaign)} |-> segment], {}, {segment}, "audience")
           ELSE Fail(w)

InsertAudience(w) ==
    LET campaign == ids[w].campaign
    IN  /\ stage[w] = "audience"
        /\ \E A \in SUBSET Audience :
               Commit(w, [r \in {Comm(<<campaign, k>>) : k \in A} |-> Campaign(campaign)], {})
        /\ Answer(w)
        /\ UNCHANGED history

-----------------------------------------------------------------------------
\* delete_segment.
GetDoomedSegment(w) == Get(w, "dropSegment", Segment(request[w].id), "unlink")

Refer(f, r) == {x \in DOMAIN f : f[x] = r}

\* Wrong on purpose: the unlinking forgotten.
KeepsLinks(w) == At(w, "dropSegment", "unlink") /\ Write(w, NoTx.new, {}, {}, "delete")

UnlinkCampaigns(w) ==
    LET linked == Refer(db, Segment(request[w].id))
    IN  /\ At(w, "dropSegment", "unlink")
        /\ CanWrite(w, linked)
        /\ Write(w, [r \in linked |-> Null], {}, {}, "delete")

\* A DELETE and the commit. A row that is gone already is no error.
Drop(w, row) ==
    /\ CanDelete(w, {row})
    /\ IF Referring(w, {row}) # {} THEN Fail(w)
       ELSE /\ Commit(w, NoTx.new, {row})
            /\ Answer(w)
            /\ deleted' = IF row[1] = "campaigns" THEN deleted \cup {row[2]} ELSE deleted
            /\ UNCHANGED accepted

DeleteSegment(w) == At(w, "dropSegment", "delete") /\ Drop(w, Segment(request[w].id))

-----------------------------------------------------------------------------
\* delete_campaign.
GetDoomedCampaign(w) == Get(w, "dropCampaign", Campaign(request[w].id), "ids")

CommsOf(f, w) == Refer(f, Campaign(request[w].id)) \cap {Comm(m) : m \in Comms}

\* comm_ids; nothing to delete if there are none.
SelectComms(w) ==
    /\ At(w, "dropCampaign", "ids")
    /\ Goto(w, IF CommsOf(db, w) = {} THEN "orders" ELSE "events")
    /\ UNCHANGED <<db, tx, history>>

DeleteEvents(w) ==
    LET doomed == {Event(<<request[w].id, k>>) : k \in Audience} \cap DOMAIN db
    IN  /\ At(w, "dropCampaign", "events")
        /\ CanDelete(w, doomed)
        /\ Write(w, NoTx.new, doomed, {}, "comms")

\* Wrong on purpose: commits the deletions before it unlinks the orders.
CommitsEarly(w) ==
    LET doomed == CommsOf(db, w)
    IN  /\ At(w, "dropCampaign", "comms")
        /\ CanDelete(w, doomed)
        /\ IF Referring(w, doomed) # {} THEN Fail(w)
           ELSE /\ Commit(w, NoTx.new, doomed)
                /\ tx' = [tx EXCEPT ![w] = NoTx]
                /\ Goto(w, "orders")
                /\ UNCHANGED history

DeleteComms(w) ==
    LET doomed == CommsOf(db, w)
    IN  /\ At(w, "dropCampaign", "comms")
        /\ CanDelete(w, doomed)
        /\ IF Referring(w, doomed) # {} THEN Fail(w)
           ELSE Write(w, NoTx.new, doomed, {}, "orders")

\* Wrong on purpose: the orders deleted, not unlinked.
DeleteOrders(w) ==
    LET linked == Refer(db, Campaign(request[w].id)) \cap {Order(m) : m \in Comms}
    IN  At(w, "dropCampaign", "orders") /\ CanDelete(w, linked)
        /\ Write(w, NoTx.new, linked, {}, "delete")

UnlinkOrders(w) ==
    LET linked == Refer(db, Campaign(request[w].id)) \cap {Order(m) : m \in Comms}
    IN  /\ At(w, "dropCampaign", "orders")
        /\ CanWrite(w, linked)
        /\ Write(w, [r \in linked |-> Null], {}, {}, "delete")

\* Wrong on purpose: answers and forgets the commit.
ForgetsCommit(w) ==
    At(w, "dropCampaign", "delete") /\ Answer(w)
    /\ deleted' = deleted \cup {request[w].id} /\ UNCHANGED <<db, accepted>>

DeleteCampaign(w) == At(w, "dropCampaign", "delete") /\ Drop(w, Campaign(request[w].id))

-----------------------------------------------------------------------------
\* process_batch, for a batch of one "converted" event.
KnownComm(w) == Get(w, "receipt", Comm(request[w].id), "event")

InsertEvent(w) ==
    LET m == request[w].id
    IN  /\ At(w, "receipt", "event")
        /\ CanWrite(w, {Event(m)})
        /\ IF Event(m) \in DOMAIN db THEN Refuse(w)
           ELSE /\ CanRefer(w, Comm(m))
                /\ IF Comm(m) \in DOMAIN db
                   THEN Write(w, [r \in {Event(m)} |-> Comm(m)], {}, {Comm(m)}, "order")
                   ELSE Fail(w)

\* _create_attributed_orders, for the campaign of the communication.
InsertOrder(w) ==
    LET m == request[w].id
        campaign == Campaign(m[1])
    IN  /\ At(w, "receipt", "order")
        /\ CanWrite(w, {Order(m)})
        /\ CanRefer(w, campaign)
        /\ IF campaign \notin DOMAIN db THEN Fail(w)
           ELSE Write(w, [r \in {Order(m)} \ DOMAIN db |-> campaign], {}, {campaign}, "commit")

CommitReceipt(w) ==
    /\ At(w, "receipt", "commit")
    /\ Commit(w, NoTx.new, {})
    /\ Answer(w)
    /\ accepted' = accepted \cup {request[w].id}
    /\ UNCHANGED deleted

-----------------------------------------------------------------------------
\* campaign_pnl (scores_service): the contacts and then the revenue, one statement
\* each. A campaign of another tenant, or of none, is not found either.
FindCampaign(w) ==
    \/ Get(w, "pnl", Campaign(request[w].id), "contacts")
    \/ At(w, "pnl", "get") /\ Refuse(w)

Read(w, s, figure, next) ==
    /\ At(w, "pnl", s)
    /\ target' = [target EXCEPT ![w] = Append(@, figure)]
    /\ stage' = [stage EXCEPT ![w] = next]
    /\ UNCHANGED <<db, tx, request, ids, made, raced, history>>

Attributed(w) == Refer(db, Campaign(request[w].id)) \ CommsOf(db, w)

ReadContacts(w) == Read(w, "contacts", Cardinality(CommsOf(db, w)), "revenue")

ReadRevenue(w) == Read(w, "revenue", Cardinality(Attributed(w)), "read")

-----------------------------------------------------------------------------
Step(w) ==
    \/ FindDefinition(w) \/ CreateSegment(w)
    \/ FindWinback(w) \/ AddWinback(w)
    \/ GetSegment(w) \/ InsertCampaign(w) \/ InsertAudience(w)
    \/ GetDoomedSegment(w) \/ UnlinkCampaigns(w) \/ DeleteSegment(w)
    \/ GetDoomedCampaign(w) \/ SelectComms(w) \/ DeleteEvents(w) \/ DeleteComms(w)
    \/ UnlinkOrders(w) \/ DeleteCampaign(w)
    \/ KnownComm(w) \/ InsertEvent(w) \/ InsertOrder(w) \/ CommitReceipt(w)
    \/ FindCampaign(w) \/ ReadContacts(w) \/ ReadRevenue(w)

Next == \E w \in Workers : Step(w) \/ \E r \in RequestOf : Begin(w, r)

Spec == Init /\ [][Next]_vars

-----------------------------------------------------------------------------
(* Properties.                                                               *)

(* A request ends with a 500 only if it overlapped with one that can take the  *)
(* row it needs from under it: a receipt and the deletion of its campaign, a   *)
(* segment's deletion and a campaign for it, two win-backs of one definition.  *)
(* On its own no deletion runs into a foreign key: the statements come in the  *)
(* right order (campaigns.py:123-145, segments.py:113-125,                     *)
(* campaign_service.py:159-178, receipt_service.py:78-97).                     *)
FailsOnlyInARace == \A w \in Workers : stage[w] = "failed" => raced[w]

(* A campaign whose deletion was answered 204 is gone for good, and no         *)
(* communication and no order refers to it again: a receipt that was under way *)
(* does not attribute an order to it (campaigns.py:137-145,                    *)
(* receipt_service.py:147).                                                    *)
DeletedStaysDeleted ==
    \A c \in deleted : Campaign(c) \notin DOMAIN db /\ Refer(db, Campaign(c)) = {}

(* An event answered "accepted" is in the log until its campaign is deleted,   *)
(* and the order it created outlives even that (receipt_service.py:149,        *)
(* campaigns.py:138-142).                                                      *)
AcceptedUntilDeleted ==
    \A m \in accepted :
        /\ Event(m) \in DOMAIN db \/ m[1] \in deleted
        /\ Order(m) \in DOMAIN db

(* Whatever is deleted and received while it is read, the profit and loss of a *)
(* campaign never shows revenue without the contact that it came from, hence   *)
(* never without its cost (scores_service.py:144-153).                         *)
RevenueHasCost ==
    \A w \in Workers :
        stage[w] = "read" => target[w][2] <= target[w][1]

(* What models.py:155, receipt_service.py:3 and README.md:99 say of            *)
(* communication_events: rows are only ever inserted, and none is deleted.     *)
Log == {r \in DOMAIN db : r[1] = "communication_events"}
EventsAppendOnly == [][Log \subseteq Log']_vars

(* What BUILD_LOG.md:316 says of the unique constraint on (tenant_id,          *)
(* definition_hash): it "fixes the segment dedupe race", so create_segment     *)
(* never stores a definition twice.                                            *)
OneSegmentPerDefinition ==
    \A r, s \in DOMAIN db :
        r[1] = "segments" /\ s[1] = "segments" /\ db[r] = db[s] => r = s
-----------------------------------------------------------------------------
(***************************************************************************)
(* The inductive invariant: what each open transaction has written,        *)
(* deleted and locked, why that still fits the committed rows when it      *)
(* commits, and what a request that no other can make fail relies on.      *)
(***************************************************************************)
Keys == (Tenants \cup {NoTenant}) \X Hashes
Segments == {Segment(n) : n \in 1..MaxSegments}
CampaignRows == {Campaign(c) : c \in 1..MaxCampaigns}
OrderRows == {Order(m) : m \in Comms}
Rows == Segments \cup CampaignRows \cup OrderRows
            \cup {Comm(m) : m \in Comms} \cup {Event(m) : m \in Comms}

\* What a row may refer to.
Refers(r) ==
    CASE r[1] = "segments"             -> Keys
      [] r[1] = "campaigns"            -> Segments \cup {Null}
      [] r[1] = "communications"       -> {Campaign(r[2][1])}
      [] r[1] = "communication_events" -> {Comm(r[2])}
      [] r[1] = "orders"               -> {Campaign(r[2][1]), Null}

Shaped(f) == DOMAIN f \subseteq Rows /\ \A r \in DOMAIN f : f[r] \in Refers(r)
Closed(f) == \A r \in DOMAIN f : f[r] \in Rows => f[r] \in DOMAIN f

Stages == {"idle", "failed", "get", "insert", "segment", "campaign", "audience", "unlink",
           "delete", "ids", "events", "comms", "orders", "event", "order", "commit",
           "contacts", "revenue", "read"}
Numbers == [segment : 0..MaxSegments, campaign : 0..MaxCampaigns]

TypeOK ==
    /\ Shaped(db)
    /\ tx = [w \in Workers |->
                 [new |-> tx[w].new, gone |-> tx[w].gone, held |-> tx[w].held]]
    /\ \A w \in Workers : Shaped(tx[w].new)
    /\ request \in [Workers -> RequestOf \cup {NoRequest}]
    /\ stage \in [Workers -> Stages]
    /\ target = [w \in Workers |-> target[w]]
    /\ \A w \in Workers : IF request[w].kind = "pnl" THEN target[w] \in Seq(Nat)
                         ELSE target[w] \in Segments \cup {Null}
    /\ ids \in [Workers -> Numbers] /\ made \in Numbers
    /\ raced \in [Workers -> BOOLEAN]
    /\ accepted \subseteq Comms /\ deleted \subseteq 1..MaxCampaigns

\* The stages of each kind of request.
StageOK(w) ==
    \/ stage[w] = "failed"
    \/ stage[w] = "idle" /\ request[w] = NoRequest
    \/ stage[w] = "get" /\ request[w] \in RequestOf
    \/ request[w].kind = "create" /\ stage[w] = "insert"
    \/ request[w].kind = "winback" /\ stage[w] \in {"segment", "campaign", "audience"}
    \/ request[w].kind = "campaign" /\ stage[w] \in {"campaign", "audience"}
    \/ request[w].kind = "dropSegment" /\ stage[w] \in {"unlink", "delete"}
    \/ request[w].kind = "dropCampaign"
           /\ stage[w] \in {"ids", "events", "comms", "orders", "delete"}
    \/ request[w].kind = "receipt" /\ stage[w] \in {"event", "order", "commit"}
    \/ request[w].kind = "pnl" /\ stage[w] \in {"contacts", "revenue", "read"}

Writing(w) == stage[w] \in {"campaign", "audience", "comms", "orders", "delete", "order", "commit"}

\* A campaign under creation, and the segment of a win-back.
CreatingOK(w) ==
    LET segment == Segment(ids[w].segment)
        campaign == Campaign(ids[w].campaign)
        new == tx[w].new
    IN  stage[w] \in {"campaign", "audience"} =>
            /\ tx[w].gone = {} /\ target[w] \in Segments
            /\ request[w].kind = "campaign" => target[w] = Segment(request[w].id)
            /\ DOMAIN new \subseteq {segment, campaign}
            /\ segment \in DOMAIN new => request[w].kind = "winback" /\ new[segment] = request[w].id
            /\ IF stage[w] = "campaign" THEN tx[w].held = {} /\ campaign \notin DOMAIN new
               ELSE /\ tx[w].held = {target[w]}
                    /\ campaign \in DOMAIN new /\ new[campaign] = target[w]

\* Rows that are there and refer to nothing any more.
Unlinks(w, rows) ==
    /\ tx[w].held = {} /\ DOMAIN tx[w].new \subseteq rows \cap DOMAIN db
    /\ \A r \in DOMAIN tx[w].new : tx[w].new[r] = Null

CommsGone(w) ==
    \A k \in Audience : LET comm == Comm(<<request[w].id, k>>)
                        IN  comm \in DOMAIN db => comm \in tx[w].gone

DeletingOK(w) ==
    LET c == request[w].id
    IN  /\ request[w].kind = "dropSegment" /\ stage[w] = "delete" =>
               tx[w].gone = {} /\ Unlinks(w, CampaignRows)
        /\ request[w].kind = "dropCampaign" /\ Writing(w) =>
               /\ Unlinks(w, OrderRows)
               /\ stage[w] # "delete" => DOMAIN tx[w].new = {}
               /\ tx[w].gone \subseteq UNION {{Comm(<<c, k>>), Event(<<c, k>>)} : k \in Audience}
               /\ \A r \in DOMAIN db \ tx[w].gone : db[r] \notin tx[w].gone
               /\ stage[w] # "comms" => CommsGone(w)

ReceivingOK(w) ==
    LET m == request[w].id
    IN  stage[w] \in {"order", "commit"} =>
            /\ tx[w].gone = {}
            /\ Event(m) \in DOMAIN tx[w].new /\ DOMAIN tx[w].new \subseteq {Event(m), Order(m)}
            /\ IF stage[w] = "order" THEN tx[w].held = {Comm(m)} /\ Order(m) \notin DOMAIN tx[w].new
               ELSE /\ tx[w].held = {Comm(m), Campaign(m[1])}
                    /\ Order(m) \in DOMAIN db \cup DOMAIN tx[w].new

TxOK(w) ==
    /\ ~Writing(w) => tx[w] = NoTx
    /\ CreatingOK(w) /\ DeletingOK(w) /\ ReceivingOK(w)
    /\ tx[w].held \subseteq DOMAIN db \cup DOMAIN tx[w].new

\* Nobody writes or deletes what another has written or deleted, nor deletes what
\* another refers to.
Exclusive ==
    \A w, v \in Workers : w # v =>
        /\ DOMAIN tx[w].new \cap DOMAIN tx[v].new = {}
        /\ tx[w].gone \cap (DOMAIN tx[v].new \cup tx[v].gone \cup tx[v].held) = {}

MakesSegment(w)  == w \in Busy /\ request[w].kind \in {"create", "winback"}
MakesCampaign(w) == w \in Busy /\ request[w].kind \in {"campaign", "winback"}

\* It found the campaign it is for.
Found(w) ==
    \/ request[w].kind = "dropCampaign" /\ stage[w] \in {"ids", "events", "comms", "orders", "delete"}
    \/ request[w].kind = "pnl" /\ stage[w] \in {"contacts", "revenue"}

\* An id that is handed out is nobody else's and was never a row's.
FreshOK(w) ==
    /\ MakesSegment(w) =>
           /\ ids[w].segment \in 1..made.segment /\ Segment(ids[w].segment) \notin DOMAIN db
           /\ \A v \in Workers \ {w} : MakesSegment(v) => ids[v].segment # ids[w].segment
    /\ MakesCampaign(w) =>
           /\ ids[w].campaign \in 1..made.campaign /\ Campaign(ids[w].campaign) \notin DOMAIN db
           /\ ids[w].campaign \notin deleted
           /\ \A v \in Workers \ {w} : MakesCampaign(v) => ids[v].campaign # ids[w].campaign
           /\ \A v \in Workers : Found(v) => request[v].id # ids[w].campaign
    /\ Found(w) => request[w].id \in 1..made.campaign

DbOK ==
    /\ Closed(db)
    /\ \A m \in Comms :
           Order(m) \in DOMAIN db /\ db[Order(m)] = Campaign(m[1]) => Comm(m) \in DOMAIN db
    /\ \A n \in 1..MaxSegments : Segment(n) \in DOMAIN db => n <= made.segment
    /\ \A c \in 1..MaxCampaigns : Campaign(c) \in DOMAIN db \/ c \in deleted => c <= made.campaign
    /\ \A c \in deleted : Campaign(c) \notin DOMAIN db

\* Of two requests under way, each knows if the other may make it fail.
RacesKnown ==
    \A w, v \in Busy : w # v /\ request[v] \in Races(request[w]) => raced[w]

\* What a request may rely on that no other can make fail.
UnracedOK(w) ==
    LET r == request[w]
    IN  w \in Busy /\ ~raced[w] =>
            /\ stage[w] = "segment" => \A s \in DOMAIN db : db[s] # r.id
            /\ stage[w] = "campaign" => target[w] \in DOMAIN db \cup DOMAIN tx[w].new
            /\ r.kind = "dropSegment" /\ stage[w] = "delete" =>
                   \A s \in DOMAIN db \ DOMAIN tx[w].new : db[s] # Segment(r.id)
            /\ stage[w] = "comms" =>
                   \A k \in Audience : LET event == Event(<<r.id, k>>)
                                       IN  event \in DOMAIN db => event \in tx[w].gone
            /\ r.kind = "dropCampaign" /\ stage[w] = "delete" =>
                   \A m \in Comms : Order(m) \in DOMAIN db \ DOMAIN tx[w].new =>
                                        db[Order(m)] # Campaign(r.id)
            /\ stage[w] = "event" => Comm(r.id) \in DOMAIN db

\* The contacts that were counted only get fewer.
ReadOK(w) ==
    /\ request[w].kind = "pnl" /\ stage[w] \in {"get", "contacts"} => target[w] = Null
    /\ stage[w] = "revenue" =>
           /\ target[w] \in Seq(Nat) /\ Len(target[w]) = 1
           /\ Cardinality(CommsOf(db, w)) <= target[w][1]

IInv ==
    /\ TypeOK
    /\ \A w \in Workers : StageOK(w) /\ TxOK(w) /\ FreshOK(w) /\ UnracedOK(w) /\ ReadOK(w)
    /\ Exclusive
    /\ DbOK
    /\ RacesKnown
    /\ FailsOnlyInARace
    /\ AcceptedUntilDeleted
    /\ RevenueHasCost
==============================================================================
