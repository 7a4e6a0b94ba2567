# LUMEN backend: specifications and proofs

TLA+ models of the LUMEN CRM backend (`src/crm_api`) and of the channel
service it talks to (`src/channel_service`), TLC runs that check them on small
instances, and TLAPS proofs for every instance. Every definition is translated
from the code; `PROJECT.json` maps each one to the lines it stands for.

## 1. Inventory

### The system

Two Python/FastAPI processes and one PostgreSQL database.

* The **CRM API** stores customers, orders, segments, campaigns, communications
  and the events of communications. It runs one asyncio event loop: handlers
  interleave at every `await`, and the database sees their transactions
  interleave statement by statement (READ COMMITTED).
* The **channel service** stands in for an SMS/e-mail provider. `POST /send`
  takes messages; a task per message posts callbacks ("receipts") to the CRM
  with jitter, duplicates and reordering.
* The loop between them: a campaign's communications are posted to the channel
  in batches (`dispatch_service`), the channel posts callbacks to
  `/api/v1/receipts`, and `receipt_service` turns them into a log of events (to
  which it only appends), a status per communication and, for conversions, an order and the
  customer's counters.

| Component | State | Operations | Modelled by |
|---|---|---|---|
| Receipts (`receipt_service`, `routers/receipts`) | `communication_events`, `communications.status/_rank/last_event_at`, `orders` | `process_batch` | `ReceiptRules`, `ReceiptLog`, `Receipts` |
| Order aggregates (`ingest_repo`) | `customers.order_count/total_spend/last_order_at` | `upsert_customers`, `insert_orders`, `apply_order_aggregates` | `ReceiptRules`, `Receipts`, `Ingest` |
| Campaign life cycle (`campaign_service`, `dispatch_service`, `routers/campaigns`) | `campaigns.status`, `ai_reasoning.proposal_state`, queued communications | create, win-back, approve, execute, dispatch, delete | `Dispatch`, `Campaigns` |
| Channel service (`main`, `sender`, `simulator`) | pending file, tasks, dead letters | `/send`, delivery tasks, start, drain | `Simulator`, `Channel` |
| Rate limiter (`rate_limit`) | a deque of times per key | `allow` | `RateLimiter` |
| Bulk ingest, customer upload, Olist load (`ingest_service`, `customers_service`, `scripts/load_olist`) | `customers`, `orders` | bulk customers, bulk orders, CSV upload, load | `Ingest` |
| Segments (`routers/segments`, `segment_compiler`, `segment_preview`) | `segments` | create (deduplicated), delete, validate, prune, preview | `SegmentTree`, `Campaigns`, `Agent` |
| AI services (`ai_service`, `llm_client`) | a conversation per request | segment, draft, insight, the tool loop of a proposal, provider fallback | `Gateway`, `Agent` |
| Statistics, scores, economics | none | read-only queries | `campaign_stats` in `Agent`, `campaign_pnl` in `Campaigns` |
| Auth, tenancy, middleware, config, cron | none | stateless | no |
| ML pipeline, migrations, seed, back-test | files | batch jobs | no |

### What is hard about it, and what makes it correct

* **Receipts.** Callbacks come duplicated, reordered and concurrently; batches
  lock several rows in several tables and may deadlock; a batch may fail after
  any statement, and the answer to a committed one may be lost. Correct means:
  one event per communication and type; a status that is the maximum of the
  log, whatever the order; conversions, orders and counters that agree;
  answers that are true of the committed log; concurrent batches that look
  serial; every request ends.
* **Dispatch.** A request reads a campaign, decides, and commits later, with
  calls to another process in between that may fail, time out or be half done.
  Correct means: no message is handed over twice, a campaign becomes active
  only with everything handed over, nothing is executed without approval,
  every request ends.
* **Channel.** Memory (tasks, dead letters) and the pending file must agree
  across crashes, drains and restarts; retries are bounded and what is given
  up is on the dead-letter list.
* **Rate limiter.** No window over quota, at any offset; nobody under quota is
  refused.
* **Ingest.** Orders add to counters that uploads and loads overwrite, in
  transactions that interleave row by row. Correct means: no increment is lost
  or counted twice, and the answers add up to what was stored.
* **Segments and campaigns.** Foreign keys tie segments, campaigns,
  communications, events and orders; deletions take several statements while
  receipts and creations go on. Correct means: a request fails only where
  another took its row away, nothing comes back that was deleted, a conversion
  that was accepted is not lost, and revenue is not read without its cost.
* **AI services.** A model may answer anything, and a provider may fail in any
  way, at any turn. Correct means: every request ends, invalid output is never
  returned, a proposal rests on tool calls really made, and the impact of a
  rule has the sign the user interface gives it.

The full list of hazards, each at its line and with the properties that catch
it, is in `PROJECT.json`; where a property excuses the loss or the race itself
and shows only that nothing else does the same, the hazard's note says so. Two
carry no property: the rate limiter's table keeps an entry for every key, which
is growth of memory and not a wrong answer, and the end of the channel's drain
is a timeout of thirty seconds, which the fairness takes over.

## 2. Modules

### Receipts

`ReceiptRules` has the vocabulary and the pure part of `process_batch`:
deduplication in the batch (`Valid`), the best new event of a communication
(`Best`), the `SET` lists of the two `UPDATE`s (`Raised`, `Credited`) and the
grouping by customer. Times are `1..MaxTime`, 0 is NULL. `total_spend` grows by
a constant for every attributed order, so `order_count` stands for it.

`ReceiptLog` is the abstract specification: one action, `Apply(b)`, applies a
whole batch.

`Receipts` is `process_batch` as PostgreSQL runs it. Each request `w` is at a
`stage` (the statement in progress), with the rows the statement has left
(`todo`) and the one it is at (`cur`). Rows are taken one at a time
(`InsertEvent`, `RaiseStatus`, `InsertOrder`, `CreditCustomer`); the actions
between them (`EventsInserted`, `StatusRaised`, ...) are the Python between two
statements. The order of rows is that of the `VALUES` list for inserts and
free for the joined `UPDATE` (`NextRows`). A transaction's writes are its own
until `Commit`; a row or key that another open transaction holds makes a
request wait (`WaitsFor`), after which it sees the row as committed. `Fail`
(an exception or crash before the commit) and `AbortDeadlocked` roll back;
`LoseReply` loses the answer after the commit; nothing stops a batch from
arriving again. The lock rules and the deadlock detector are PostgreSQL's and
are marked external.

### Dispatch

One campaign, several requests. `ReadTo...` are the reads with the checks of
the handlers (a refused request changes nothing and is no step).
`SelectQueued`, `CommitDispatching`, `PostBatch`, `BatchTaken`/`BatchRefused`,
`CommitActive` are `dispatch_campaign` cut at its awaits. `TimeOut` is httpx
after ten seconds, `Fail` any exception or a crash. `ChannelTakes` is the other
process: it takes all of a posted batch, a part of it (its handler failed), and
at any time, also after the client gave up. `ReceiptArrives` is what receipts
do to `status = 'queued'`. `execute_proposal` calls `dispatch_campaign` in the
same session, whose `session.get` answers from the identity map
(`expire_on_commit=False`), so both checks are one read. Nothing in the present
code writes a `proposal_state` (`propose_campaign` returns `campaign_id=None`),
but approve and execute serve rows that have one: `Init` includes such a row.
`handed` and `raced` are history. Approval is asked for by execute alone: a plain
dispatch sends a pending proposal as it sends any draft, in the code and in the
model, and `ExecutedIsApproved` says nothing of it.

### Channel

`Simulator` gives the set of plans `plan_events` can return; probabilities and
delays become choices and order. `Channel` is the process and its file: `phase`
is the lifespan, `file` counts the entries per message, each task walks its
plan (`NextEvent`, `Posted`, `PostFailed`, `DeadLetter`, `Finish`). The file is
read and written without an await, so `Send` and `Finish` are atomic for the
event loop; a crash may still fall into the write (`CrashWriting`), which
leaves a file that `_load_pending` reads as empty. `Resume` does what lifespan
does with an entry: it raises. `DrainTimesOut` is the end of a drain after
thirty seconds: the remaining tasks are cancelled, and the `finally` of each
removes its entry, or the process is killed before that.

### RateLimiter

`allow` in one step (no await), over a clock that may tick between any two
calls. `admitted` is the history the properties look at. Both limiters of
`main.py` are instances.

### Ingest

The four ways into `customers` and `orders` besides receipts, as concurrent
transactions. A request is at a statement (`stage`) with the rows it has left
(`todo`); `UpsertCustomer`, `InsertOrder` and `CreditCustomer` take one row
each, in any order, and cannot take one that another open transaction has
written. `SelectIds` is the look before the write (the ids that exist), `seen`
what it found. What a kind of request sets on conflict is `SetList`: nothing
that is modelled for bulk customers, the counters for an upload, counters, date
and tenant for a load. A payload that names a row twice is cut by
`drop_duplicates` (the first stays) or by a dict (the last stays). `Fail` is an
exception, a crash or a deadlock that PostgreSQL breaks, at any point; a load
commits its customers before its orders. `figures`, `inserted` and `reported`
are history.

### Campaigns

The tables that refer to one another, as one function `db` from rows to what
each refers to (a segment "refers to" its tenant and definition). A request
`w` has written, deleted and locked the rows in `tx[w]`; a foreign key is a
row it must be able to refer to, which waits for a deletion in progress
(`CanRefer`) and keeps the row from being deleted (`held`). The statements of
`create_segment`, `create_campaign`, `create_winback_campaign`,
`delete_segment`, `delete_campaign`, a receipt of one conversion, and
`campaign_pnl` are one action each; a statement that finds its row gone ends
in `failed`, the 500 of an `IntegrityError` that nobody catches. What
`Receipts` and `Ingest` take row by row is taken here at once: each statement
touches rows of one campaign, a receipt is one conversion, and in the run the
audience has one customer. So no batch can lock two communications crosswise
with the statements of `delete_campaign`, as one over several communications of
a campaign may; PostgreSQL aborts one of the two then, and the model has no such
failure. Lock cycles between batches are in `Receipts`.
`create_segment` leaves the tenant out, so the branch for its
`IntegrityError` is dead code and is not an action. Receipts of other events
are `Receipts`' business; `accepted`, `deleted` and `raced` are history.

### SegmentTree, Gateway, Agent

`SegmentTree` is pure: a definition is a function from index paths, the
addresses of `walk_leaves_with_path`, to groups and leaves. `Verdict` is
`compile_definition` (the whitelist, the conversion of values, the limits on
depth and leaves, the first rule that raises), `Selected` the customers its
WHERE clause selects, `RemoveAtPath` the pruning (`Verdicts`, `SelectedAt` and
`Kept` are the recursions, over every node and every group on the way; `IsTree`
is what JSON can bring). It uses recursive functions only. Values come in sorts, as the conversions tell them apart; a number of
days too large for a date raises `OverflowError`, which `compile_leaf` lets
through and the routers answer with 500.

`Gateway` is `llm_client.complete`: two providers, attempts and sleeps.
`Agent` extends both: `_generate` with its one repair, `_check_grounded`, the
tool loop of `propose_campaign`, and the counts of the preview, each count a
query of its own beside `ChangeCustomers`. One request is followed at a time,
since requests share nothing but the customers they read. A tool call is one
step: its queries are few, and only whether it failed and what it found is
kept; its LIMIT of 500 is left out. `Matching`, what the customers of a rule are,
is fixed: `compile_leaf` takes `now()` for a rule on dates at every compile
(`_cutoff`, `segment_compiler.py:57`), so such a rule may lose a customer, or gain
one, between two counts of one preview though no table changed. In the model
that is a step of `ChangeCustomers`, and `MarginalSign`, which is about counts
that nothing changed between, does not cover it. A text of a model is a record: prose, a
JSON list, another object, a tool call, a proposal or an output, with a
definition that compiles, is rejected or overflows.

Operators whose comment begins "Wrong on purpose" are not used by the
specifications: each is a plausible bug in place of the definition after it,
and shows that the property it is paired with in `PROJECT.json` can fail.

## 3. Runs

| Run | Bounds | What it shows |
|---|---|---|
| `receipts` | 2 requests, 4 communications of 2 customers, 4 batches, 2 dates | all safety properties of receipts, the inductive invariant, refinement of `ReceiptLog`; every request is answered or fails |
| `rate_limiter` | 2 keys, quota 2, window 3, clock to 9 | quota holds in every window; refusals are justified |
| `dispatch` | 2 requests, 3 communications, batch size 2 | safety and termination of dispatch under failure and time-out |
| `double_execute` | same | **violated**: `DoubleExecuteIsRefused` |
| `channel` | 2 tasks, 2 messages (or one sent twice), 2 plans, 2 attempts, 1 stop | file and tasks agree; nothing is dropped in silence; deliveries end |
| `channel_restart` | same | **violated**: `DeliveriesSurviveRestarts` |
| `ingest` | 2 requests, 2 customers, 2 orders, 5 payloads | counters are the last figures plus every order since; answers add up; the inductive invariant |
| `agent` | 2 attempts, 4 iterations, trees of up to 3 levels and 3 leaves, 3 customers, 1 change of them | fallback, repair, proposals, pruning, signs of impacts; every request ends |
| `agent_bare_proposal` | same | **violated**: `BareProposalIsReturned` |
| `campaigns` | 2 requests, 2 segments, 2 campaigns, 1 definition, 1 customer | who may fail, what a deletion leaves, what a profit and loss may show; single conversions and deletions never wait for each other in a cycle |
| `events_append_only` | same | **violated**: `EventsAppendOnly` |
| `segment_dedupe` | same | **violated**: `OneSegmentPerDefinition` |

Why the bounds are enough to be interesting. *receipts*: two transactions are
what a lock conflict, a lost update and a two-cycle deadlock need; the batches
name the same callbacks, the same communications and the same customers in
opposite orders, so that deadlocks occur at the insert of events, at the update
of statuses and at the update of customers; they repeat a callback inside a
batch and in another, name an unknown id, bring a late low-ranked event after a
conversion and two conversions of one customer. Batches may arrive any number of
times (`accepts` stays bounded because the property holds), so a request at a
lock may be overtaken by the other again and again. *dispatch*: a
dispatch of three communications takes two posts, one full and one short, and
two requests are enough for each step of a dispatch to meet each step of any
other operation. *channel*: two tasks of one message share an entry; one plan
is reordered and repeats an event; two attempts have a first failure, a last
one and a success after a failure; one stop of each kind (more stops repeat
what one does: nothing but the file survives). *rate_limiter*: three windows'
worth of ticks, so that bursts meet on both sides of every edge.
*ingest*: two payloads of orders name the same orders and customers in
opposite orders, one names an order twice, an order's customer may not exist
yet; any payload may arrive any number of times, and uploads and loads fall
between any two statements of the others. *agent*: one attempt more than the
first and one provider more than the first are what fallback and retry need;
four iterations leave room for two different tool calls, a repeated or failed
one, and a proposal that comes too early or in time; the trees nest AND in OR
and OR in AND, with groups that a removal empties at two levels, and go over
both limits; the statistics include a campaign without messages. *campaigns*:
a second segment is what a lost race of creators or of win-backs needs, a
second campaign is another's receipt or a second win-back, and two requests
let every statement of a deletion meet every statement of anything else.
`Tasks`, `MaxStops`, `MaxNow`, `MaxSegments`, `MaxCampaigns` and `MaxChanges`
are the bounds on otherwise endless counters.

`CHECK_DEADLOCK FALSE` is set where the system may really stop: the clock of
`rate_limiter` ends at `MaxNow`, a deleted campaign admits no further request,
and a channel that has used its tasks and stops has nothing left to do. All
other runs check deadlock; in `campaigns` that is the check that two
transactions never wait for each other, for receipts of one conversion and
statements taken whole (section 2).

**Fairness.** *receipts*: the event loop runs every handler, and
PostgreSQL queues the waiters of a lock, so a request that is again and again
next gets through (SF on a request's steps); the deadlock detector always
fires (WF). No request has to arrive, fail or be lost. *dispatch*: WF on each
request's own steps, on the client's time-out, and on the failure of a
statement whose row is gone; the channel owes nothing. *channel*: the
platform starts a service that is down, lifespan runs, the event loop runs
every task, a drain ends. Nothing has to be sent or to stop. *agent*: WF on
the steps of the request being served: the event loop runs every coroutine,
and a post ends since httpx has a timeout. Providers may fail for ever and the
model may write what it likes; the customers need not change nor stop changing.

### What the five violations show

* `double_execute`. `execute_proposal` checks the approval
  (`campaign_service.py:221`) and `dispatch_campaign` the status
  (`dispatch_service.py:49`) on one unlocked read of the row, and `dispatching` is
  committed later (`:66`) with an UPDATE by id. In the trace a proposal is
  approved, two execute requests pass both checks together, and the channel
  takes a message twice. `BUILD_LOG.md:173` says "Double execute is refused by two
  layers", `:234` "two independent guards": the approval is still there after
  an execution, so it guards against no second one. Two plain dispatches of a
  draft have the same race. `OnlyRacesSendTwice`, checked and proved, says that
  this window is the only way to send twice.
* `channel_restart`. `lifespan` rebuilds a `SendMessage` without its required
  `recipient` (`channel_service/main.py:70`), so a service that stops with an
  entry on file raises at every start, while the comment at `:24` says
  deliveries survive restarts.
* `agent_bare_proposal`. The tests of `propose_campaign` are of an earlier
  version: `test_propose_happy_path` (`tests/test_ai_propose_campaign.py:85-104`)
  scripts a proposal and nothing else, and expects 200 after one request to the
  model; `test_propose_repair_then_success` (`:107-114`) expects "not json" to be
  repaired; `test_propose_bad_twice_gives_422` (`:117-124`) expects two requests.
  The code returns a proposal only with `"action": "propose"` and after two tool
  calls (`ai_service.py:433-443`), asks again for one without an action
  (`:522-531`), six times at most, and ends with 422 at the first text that is
  not JSON (`:430`). The trace has both: a bare proposal that is not returned,
  then a text that is not JSON and not repaired. `ProposalIsEarned` states what
  the code does and so contradicts these tests.
* `events_append_only`. `delete_campaign` deletes the events of its
  communications (`routers/campaigns.py:134-136`); in the trace one of them was
  answered accepted. `models.py:155` ("Append-only truth log. Never UPDATE or
  DELETE rows in this table."), `receipt_service.py:3`, `README.md:99-100` ("A grep
  over `crm_api` shows no UPDATE or DELETE against it anywhere.") and
  `BUILD_LOG.md:75` and `:117` say that there is no such statement.
  `AcceptedUntilDeleted` says what is left of the promise: an accepted event
  goes only with its campaign.
* `segment_dedupe`. `create_segment` looks for the definition and inserts it
  with `tenant_id` NULL, which never conflicts in
  `UNIQUE (tenant_id, definition_hash)`: two requests store it twice.
  `BUILD_LOG.md:316` says the constraint "fixes the segment dedupe race".

Two smaller disagreements were met and have no run: `rate_limit.py:1` calls
itself fixed-window and is a sliding log (a stronger promise, which
`WindowBound` states); `segment_preview.py:28` gives every rule under OR a
negative impact, which a rule that is alone in its group need not have
(`MarginalSign` says which group decides).

## 4. Proofs

All by TLAPS, for any number of requests, messages, communications, customers,
batches, segments, campaigns, clients, attempts and stops, any quota, window
and batch size, definitions of any shape, and whatever a model may write. Every theorem about states
follows from an inductive invariant, called `IInv` in its module: the safety
properties by themselves say too little about the requests under way to be kept
by the next commit. Each `IInv` was model-checked on the instance of its run
before it was proved. A step that keeps it is one lemma per action, named after
it; `NextInvariant` joins them.

The assumptions are the named `ASSUME`s of the modules, which TLC evaluates in
the runs. Those that are more than the type of a bound: a channel plan is a
finite sequence of event types (`plan_events` builds a list); there is at least
one attempt (`MAX_ATTEMPTS`) and one iteration (`MAX_AGENT_ITERATIONS` is 6);
customers, customers of a campaign and channel tasks are finite; a definition
is a finite tree (`IsTree`: it came as JSON and was parsed by `RuleGroup`); and
a tenant id is not the name of a table (it is a UUID).

**`Receipts_proofs`.** `Invariant` proves `Spec => []IInv`. The safety
properties alone are not inductive: that a commit keeps `StatusIsMaxOfLog` needs
to know that the row version it writes was computed from the row as it is
*now*. `IInv` therefore says of each open request how far it is (`ScanOK`), that
every kept callback is logged, inserted or still to come (`EventsOK`), which
rows it has updated and that their new versions are what the committed rows
would be raised to at this moment (`StatusOK`, `CustomersOK`), which orders it
has inserted (`OrdersOK`), and that no two requests hold the same key or row
(`Exclusive`): that is why another commit cannot make a version stale.
Its typing is the conjunct `TypeOK`. From it follow `TypeCorrect`, `OneEvent`, `StatusFromLog`,
`OrdersFromConversions`, `AnswersAreDurable`, `AcceptedByOne`, `NoDowngrade`
and `Serialisable`: each `Commit` is one `ReceiptLog!Apply` of its batch to the
state before it, and every other step leaves the database alone.

Two more theorems build on these. Nothing but a commit changes the database
(`OnlyCommits`), and what it appends to the log was in nobody's log before
(`AppendedIsNew`). `DateCoversStatus` needs one more fact to be inductive, that
a row still `queued` has no date: the `GREATEST` of the `UPDATE` would otherwise
take over a date that no event has. `CountersMatchOrders` is a count: the rows
of a batch that are kept are different callbacks (`RowsAreDistinct`), none is
an order yet, and `IInv` says the written counters are the committed ones
credited with exactly these rows, so the cardinalities add up.

**`Dispatch_proofs`.** `IInv` adds to the properties that nothing is posted
before `dispatching` is committed (`PostingOK`), that what a dispatch has not in
its rows the channel has (`WorkOK`, the reason why `active` means handed
over), and that without a race one dispatch at most has started and what it has
still to post was never posted (`AloneOK`). Theorems: `PostedLeavesDraft`,
`ActiveIsHanded`, `TwiceOnlyByRace`, `ExecuteNeedsApproval`,
`StatusWalksForward`.

**`RateLimiter_proofs`.** `IInv` ties each deque to the history of admissions
(`DequeOf`: the deque is the end of the history, and what was evicted has
expired). Theorems: `WindowIsBounded`, `NobodyElseRefused`.

**`Channel_proofs`.** `IInv` adds to the properties that the file never counts
more entries of a message than deliveries of it were begun, that a task not
begun has taken up nothing, and that no delivery outlives its process. The
first is what the removal of an entry needs: two deliveries of one message
share its entries, and the one that ends takes one away. Theorems:
`TypeCorrect`, `RunningIsOnFile`, `EntriesAreServed`, `AcceptedStays`,
`EventsAccountedFor`.

**`Ingest_proofs`.** `IInv` says of each open transaction what its unwritten
rows are worth *if the committed rows stay as they are*: the counters of a bulk
order are the committed ones credited with the orders it has inserted
(`OrdersOK`), an upsert keeps what its `SET` list leaves out (`UpsertsOK`), and
no two transactions have written the same row (`Exclusive`), hence the
committed rows do stay. The work is in `Credited`: crediting a row with one set
of orders and then with another is crediting it with both (`CreditedTwice`),
which needs the greatest of a finite set (`Greatest`, from well-founded
induction on the order of the numbers). Theorems: `CountersAddUp`,
`AnswersCount`.

**`Agent_proofs`.** First the gateway: `CallOK` reads off the list of posts
where a call is, and every step keeps it (`GatewayStepOK`); `FallsBackInOrder`
is a consequence (`CallInOrder`). On it rests the `IInv` of `Agent`: the stages
a kind of request can be at, what the texts heard before the last one were
(`TextsOK`), that the trace, the set of calls made and the number of calls
agree and that `impact` points at the last estimate that did not fail
(`TraceOK`), and how many turns are left (`TurnsOK`). The set of calls made is
why two entries of the trace are two different calls. Theorems: `RepairsOnce`,
`ProposalsAreEarned`; for these what a definition means is never opened. The
last two do open it: `PreviewInv`, kept beside `IInv`, says that only what
compiles is counted, and that each count of a preview is of the customers there
are as long as these do not change. With the theorems on trees it gives
`PrunesExactly` and `ImpactHasItsSign`.

**`SegmentTree_proofs`** is about definitions of any shape and depth. The
recursions over a tree and along a path are first shown to satisfy their own
equations (`KeptEquation`, `SelectedEquation`, `VerdictEquation`), by `Solution`:
a function computed from arguments of lower rank exists, and the nodes of a
finite tree have ranks (`Height`, `Ranked`). No proof after that looks at the
definitions. An induction is the choice of the least counterexample: of the
lowest node of a set (`Lowest`), or of the last step down a path (`Climb`).
`Pruned` and `PrunedRules` say what is left at each node, `OnlyTheLeaf` that no
other leaf goes; `PruningExact` adds that the groups left have rules and that
what compiled still does. For `PruningSign`: below the deciding group each group
on the way has one rule, so nothing of it is kept (`NothingKept`); the deciding
group loses one rule and those above it none (`KeptToDeciding`); off the way the
selections stay the same (`SameElsewhere`); and AND and OR are monotone, so the
sign goes up to the root (`SignAtRoot`).

**`Campaigns_proofs`.** The properties say that deletions and insertions of
rows that refer to one another meet safely; what makes it so is the order of
statements and the locks. `IInv` has: what a transaction has written, deleted
and locked at each of its statements (`CreatingOK`, `DeletingOK`,
`ReceivingOK`); that nobody writes or deletes what another has written or
deleted, nor deletes what another refers to (`Exclusive`); that ids handed out
are fresh (`FreshOK`); that the committed tables refer to rows that are there
(`DbOK`); that of two requests in each other's way one knows (`RacesKnown`);
what a request that no other can disturb may rely on (`UnracedOK`); and that
counted contacts only get fewer (`ReadOK`). `UnracedOK` is the argument of
`FailuresNeedARace`: at each statement that can fail it names the row or the
absence of references that the statement needs. The proof has two halves, since
what one request does to its own transaction is not what a commit does to all
others: `Undisturbed` covers the steps that leave the tables alone,
`CommitLeaves` the commits, which are described by what they bring, take and
leave as it was; `NoRace` is why another's commit cannot break what an
undisturbed request relies on. Theorems: `FailuresNeedARace`, `DeletedIsGone`,
`AcceptedIsThere`, `NoRevenueWithoutCost`.

**Model-checked only.**

* Liveness (`RequestsFinish`, `RequestsEnd`, `DeliveriesEnd`) under fairness is
  out of the prover's reach.
* The properties of the five violated runs, which do not hold.

## 5. Not modelled

* **The ML pipeline** (`src/ml`: training, scoring, uplift, exploration) and
  `backtest_clv`: floating-point computation with third-party learners on data
  frames; no state or order of steps for a model to get wrong.
* **Auth, tenancy, application frame**: stateless checks and wiring. What they
  give to the models (a session that rolls back, the timeout of the HTTP
  client, the quotas) is mapped.
* **Reads**: `portfolio_summary`, `list_decisions`, `list_segments` (which
  never shows what `create_segment` stores, having no tenant), listings of
  customers and campaigns: one query and a layout of its result.
* **Migrations**: run once, by hand; their keys are in the models.
* Of modelled parts: rendering of messages, prompts and sample rows, parsing
  of CSV, wording; the scores that a load upserts after its orders; the
  channel argument of `estimate_campaign`; the rounding of floats (rates are
  exact fractions rounded half to even, and `round` of a double may differ in
  the last place); dead code (`_parse_proposal`). Dead letters are lost with
  the process, which is in the model; the rate limiter's table grows with
  every key it sees, which is not.

## 6. Plan

Done, the most important behaviour first: receipts, rate limiter, dispatch,
channel, ingest, the AI services with segment trees, segments and campaigns
with their deletion. Left to model, if anything: `Channel` composed with
`ReceiptLog` (the final status of a communication is the best event of its
plan that was not given up).

Proved: every safety invariant and action property that a passing run checks.
