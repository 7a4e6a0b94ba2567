-------------------------------- MODULE Agent --------------------------------
(***************************************************************************)
(* The requests that ask a language model (ai_service, routers/ai) and the *)
(* segment preview, whose counts nl_to_segment shares.  Requests of this   *)
(* kind have nothing in common but the customers they read, so one is      *)
(* followed at a time, beside changes to the customers.  Every query is a  *)
(* statement of its own and sees the customers of that moment.             *)
(***************************************************************************)
EXTENDS SegmentTree, Gateway

CONSTANTS
    Requests,        \* the requests there may be: a kind and, to preview, a definition
    Texts,           \* what a model may write, by kind of request
    Populations,     \* what the customers may change to
    MaxChanges,      \* bound: changes of the customers during a request
    Statistics,      \* what campaign_stats may find: a count for each status
    MaxIterations    \* MAX_AGENT_ITERATIONS

Kinds == {"segment", "draft", "insight", "propose", "preview"}
Tools == {"query_segment", "score_risk", "estimate_campaign"}

ASSUME AgentAssumption ==
    /\ \A r \in Requests : r.kind \in Kinds /\ IsTree(r.definition)
    /\ \A k \in Kinds : \A t \in Texts[k] :
           t.form \in {"tool", "proposal", "output"} => IsTree(t.definition)
    /\ Populations \subseteq SUBSET Customers /\ \A P \in Populations : IsFiniteSet(P)
    /\ MaxChanges \in Nat /\ MaxIterations \in Nat \ {0}

VARIABLES
    population,    \* the customers in the database
    changes,       \* how often they changed since the request came
    request,       \* the request
    stage,         \* what it waits for
    heard,         \* the texts that its calls returned: the conversation so far
    facts,         \* insight: the numbers that may be cited
    agent,         \* propose: seen_calls, tool_trace, tools_called, expected_impact
    definition,    \* the definition being counted
    counts,        \* full, total, by leaf the count and audience_without
    answer         \* the HTTP status of the answer, 0 before

local == <<request, heard, facts, agent, definition, counts>>
vars  == <<population, changes, stage, local, answer, call, posts>>

Nobody   == [kind |-> "none", definition |-> NoTree]
NewAgent == [seen |-> {}, trace |-> <<>>, called |-> 0, impact |-> 0]
Uncounted == [full |-> 0, total |-> 0, alone |-> NoTree, without |-> NoTree]

Init ==
    /\ population \in Populations
    /\ changes = 0
    /\ request = Nobody
    /\ stage = "idle"
    /\ heard = <<>>
    /\ facts = {}
    /\ agent = NewAgent
    /\ definition = NoTree
    /\ counts = Uncounted
    /\ answer = 0
    /\ call = Resting
    /\ posts = NoPosts

Count(S) == Cardinality(S \cap population)

Goto(s) == stage' = s /\ UNCHANGED answer
Reply(status) == stage' = "done" /\ answer' = status

\* The routers: SegmentCompileError and the generation errors are 422; what
\* nobody catches is 500.
StatusOf(verdict) == IF verdict = "rejected" THEN 422 ELSE 500

-----------------------------------------------------------------------------
\* Requests. Each kind checks what it needs before it asks or counts anything.
Receive(r, kind) ==
    /\ stage = "idle"
    /\ r.kind = kind
    /\ request' = r
    /\ changes' = 0
    /\ UNCHANGED <<population, heard, agent, counts, call, posts>>

ReceivePreview(r) ==
    /\ Receive(r, "preview")
    /\ definition' = r.definition
    /\ LET verdict == IF WellFormed(r.definition) THEN Verdict(r.definition) ELSE "rejected"
       IN  IF verdict = "ok" THEN Goto("full") ELSE Reply(StatusOf(verdict))
    /\ UNCHANGED facts

ReceivePrompt(r) == Receive(r, "segment") /\ Goto("ask") /\ UNCHANGED <<facts, definition>>

ReceiveGoal(r) == Receive(r, "propose") /\ Goto("ask") /\ UNCHANGED <<facts, definition>>

ReceiveDraft(r) ==
    /\ Receive(r, "draft")
    /\ \E found \in BOOLEAN : IF found THEN Goto("ask") ELSE Reply(404)
    /\ UNCHANGED <<facts, definition>>

\* Half-even division, as round does it; see the README on floats.
Rounded(n, d) ==
    LET q == n \div d
        r == 2 * (n % d)
    IN  IF r > d \/ (r = d /\ q % 2 = 1) THEN q + 1 ELSE q

\* campaign_stats: the total, and the failure rate in units of 0.0001.
Total(s) == s.queued + s.failed + s.converted
FailureRate(s) == IF Total(s) = 0 THEN 0 ELSE Rounded(s.failed * 10000, Total(s))

InsightFacts(s) ==
    {Total(s), s.queued, s.failed, s.converted, 0, s.audience, Rounded(FailureRate(s), 100)}
    \cup {IF Total(s) = 0 THEN 0 ELSE Rounded(s.converted * 100, Total(s))}

ReceiveInsight(r) ==
    /\ Receive(r, "insight")
    /\ \/ Reply(404) /\ UNCHANGED facts
       \/ \E s \in Statistics : facts' = InsightFacts(s) /\ Goto("ask")
    /\ UNCHANGED definition

-----------------------------------------------------------------------------
\* Calls.
Ask ==
    /\ stage = "ask"
    /\ Complete
    /\ Goto("wait")
    /\ UNCHANGED <<population, changes, local>>

Wait ==
    /\ stage = "wait"
    /\ GatewayStep(Texts[request.kind])
    /\ UNCHANGED <<population, changes, stage, local, answer>>

\* LLMUnavailableError, and an exception out of the gateway.
CallFailed ==
    /\ stage = "wait"
    /\ \/ call.state = "unavailable" /\ Reply(503)
       \/ call.state = "broken" /\ Reply(500)
    /\ Over
    /\ UNCHANGED <<population, changes, local>>

-----------------------------------------------------------------------------
\* _parse, _parse_draft and the parse of campaign_insight with _check_grounded.
ParseSegment(text) ==
    IF text.form = "output" /\ WellFormed(text.definition) THEN Verdict(text.definition)
    ELSE "rejected"

ParseDraft(text) == IF text.form = "output" THEN "ok" ELSE "rejected"

ParseInsight(text) ==
    IF text.form = "output" /\ text.cited \subseteq facts THEN "ok" ELSE "rejected"

Parse(text) ==
    CASE request.kind = "segment" -> ParseSegment(text)
      [] request.kind = "draft"   -> ParseDraft(text)
      [] request.kind = "insight" -> ParseInsight(text)

Hear(kinds) ==
    /\ stage = "wait"
    /\ request.kind \in kinds
    /\ call.state = "answered"
    /\ heard' = Append(heard, call.text)
    /\ Over
    /\ UNCHANGED <<population, changes, request, facts, counts>>

\* Wrong on purpose: repairs until the output is valid.
RepairForever(verdict) == verdict = "rejected"

\* One repair of an invalid output; a second one is the answer.
Repairs(verdict) == verdict = "rejected" /\ heard = <<>>

Generate ==
    /\ Hear({"segment", "draft", "insight"})
    /\ LET verdict == Parse(call.text)
       IN  /\ IF Repairs(verdict) THEN Goto("ask")
              ELSE IF verdict # "ok" THEN Reply(StatusOf(verdict))
              ELSE IF request.kind = "segment" THEN Goto("full") ELSE Reply(200)
           /\ definition' = IF verdict = "ok" /\ request.kind = "segment"
                            THEN call.text.definition ELSE definition
    /\ UNCHANGED agent

-----------------------------------------------------------------------------
\* The agent loop of propose_campaign: one turn per text.
NextTurn == IF Len(heard') < MaxIterations THEN Goto("ask") ELSE Reply(422)

\* json.loads raises for prose; a JSON list has no get.
TurnUnreadable ==
    /\ Hear({"propose"})
    /\ \/ call.text.form = "prose" /\ Reply(422)
       \/ call.text.form = "list" /\ Reply(500)
    /\ UNCHANGED <<agent, definition>>

\* Wrong on purpose: a turn that does not count.
TurnIgnored ==
    /\ stage = "wait" /\ request.kind = "propose" /\ call.state = "answered"
    /\ call.text.form \in {"other", "output"}
    /\ Goto("ask") /\ Over
    /\ UNCHANGED <<population, changes, local>>

\* No action, also in the bare proposal that the tests script: a message, another turn.
TurnUnknown ==
    /\ Hear({"propose"})
    /\ call.text.form \in {"other", "output"}
    /\ NextTurn
    /\ UNCHANGED <<agent, definition>>

TurnPropose ==
    /\ Hear({"propose"})
    /\ call.text.form = "proposal"
    /\ LET d == call.text.definition
           verdict == IF WellFormed(d) THEN Verdict(d) ELSE "rejected"
       IN  IF agent.called < 2 THEN NextTurn /\ UNCHANGED definition
           ELSE IF verdict # "ok" THEN Reply(StatusOf(verdict)) /\ UNCHANGED definition
           ELSE Goto("size") /\ definition' = d
    /\ UNCHANGED agent

\* _execute_tool. An exception, whatever it is, becomes an error that the model
\* is told; an unknown tool is an error too.
ToolResult(tool, d) ==
    IF tool \in Tools /\ WellFormed(d) /\ Verdict(d) = "ok"
    THEN [error |-> FALSE, found |-> Count(Selected(d))] ELSE [error |-> TRUE, found |-> 0]

\* Wrong on purpose: counts every call, also the one it did not make.
CountsRepeats(tool, d) ==
    IF <<tool, d>> \in agent.seen THEN [agent EXCEPT !.called = @ + 1]
    ELSE [agent EXCEPT !.seen = @ \cup {<<tool, d>>}, !.called = @ + 1,
                       !.trace = Append(@, [tool |-> tool, definition |-> d,
                                            result |-> ToolResult(tool, d)])]

\* The bookkeeping of a tool call. impact is the place in the trace of the
\* estimate that expected_impact holds. A call made before changes nothing.
AfterTool(tool, d) ==
    LET result == ToolResult(tool, d)
        estimate == tool = "estimate_campaign" /\ ~result.error
    IN  IF <<tool, d>> \in agent.seen THEN agent
        ELSE [seen   |-> agent.seen \cup {<<tool, d>>},
              trace  |-> Append(agent.trace, [tool |-> tool, definition |-> d, result |-> result]),
              called |-> agent.called + 1,
              impact |-> IF estimate THEN Len(agent.trace) + 1 ELSE agent.impact]

TurnTool ==
    /\ Hear({"propose"})
    /\ call.text.form = "tool"
    /\ agent' = AfterTool(call.text.tool, call.text.definition)
    /\ NextTurn
    /\ UNCHANGED definition

\* The audience of the proposal, which nothing stores.
SizeProposal ==
    /\ stage = "size"
    /\ counts' = [counts EXCEPT !.full = Count(Selected(definition))]
    /\ Reply(200)
    /\ UNCHANGED <<population, changes, request, heard, facts, agent, definition, call, posts>>

-----------------------------------------------------------------------------
\* Counts of preview and nl_to_segment, one statement each.
Counting(s) ==
    /\ stage = s
    /\ UNCHANGED <<population, changes, request, heard, facts, agent, definition, call, posts>>

CountFull ==
    /\ Counting("full")
    /\ counts' = [counts EXCEPT !.full = Count(Selected(definition))]
    /\ Goto("total")

CountTotal ==
    /\ Counting("total")
    /\ counts' = [counts EXCEPT !.total = Cardinality(population)]
    /\ Goto("leaf")

With(f, p, n) == [q \in DOMAIN f \cup {p} |-> IF q = p THEN n ELSE f[q]]

CurrentLeaf == FirstLeaf(LeafPaths(definition) \ DOMAIN counts.without)

CountLeaf ==
    /\ Counting("leaf")
    /\ counts' = [counts EXCEPT
           !.alone = With(@, CurrentLeaf, Count(Matching[definition[CurrentLeaf]]))]
    /\ Goto("without")

\* Wrong on purpose: no constraints left taken for nobody left.
NobodyWithout(pruned) == IF pruned = NoTree THEN 0 ELSE Count(Selected(pruned))

AudienceWithout(pruned) == IF pruned = NoTree THEN counts.total ELSE Count(Selected(pruned))

CountWithout ==
    /\ Counting("without")
    /\ counts' = [counts EXCEPT
           !.without = With(@, CurrentLeaf, AudienceWithout(RemoveAtPath(definition, CurrentLeaf)))]
    /\ IF LeafPaths(definition) = DOMAIN counts'.without THEN Reply(200) ELSE Goto("leaf")

-----------------------------------------------------------------------------
\* Orders, uploads and receipts change who the customers are. What a rule matches is
\* fixed; a customer that a rule on dates drops between two counts, because _cutoff
\* takes now() at each, is a change of the customers too.
ChangeCustomers ==
    /\ stage # "idle"
    /\ changes < MaxChanges
    /\ population' \in Populations \ {population}
    /\ changes' = changes + 1
    /\ UNCHANGED <<stage, local, answer, call, posts>>

Return ==
    /\ stage = "done"
    /\ request' = Nobody /\ stage' = "idle" /\ heard' = <<>> /\ facts' = {} /\ agent' = NewAgent
    /\ definition' = NoTree /\ counts' = Uncounted /\ answer' = 0 /\ changes' = 0
    /\ UNCHANGED <<population, call, posts>>

Serve ==
    \/ Ask \/ Wait \/ CallFailed \/ Generate
    \/ TurnUnreadable \/ TurnUnknown \/ TurnPropose \/ TurnTool \/ SizeProposal
    \/ CountFull \/ CountTotal \/ CountLeaf \/ CountWithout

Next ==
    \/ \E r \in Requests :
           ReceivePreview(r) \/ ReceivePrompt(r) \/ ReceiveGoal(r) \/ ReceiveDraft(r)
           \/ ReceiveInsight(r)
    \/ Serve
    \/ ChangeCustomers
    \/ Return

Spec == Init /\ [][Next]_vars

\* The event loop runs every coroutine that can run, and a post ends: httpx
\* gives up after its timeout.
LiveSpec == Spec /\ WF_vars(Serve)
-----------------------------------------------------------------------------
(* Properties.                                                               *)

Generated == {"segment", "draft", "insight"}
Valid(text) == Parse(text) = "ok"

(* A generated answer is repaired once and no more: 200 means that the last    *)
(* text was valid and any text before it was not, 422 that two texts were      *)
(* asked for and both were invalid, and no third text is ever asked for, nor a *)
(* second after a valid one (_generate, ai_service.py:57-74).                  *)
RepairedOnce ==
    request.kind \in Generated =>
        /\ Len(heard) <= 2
        /\ Len(heard) = 2 => Parse(heard[1]) = "rejected"
        /\ answer = 200 => heard # <<>> /\ Valid(heard[Len(heard)])
        /\ answer = 422 => Len(heard) = 2 /\ Parse(heard[2]) = "rejected"

(* A proposal is returned only for a definition that compiles, within the      *)
(* iterations there are, after two different tool calls or more that were made *)
(* and are in its trace, none of them twice; and its expected impact is that   *)
(* of the last estimate in the trace that did not fail (ai_service.py:426-520).*)
(* The tests expect a proposal without any tool call; BareProposalIsReturned   *)
(* states that, and does not hold.                                             *)
ProposalIsEarned ==
    request.kind = "propose" /\ answer = 200 =>
        LET trace == agent.trace
            key(i) == <<trace[i].tool, trace[i].definition>>
            good == {i \in DOMAIN trace :
                         trace[i].tool = "estimate_campaign" /\ ~trace[i].result.error}
        IN  /\ Verdict(definition) = "ok"
            /\ heard[Len(heard)].definition = definition
            /\ Len(heard) <= MaxIterations
            /\ Cardinality({key(i) : i \in DOMAIN trace}) >= 2
            /\ \A i, j \in DOMAIN trace : key(i) = key(j) => i = j
            /\ \A i \in good : i <= agent.impact
            /\ agent.impact \in good \cup {0}

(* What is counted without a leaf is the definition with exactly the other     *)
(* leaves: no group of it is empty, it still compiles, and it is no tree at    *)
(* all only for a single leaf (segment_compiler.py:136-157).                   *)
PruningIsExact ==
    stage = "full" =>
        \A p \in LeafPaths(definition) :
            LET pruned == RemoveAtPath(definition, p)
            IN  /\ LeafPaths(pruned) = LeafPaths(definition) \ {p}
                /\ IF pruned = NoTree THEN LeafPaths(definition) = {p}
                   ELSE WellFormed(pruned) /\ Verdict(pruned) = "ok"

(* While the customers do not change, a rule under an effective AND, and a     *)
(* lone rule, can only keep customers out, and a rule under an effective OR    *)
(* can only let customers in: the marginal impact has that sign, whatever the  *)
(* nesting (segment_preview.py:28-48).                                         *)
MarginalSign ==
    stage = "done" /\ answer = 200 /\ request.kind \in {"preview", "segment"} /\ changes = 0 =>
        \A p \in LeafPaths(definition) :
            LET group == Deciding(definition, p)
            IN  IF group # <<0>> /\ definition[group] = "OR"
                THEN counts.without[p] <= counts.full
                ELSE counts.without[p] >= counts.full

(* Every request is answered, whatever the model writes and however the        *)
(* providers fail (ai_service.py:426-535, llm_client.py:59-85).                *)
RequestsEnd == (stage # "idle") ~> (stage = "done")

(* What test_ai_propose_campaign.py:85-104 and 107-114 expect of               *)
(* propose_campaign: a model that writes a valid proposal, with no tool call   *)
(* and no action, at once or after one output that is not JSON, is answered    *)
(* 200 and not 422.                                                            *)
BareProposalIsReturned ==
    request.kind = "propose" /\ answer = 422 =>
        ~\E i \in DOMAIN heard : ParseSegment(heard[i]) = "ok"
-----------------------------------------------------------------------------
(***************************************************************************)
(* The inductive invariant: what is known of a request at each of its      *)
(* stages.                                                                 *)
(***************************************************************************)
AllTexts == UNION {Texts[k] : k \in Kinds}
Calls == {t \in AllTexts : t.form = "tool"}
ToolNames == {t.tool : t \in Calls}
Arguments == {t.definition : t \in Calls}
Sizes == {Cardinality(S) : S \in SUBSET Customers} \cup {0}
Entries == [tool : ToolNames, definition : Arguments, result : [error : BOOLEAN, found : Sizes]]

Countings == {"full", "total", "leaf", "without"}
Stages == {"idle", "ask", "wait", "size", "done"} \cup Countings

TypeOK ==
    /\ population \in SUBSET Customers
    /\ request \in Requests \cup {Nobody}
    /\ stage \in Stages
    /\ heard \in Seq(AllTexts)
    /\ agent \in [seen : SUBSET (ToolNames \X Arguments), trace : Seq(Entries),
                  called : Nat, impact : Nat]
    /\ answer \in {0, 200, 404, 422, 500, 503}

StageOK ==
    /\ stage = "idle" => heard = <<>> /\ agent = NewAgent
    /\ stage # "done" => answer = 0
    /\ stage \in {"ask", "wait"} => request.kind \in Generated \cup {"propose"}
    /\ stage = "size" => request.kind = "propose"
    /\ stage \in Countings => request.kind \in {"preview", "segment"}
    /\ stage # "wait" => call = Resting

\* The texts heard before the last one were not valid.
TextsOK ==
    request.kind \in Generated =>
        /\ RepairedOnce
        /\ stage \in {"ask", "wait"} => /\ Len(heard) <= 1
                                        /\ heard # <<>> => Parse(heard[1]) = "rejected"
        /\ stage \in Countings => heard # <<>> /\ Valid(heard[Len(heard)])

\* The key of a call in a trace, and the estimates in it that did not fail.
Key(e) == <<e.tool, e.definition>>
Estimates(trace) ==
    {i \in DOMAIN trace : trace[i].tool = "estimate_campaign" /\ ~trace[i].result.error}

TraceOK ==
    LET trace == agent.trace
    IN  /\ agent.called = Len(trace)
        /\ agent.seen = {Key(trace[i]) : i \in DOMAIN trace}
        /\ \A i, j \in DOMAIN trace : Key(trace[i]) = Key(trace[j]) => i = j
        /\ \A i \in Estimates(trace) : i <= agent.impact
        /\ agent.impact \in Estimates(trace) \cup {0}

TurnsOK ==
    request.kind = "propose" =>
        /\ stage \in {"ask", "wait"} => Len(heard) < MaxIterations
        /\ stage = "size" \/ answer = 200 =>
               /\ heard # <<>> /\ Len(heard) <= MaxIterations
               /\ agent.called >= 2
               /\ Verdict(definition) = "ok"
               /\ heard[Len(heard)].definition = definition

IInv == TypeOK /\ CallOK(AllTexts) /\ StageOK /\ TextsOK /\ TraceOK /\ TurnsOK

\* The answer is a preview.
Shown == answer = 200 /\ request.kind \in {"preview", "segment"}

\* Only what compiles is counted.
DefinitionOK ==
    stage \in Countings \/ Shown =>
        IsTree(definition) /\ WellFormed(definition) /\ Verdict(definition) = "ok"

\* The counts are of the customers there are, unless they changed meanwhile.
CountsOK ==
    /\ population \in Populations /\ changes \in Nat
    /\ counts = [full |-> counts.full, total |-> counts.total,
                 alone |-> counts.alone, without |-> counts.without]
    /\ stage \in {"idle", "ask", "wait", "full", "total"} => counts.without = NoTree
    /\ Shown => LeafPaths(definition) = DOMAIN counts.without
    /\ changes = 0 /\ (stage \in {"total", "leaf", "without"} \/ Shown) =>
           counts.full = Count(Selected(definition))
    /\ changes = 0 /\ (stage \in {"leaf", "without"} \/ Shown) =>
           /\ counts.total = Cardinality(population)
           /\ \A p \in DOMAIN counts.without :
                  counts.without[p] = AudienceWithout(RemoveAtPath(definition, p))

PreviewInv == DefinitionOK /\ CountsOK
=============================================================================
