---------------------------- MODULE Agent_proofs ----------------------------
(***************************************************************************)
(* Proofs about Agent and the Gateway under it, for every bound, every set *)
(* of texts a model may write and whatever a definition means: the call    *)
(* falls back in order, an invalid answer is repaired once, and a proposal *)
(* rests on tool calls that were made.                                     *)
(***************************************************************************)
EXTENDS Agent, SegmentTree_proofs

-----------------------------------------------------------------------------
(* The gateway. *)

\* What a post leaves behind: one more outcome for the provider asked.
LEMMA PostEffect ==
    ASSUME NEW texts, CallOK(texts), NEW outcome \in Outcomes, Post(outcome)
    PROVE  LET s == posts'[call.provider]
           IN  /\ posts' \in [Providers -> Seq(Outcomes)]
               /\ \A p \in Providers \ {call.provider} : posts'[p] = posts[p]
               /\ OneMore(s, call.attempt, {outcome})
               /\ outcome = "failed" => OnlyFailures(s, call.attempt)
<1> DEFINE s == posts[call.provider]
           n == call.attempt
<1>1. /\ call.state = "posting" /\ call.provider \in Providers /\ n \in 1..MaxAttempts
      /\ posts \in [Providers -> Seq(Outcomes)]
      /\ posts' = [posts EXCEPT ![call.provider] = Append(s, outcome)]
  BY DEF Post, CallOK, GatewayTypeOK
<1>2. OnlyFailures(s, n - 1)
  BY <1>1 DEF CallOK
<1>3. s \in Seq(Outcomes) /\ n \in Nat /\ n >= 1
  BY <1>1, GatewayAssumption
<1>4. /\ posts' \in [Providers -> Seq(Outcomes)]
      /\ \A p \in Providers \ {call.provider} : posts'[p] = posts[p]
      /\ posts'[call.provider] = Append(s, outcome)
  <2>1. Append(s, outcome) \in Seq(Outcomes)
    BY <1>3
  <2> QED
    BY <1>1, <2>1
<1> HIDE DEF s, n
<1>5. /\ Len(s) = n - 1 /\ Len(Append(s, outcome)) = n
      /\ Append(s, outcome)[n] = outcome
      /\ \A i \in 1..(n - 1) : Append(s, outcome)[i] = "failed"
  BY <1>2, <1>3 DEF OnlyFailures
<1>6. OneMore(Append(s, outcome), n, {outcome})
  BY <1>5 DEF OneMore
<1>7. outcome = "failed" => OnlyFailures(Append(s, outcome), n)
  BY <1>3, <1>5 DEF OnlyFailures
<1> QED
  BY <1>4, <1>6, <1>7 DEF s, n

\* Once the provider asked is given up, the next one or nobody is asked.
LEMMA NextProviderOK ==
    ASSUME NEW texts, CallOK(texts), call.state = "posting", call' = NextProvider,
           posts' \in [Providers -> Seq(Outcomes)],
           \A p \in Providers \ {call.provider} : posts'[p] = posts[p],
           \/ OneMore(posts'[call.provider], call.attempt, {"refused"})
           \/ call.attempt = MaxAttempts /\ OneMore(posts'[call.provider], call.attempt, {"failed"})
    PROVE  CallOK(texts)'
<1>1. /\ call \in [state : States, provider : Providers, attempt : 1..MaxAttempts,
                   text : texts \cup {NoText}]
      /\ IF call.provider = 1 THEN posts[2] = <<>> ELSE FirstGivenUp
      /\ MaxAttempts \in Nat /\ 1 \in 1..MaxAttempts
  BY GatewayAssumption DEF CallOK, GatewayTypeOK
<1>2. CASE call.provider = 1
  <2>1. call' = [state |-> "posting", provider |-> 2, attempt |-> 1, text |-> NoText]
    <3>1. call.provider < 2 /\ call.provider + 1 = 2
      BY <1>2
    <3>2. call' = [Resting EXCEPT !.state = "posting", !.provider = 2]
      BY <3>1 DEF NextProvider
    <3> QED
      BY <3>2 DEF Resting
  <2>2. FirstGivenUp'
    BY <1>1, <1>2 DEF FirstGivenUp
  <2>3. posts'[2] = <<>>
    BY <1>1, <1>2 DEF Providers
  <2>4. OnlyFailures(posts'[2], 0)
    BY <2>3 DEF OnlyFailures
  <2>5. GatewayTypeOK(texts)'
    BY <1>1, <2>1 DEF GatewayTypeOK, States, Providers
  <2> QED
    BY <2>1, <2>2, <2>4, <2>5 DEF CallOK
<1>3. CASE call.provider # 1
  <2>1. call.provider = 2
    BY <1>1, <1>3 DEF Providers
  <2>2. /\ call' \in [state : States, provider : Providers, attempt : 1..MaxAttempts,
                      text : texts \cup {NoText}]
        /\ call'.state = "unavailable" /\ call'.provider = 2 /\ call'.attempt = call.attempt
    <3>1. ~(call.provider < 2)
      BY <2>1
    <3>2. call' = [call EXCEPT !.state = "unavailable"]
      BY <3>1 DEF NextProvider
    <3> QED
      BY <1>1, <2>1, <3>2 DEF States
  <2>3. FirstGivenUp'
    BY <1>1, <2>1, SMTT(30) DEF FirstGivenUp, Providers
  <2>4. GatewayTypeOK(texts)'
    BY <2>2 DEF GatewayTypeOK
  <2> QED
    BY <2>1, <2>2, <2>3, <2>4 DEF CallOK
<1> QED
  BY <1>2, <1>3

\* No step of a call in progress disturbs what its posts say of it.
LEMMA GatewayStepOK ==
    ASSUME NEW texts, NEW some \in SUBSET texts, CallOK(texts), GatewayStep(some)
    PROVE  CallOK(texts)'
<1>1. /\ call \in [state : States, provider : Providers, attempt : 1..MaxAttempts,
                   text : texts \cup {NoText}]
      /\ IF call.provider = 1 THEN posts[2] = <<>> ELSE FirstGivenUp
      /\ MaxAttempts \in Nat
  BY GatewayAssumption DEF CallOK, GatewayTypeOK
<1>2. ASSUME NEW outcome \in Outcomes, Post(outcome)
      PROVE  /\ posts' \in [Providers -> Seq(Outcomes)]
             /\ \A p \in Providers \ {call.provider} : posts'[p] = posts[p]
             /\ OneMore(posts'[call.provider], call.attempt, {outcome})
             /\ outcome = "failed" => OnlyFailures(posts'[call.provider], call.attempt)
             /\ call.state = "posting"
             /\ IF call.provider = 1 THEN posts'[2] = <<>> ELSE FirstGivenUp'
  <2>1. /\ posts' \in [Providers -> Seq(Outcomes)]
        /\ \A p \in Providers \ {call.provider} : posts'[p] = posts[p]
        /\ OneMore(posts'[call.provider], call.attempt, {outcome})
        /\ outcome = "failed" => OnlyFailures(posts'[call.provider], call.attempt)
    BY <1>2, PostEffect
  <2> QED
    BY <1>1, <1>2, <2>1 DEF Post, FirstGivenUp, Providers
<1>3. ASSUME NEW text \in some, PostAnswered(text)
      PROVE  CallOK(texts)'
  <2>1. /\ call' \in [state : States, provider : Providers, attempt : 1..MaxAttempts,
                      text : texts \cup {NoText}]
        /\ call'.state = "answered" /\ call'.provider = call.provider
        /\ call'.attempt = call.attempt /\ call'.text = text
    BY <1>1, <1>3 DEF PostAnswered, States
  <2>2. Post("answered") /\ "answered" \in Outcomes
    BY <1>3 DEF PostAnswered, Outcomes
  <2> QED
    BY <1>2, <2>1, <2>2 DEF CallOK, GatewayTypeOK
<1>4. ASSUME PostMalformed
      PROVE  CallOK(texts)'
  <2>1. /\ call' \in [state : States, provider : Providers, attempt : 1..MaxAttempts,
                      text : texts \cup {NoText}]
        /\ call'.state = "broken" /\ call'.provider = call.provider
        /\ call'.attempt = call.attempt
    BY <1>1, <1>4 DEF PostMalformed, States
  <2>2. Post("malformed") /\ "malformed" \in Outcomes
    BY <1>4 DEF PostMalformed, Outcomes
  <2> QED
    BY <1>2, <2>1, <2>2 DEF CallOK, GatewayTypeOK
<1>5. ASSUME PostFailed
      PROVE  CallOK(texts)'
  <2>1. Post("failed") /\ "failed" \in Outcomes /\ call' = AfterFailure
    BY <1>5 DEF PostFailed, Outcomes
  <2>2. CASE call.attempt < MaxAttempts
    <3>1. /\ call' \in [state : States, provider : Providers, attempt : 1..MaxAttempts,
                        text : texts \cup {NoText}]
          /\ call'.state = "sleeping" /\ call'.provider = call.provider
          /\ call'.attempt = call.attempt
      BY <1>1, <2>1, <2>2 DEF AfterFailure, States
    <3> QED
      BY <1>2, <2>1, <2>2, <3>1 DEF CallOK, GatewayTypeOK
  <2>3. CASE ~(call.attempt < MaxAttempts)
    <3>1. call' = NextProvider /\ call.attempt = MaxAttempts
      BY <1>1, <2>1, <2>3 DEF AfterFailure
    <3> QED
      BY <1>2, <2>1, <3>1, NextProviderOK
  <2> QED
    BY <2>2, <2>3
<1>6. ASSUME PostRefused
      PROVE  CallOK(texts)'
  <2>1. Post("refused") /\ "refused" \in Outcomes /\ call' = NextProvider
    BY <1>6 DEF PostRefused, Outcomes
  <2> QED
    BY <1>2, <2>1, NextProviderOK
<1>7. ASSUME Slept
      PROVE  CallOK(texts)'
  <2>1. /\ call.state = "sleeping" /\ posts' = posts /\ call.attempt < MaxAttempts
        /\ OnlyFailures(posts[call.provider], call.attempt)
    BY <1>7 DEF Slept, CallOK
  <2>2. /\ call' \in [state : States, provider : Providers, attempt : 1..MaxAttempts,
                      text : texts \cup {NoText}]
        /\ call'.state = "posting" /\ call'.provider = call.provider
        /\ call'.attempt - 1 = call.attempt
    <3>1. PICK next \in 1..MaxAttempts : next = call.attempt + 1 /\ next - 1 = call.attempt
      BY <1>1, <2>1
    <3>2. call' = [call EXCEPT !.state = "posting", !.attempt = next]
      BY <1>7, <3>1 DEF Slept
    <3> QED
      BY <1>1, <3>1, <3>2 DEF States
  <2> QED
    BY <1>1, <2>1, <2>2 DEF CallOK, GatewayTypeOK, FirstGivenUp
<1> QED
  BY <1>3, <1>4, <1>5, <1>6, <1>7 DEF GatewayStep

\* A call that starts, and one that is over, has no posts.
LEMMA NoPostsOK ==
    ASSUME NEW texts
    PROVE  /\ call = Resting /\ posts = NoPosts => CallOK(texts)
           /\ Complete => CallOK(texts)'
           /\ Over => CallOK(texts)'
<1>1. /\ NoPosts \in [Providers -> Seq(Outcomes)] /\ NoPosts[1] = <<>> /\ NoPosts[2] = <<>>
      /\ Resting = [state |-> "resting", provider |-> 1, attempt |-> 1, text |-> NoText]
      /\ 1 \in 1..MaxAttempts
  BY GatewayAssumption DEF NoPosts, Providers, Resting
<1>2. OnlyFailures(<<>>, 0)
  BY DEF OnlyFailures
<1>3. call = Resting /\ posts = NoPosts => CallOK(texts)
  BY <1>1 DEF CallOK, GatewayTypeOK, States, Providers
<1>4. Over => CallOK(texts)'
  BY <1>1 DEF Over, CallOK, GatewayTypeOK, States, Providers
<1>5. Complete => CallOK(texts)'
  <2> SUFFICES ASSUME Complete PROVE CallOK(texts)'
    OBVIOUS
  <2>1. /\ call' = [state |-> "posting", provider |-> 1, attempt |-> 1, text |-> NoText]
        /\ posts' = NoPosts
    BY <1>1 DEF Complete
  <2> QED
    BY <1>1, <1>2, <2>1 DEF CallOK, GatewayTypeOK, States, Providers
<1> QED
  BY <1>3, <1>4, <1>5

\* What the posts say is what the callers rely on.
LEMMA CallInOrder ==
    ASSUME NEW texts, CallOK(texts)
    PROVE  FallbackInOrder
<1> DEFINE s == posts[call.provider]
           n == call.attempt
<1>1. /\ call.state \in States /\ call.provider \in {1, 2} /\ n \in 1..MaxAttempts
      /\ \A p \in Providers : posts[p] \in Seq(Outcomes)
      /\ MaxAttempts \in Nat \ {0} /\ Providers = {1, 2} /\ call.provider \in Providers
  BY GatewayAssumption DEF CallOK, GatewayTypeOK, Providers
<1>2. IF call.provider = 1 THEN posts[2] = <<>> ELSE FirstGivenUp
  BY DEF CallOK
<1>3. FirstGivenUp => /\ GivenUp(1) /\ Len(posts[1]) <= MaxAttempts
                      /\ \A i \in 1..(Len(posts[1]) - 1) : posts[1][i] = "failed"
  BY <1>1 DEF FirstGivenUp, OneMore, GivenUp
<1>4. posts[2] = <<>> => ~GivenUp(2) /\ Len(posts[2]) = 0
  BY DEF GivenUp
<1>5. /\ Len(s) <= MaxAttempts
      /\ \A i \in 1..(Len(s) - 1) : s[i] = "failed"
      /\ call.state = "unavailable" <=> GivenUp(call.provider)
      /\ call.state = "unavailable" => call.provider = 2
  <2>1. CASE call.state = "resting"
    BY <1>1, <2>1 DEF CallOK, NoPosts, GivenUp
  <2>2. CASE call.state = "posting"
    BY <1>1, <2>2, SMTT(30) DEF CallOK, OnlyFailures, GivenUp
  <2>3. CASE call.state = "sleeping"
    BY <1>1, <2>3, SMTT(30) DEF CallOK, OnlyFailures, GivenUp
  <2>4. CASE call.state = "answered"
    BY <1>1, <2>4, SMTT(30) DEF CallOK, OneMore, GivenUp
  <2>5. CASE call.state = "broken"
    BY <1>1, <2>5, SMTT(30) DEF CallOK, OneMore, GivenUp
  <2>6. CASE call.state = "unavailable"
    BY <1>1, <2>6 DEF CallOK, OneMore, GivenUp
  <2> QED
    BY <1>1, <2>1, <2>2, <2>3, <2>4, <2>5, <2>6 DEF States
<1> HIDE DEF s, n
<1>6. CASE call.provider = 1
  <2>1. ~GivenUp(2) /\ Len(posts[2]) = 0 /\ posts[2] = <<>>
    BY <1>2, <1>4, <1>6
  <2>2. \A i \in 1..(Len(posts[2]) - 1) : posts[2][i] = "failed"
    BY <2>1
  <2> QED
    BY <1>1, <1>5, <1>6, <2>1, <2>2 DEF FallbackInOrder, s
<1>7. CASE call.provider = 2
  <2>1. FirstGivenUp
    BY <1>2, <1>7
  <2> QED
    BY <1>1, <1>3, <1>5, <1>7, <2>1 DEF FallbackInOrder, s
<1> QED
  BY <1>1, <1>6, <1>7

-----------------------------------------------------------------------------
(* What the invariant says of the texts, as an operator of the values it      *)
(* depends on.                                                                *)

ParseOf(kind, cited, text) ==
    CASE kind = "segment" -> IF text.form = "output" /\ WellFormed(text.definition)
                             THEN Verdict(text.definition) ELSE "rejected"
      [] kind = "draft"   -> IF text.form = "output" THEN "ok" ELSE "rejected"
      [] kind = "insight" -> IF text.form = "output" /\ text.cited \subseteq cited
                             THEN "ok" ELSE "rejected"

TextsAre(kind, cited, texts, at, status) ==
    kind \in Generated =>
        /\ Len(texts) <= 2
        /\ Len(texts) = 2 => ParseOf(kind, cited, texts[1]) = "rejected"
        /\ status = 200 => texts # <<>> /\ ParseOf(kind, cited, texts[Len(texts)]) = "ok"
        /\ status = 422 => Len(texts) = 2 /\ ParseOf(kind, cited, texts[2]) = "rejected"
        /\ at \in {"ask", "wait"} => /\ Len(texts) <= 1
                                     /\ texts # <<>> => ParseOf(kind, cited, texts[1]) = "rejected"
        /\ at \in Countings => texts # <<>> /\ ParseOf(kind, cited, texts[Len(texts)]) = "ok"

\* It is what TextsOK says.
LEMMA TextsForm ==
    /\ TextsOK <=> TextsAre(request.kind, facts, heard, stage, answer)
    /\ TextsOK' <=> TextsAre(request'.kind, facts', heard', stage', answer')
    /\ \A t : Parse(t) = ParseOf(request.kind, facts, t)
<1>1. \A t : Parse(t) = ParseOf(request.kind, facts, t)
  BY DEF Parse, ParseSegment, ParseDraft, ParseInsight, ParseOf
<1>2. TextsOK <=> TextsAre(request.kind, facts, heard, stage, answer)
  BY DEF TextsOK, RepairedOnce, Valid, TextsAre, Parse, ParseSegment, ParseDraft, ParseInsight,
         ParseOf
<1>3. TextsOK' <=> TextsAre(request'.kind, facts', heard', stage', answer')
  BY DEF TextsOK, RepairedOnce, Valid, TextsAre, Parse, ParseSegment, ParseDraft, ParseInsight,
         ParseOf
<1> QED
  BY <1>1, <1>2, <1>3

\* Away from a call there are no posts, and nothing that leaves call and posts alone
\* disturbs what is known of them.
LEMMA CallStays ==
    ASSUME CallOK(AllTexts), UNCHANGED <<call, posts>>
    PROVE  CallOK(AllTexts)'
  BY DEF CallOK, GatewayTypeOK, FirstGivenUp

\* The kinds of requests.
LEMMA KindOf ==
    /\ Nobody.kind = "none" /\ Generated \subseteq Kinds
    /\ \A r \in Requests : r.kind \in Kinds
  BY AgentAssumption DEF Nobody, Generated, Kinds

-----------------------------------------------------------------------------
(* Steps of a request. *)

\* A request starts with nothing heard and nothing called.
LEMMA ReceiveStep ==
    ASSUME IInv, NEW kind \in Kinds, NEW r \in Requests, Receive(r, kind),
           \/ stage' = "ask" /\ answer' = 0 /\ kind # "preview"
           \/ stage' = "full" /\ answer' = 0 /\ kind = "preview"
           \/ stage' = "done" /\ kind = "preview" /\ answer' \in {422, 500}
           \/ stage' = "done" /\ kind \in {"draft", "insight"} /\ answer' = 404
    PROVE  IInv'
<1>1. /\ stage = "idle" /\ request' = r /\ r.kind = kind
      /\ UNCHANGED <<population, heard, agent, call, posts>>
  BY DEF Receive
<1>2. heard = <<>> /\ agent = NewAgent /\ call = Resting /\ MaxIterations \in Nat \ {0}
  BY <1>1, AgentAssumption DEF IInv, StageOK
<1>3. TypeOK'
  BY <1>1 DEF IInv, TypeOK, Stages, Countings
<1>4. CallOK(AllTexts)'
  BY <1>1, CallStays DEF IInv
<1>5. StageOK'
  BY <1>1, <1>2 DEF StageOK, Countings, Generated, Kinds
<1>6. TextsOK'
  <2>1. TextsAre(kind, facts', <<>>, stage', answer')
    BY DEF TextsAre, Countings, Generated
  <2> QED
    BY <1>1, <1>2, <2>1, TextsForm
<1>7. TraceOK'
  BY <1>1 DEF IInv, TraceOK
<1>8. TurnsOK'
  BY <1>1, <1>2 DEF TurnsOK
<1> QED
  BY <1>3, <1>4, <1>5, <1>6, <1>7, <1>8 DEF IInv

\* The call starts, goes on, and fails: the request hears nothing.
LEMMA CallingSteps ==
    ASSUME IInv, Ask \/ Wait \/ CallFailed
    PROVE  IInv'
<1>1. CASE Ask
  <2>1. /\ stage = "ask" /\ stage' = "wait" /\ answer' = answer /\ Complete
        /\ UNCHANGED <<population, request, heard, facts, agent, definition>>
    BY <1>1 DEF Ask, Goto, local
  <2>2. TypeOK' /\ StageOK' /\ TraceOK' /\ TurnsOK'
    BY <2>1 DEF IInv, TypeOK, Stages, StageOK, TraceOK, TurnsOK, Countings
  <2>3. CallOK(AllTexts)'
    BY <2>1, NoPostsOK
  <2>4. TextsOK'
    BY <2>1, TextsForm DEF IInv, TextsAre, Countings
  <2> QED
    BY <2>2, <2>3, <2>4 DEF IInv
<1>2. CASE Wait
  <2>1. /\ stage = "wait" /\ GatewayStep(Texts[request.kind])
        /\ UNCHANGED <<population, stage, request, heard, facts, agent, definition, answer>>
    BY <1>2 DEF Wait, local
  <2>2. TypeOK' /\ StageOK' /\ TraceOK' /\ TurnsOK'
    BY <2>1 DEF IInv, TypeOK, Stages, StageOK, TraceOK, TurnsOK, Countings
  <2>3. CallOK(AllTexts)'
    <3>1. request.kind \in Kinds
      BY <2>1 DEF IInv, StageOK, Generated, Kinds
    <3>2. Texts[request.kind] \in SUBSET AllTexts
      BY <3>1 DEF AllTexts
    <3> QED
      BY <2>1, <3>2, GatewayStepOK DEF IInv
  <2>4. TextsOK'
    BY <2>1, TextsForm DEF IInv
  <2> QED
    BY <2>2, <2>3, <2>4 DEF IInv
<1>3. CASE CallFailed
  <2>1. /\ stage = "wait" /\ stage' = "done" /\ answer' \in {500, 503} /\ Over
        /\ UNCHANGED <<population, request, heard, facts, agent, definition>>
    BY <1>3 DEF CallFailed, Reply, local
  <2>2. call' = Resting
    BY <2>1 DEF Over
  <2>3. TypeOK' /\ StageOK' /\ TraceOK' /\ TurnsOK'
    BY <2>1, <2>2 DEF IInv, TypeOK, Stages, StageOK, TraceOK, TurnsOK, Countings
  <2>4. CallOK(AllTexts)'
    BY <2>1, NoPostsOK
  <2>5. TextsOK'
    BY <2>1, TextsForm DEF IInv, TextsAre, Countings
  <2> QED
    BY <2>3, <2>4, <2>5 DEF IInv
<1> QED
  BY <1>1, <1>2, <1>3

\* What hearing a text leaves behind.
LEMMA HearEffect ==
    ASSUME IInv, NEW kinds, Hear(kinds)
    PROVE  /\ stage = "wait" /\ request.kind \in kinds /\ answer = 0
           /\ UNCHANGED <<population, request, facts>>
           /\ call.text \in AllTexts
           /\ heard \in Seq(AllTexts) /\ heard' = Append(heard, call.text)
           /\ heard' \in Seq(AllTexts)
           /\ Len(heard') = Len(heard) + 1 /\ heard'[Len(heard')] = call.text
           /\ \A i \in 1..Len(heard) : heard'[i] = heard[i]
           /\ call' = Resting /\ CallOK(AllTexts)'
<1>1. /\ stage = "wait" /\ request.kind \in kinds /\ call.state = "answered"
      /\ heard' = Append(heard, call.text) /\ Over
      /\ UNCHANGED <<population, request, facts>>
  BY DEF Hear
<1>2. answer = 0 /\ heard \in Seq(AllTexts) /\ call.text \in AllTexts
  BY <1>1 DEF IInv, StageOK, TypeOK, CallOK
<1>3. /\ heard' \in Seq(AllTexts) /\ Len(heard') = Len(heard) + 1
      /\ heard'[Len(heard')] = call.text
      /\ \A i \in 1..Len(heard) : heard'[i] = heard[i]
  BY <1>1, <1>2
<1>4. call' = Resting /\ CallOK(AllTexts)'
  BY <1>1, NoPostsOK DEF Over
<1> QED
  BY <1>1, <1>2, <1>3, <1>4

\* A text that is not valid is repaired if it is the first, and else the answer.
LEMMA GenerateStep ==
    ASSUME IInv, Generate
    PROVE  IInv'
<1> DEFINE verdict == Parse(call.text)
           kind == request.kind
<1>1. /\ Hear({"segment", "draft", "insight"}) /\ agent' = agent
      /\ IF verdict = "rejected" /\ heard = <<>> THEN Goto("ask")
         ELSE IF verdict # "ok" THEN Reply(StatusOf(verdict))
         ELSE IF kind = "segment" THEN Goto("full") ELSE Reply(200)
  BY DEF Generate, Repairs
<1>2. /\ stage = "wait" /\ kind \in Generated /\ answer = 0
      /\ UNCHANGED <<population, request, facts>>
      /\ heard \in Seq(AllTexts) /\ heard' \in Seq(AllTexts)
      /\ Len(heard') = Len(heard) + 1 /\ heard'[Len(heard')] = call.text
      /\ \A i \in 1..Len(heard) : heard'[i] = heard[i]
      /\ call' = Resting /\ CallOK(AllTexts)'
  BY <1>1, HearEffect DEF Generated
<1>3. verdict = ParseOf(kind, facts, call.text)
  BY TextsForm
<1>4. /\ Len(heard) <= 1
      /\ heard # <<>> => ParseOf(kind, facts, heard[1]) = "rejected"
  BY <1>2, TextsForm DEF IInv, TextsAre
<1> HIDE DEF verdict
<1>5. \/ stage' = "ask" /\ answer' = 0 /\ verdict = "rejected" /\ heard = <<>>
      \/ stage' = "done" /\ answer' = 422 /\ verdict = "rejected" /\ heard # <<>>
      \/ stage' = "done" /\ answer' = 500
      \/ stage' = "full" /\ answer' = 0 /\ verdict = "ok" /\ kind = "segment"
      \/ stage' = "done" /\ answer' = 200 /\ verdict = "ok"
  BY <1>1, <1>2 DEF Goto, Reply, StatusOf
<1>6. TypeOK'
  BY <1>1, <1>2, <1>5 DEF IInv, TypeOK, Stages, Countings
<1>7. StageOK'
  BY <1>2, <1>5 DEF StageOK, Generated, Countings
<1>8. TextsOK'
  <2>1. TextsAre(kind, facts, heard', stage', answer')
    <3>1. CASE heard = <<>>
      <4>1. Len(heard') = 1 /\ heard'[1] = call.text /\ heard' # <<>>
        <5>1. Len(heard) = 0
          BY <3>1, EmptySeq
        <5>2. Len(heard') = 1 /\ heard'[1] = call.text
          BY <1>2, <5>1
        <5>3. Len(<<>>) = 0
          BY EmptySeq
        <5> QED
          BY <5>2, <5>3
      <4> HIDE DEF kind
      <4> QED
        BY <1>3, <1>5, <3>1, <4>1 DEF TextsAre, Countings
    <3>2. CASE heard # <<>>
      <4>1. Len(heard) # 0 /\ Len(heard) \in Nat
        BY <1>2, <3>2, EmptySeq
      <4>2. Len(heard) = 1
        BY <1>4, <4>1
      <4>3. Len(heard') = 2 /\ heard'[2] = call.text /\ heard'[1] = heard[1] /\ heard' # <<>>
        BY <1>2, <4>2
      <4> HIDE DEF kind
      <4> QED
        BY <1>3, <1>4, <1>5, <3>2, <4>3 DEF TextsAre, Countings
    <3> QED
      BY <3>1, <3>2
  <2> QED
    BY <1>2, <2>1, TextsForm
<1>9. TraceOK'
  BY <1>1 DEF IInv, TraceOK
<1>10. TurnsOK'
  BY <1>2 DEF TurnsOK, Generated
<1> QED
  BY <1>2, <1>6, <1>7, <1>8, <1>9, <1>10 DEF IInv

\* A turn of the agent that is not a proposal: the request goes on while there are
\* iterations left, or is answered with 422, or 500 for a text that cannot be read.
LEMMA TurnEffect ==
    ASSUME IInv, Hear({"propose"}), TraceOK', TypeOK',
           \/ NextTurn
           \/ stage' = "done" /\ answer' \in {422, 500}
    PROVE  IInv'
<1>1. /\ stage = "wait" /\ request.kind = "propose" /\ answer = 0
      /\ request' = request
      /\ call' = Resting /\ CallOK(AllTexts)'
  BY HearEffect
<1>2. \/ Len(heard') < MaxIterations /\ stage' = "ask" /\ answer' = 0
      \/ stage' = "done" /\ answer' \in {422, 500}
  BY <1>1 DEF NextTurn, Goto, Reply
<1>3. StageOK'
  BY <1>1, <1>2 DEF StageOK, Countings
<1>4. TextsOK'
  BY <1>1 DEF TextsOK, Generated
<1>5. TurnsOK'
  BY <1>1, <1>2 DEF TurnsOK
<1> QED
  BY <1>1, <1>3, <1>4, <1>5 DEF IInv

\* The type of a state in which one more text was heard and the agent has not moved.
LEMMA HeardType ==
    ASSUME IInv, NEW kinds, Hear(kinds), agent' = agent,
           stage' \in Stages, answer' \in {0, 200, 404, 422, 500, 503}
    PROVE  TypeOK' /\ TraceOK'
<1>1. heard' \in Seq(AllTexts) /\ UNCHANGED <<population, request>>
  BY HearEffect
<1> QED
  BY <1>1 DEF IInv, TypeOK, TraceOK

\* Turns that neither call a tool nor propose.
LEMMA IdleTurns ==
    ASSUME IInv, TurnUnreadable \/ TurnUnknown
    PROVE  IInv'
<1>1. Hear({"propose"}) /\ agent' = agent
  BY DEF TurnUnreadable, TurnUnknown
<1>2. answer = 0
  BY <1>1, HearEffect
<1>3. \/ NextTurn
      \/ stage' = "done" /\ answer' \in {422, 500}
  BY DEF TurnUnreadable, TurnUnknown, Reply
<1>4. stage' \in Stages /\ answer' \in {0, 200, 404, 422, 500, 503}
  BY <1>2, <1>3 DEF NextTurn, Goto, Reply, Stages
<1> QED
  BY <1>1, <1>3, <1>4, HeardType, TurnEffect

\* A proposal is looked at only after two calls, and only a definition that compiles
\* goes on to be sized.
LEMMA ProposeStep ==
    ASSUME IInv, TurnPropose
    PROVE  IInv'
<1> DEFINE d == call.text.definition
           verdict == IF WellFormed(d) THEN Verdict(d) ELSE "rejected"
<1>1. /\ Hear({"propose"}) /\ agent' = agent
      /\ IF agent.called < 2 THEN NextTurn /\ UNCHANGED definition
         ELSE IF verdict # "ok" THEN Reply(StatusOf(verdict)) /\ UNCHANGED definition
         ELSE Goto("size") /\ definition' = d
  BY DEF TurnPropose
<1>2. /\ stage = "wait" /\ request.kind = "propose" /\ answer = 0
      /\ request' = request
      /\ heard \in Seq(AllTexts) /\ heard' \in Seq(AllTexts)
      /\ Len(heard') = Len(heard) + 1 /\ heard'[Len(heard')] = call.text
      /\ call' = Resting /\ CallOK(AllTexts)'
  BY <1>1, HearEffect
<1>3. agent.called \in Nat
  BY DEF IInv, TypeOK
<1> HIDE DEF verdict, d
<1>4. CASE agent.called < 2
  <2>1. NextTurn
    BY <1>1, <1>4
  <2>2. stage' \in Stages /\ answer' \in {0, 200, 404, 422, 500, 503}
    BY <1>2, <2>1 DEF NextTurn, Goto, Reply, Stages
  <2> QED
    BY <1>1, <2>1, <2>2, HeardType, TurnEffect
<1>5. CASE ~(agent.called < 2) /\ verdict # "ok"
  <2>1. stage' = "done" /\ answer' \in {422, 500}
    BY <1>1, <1>5 DEF Reply, StatusOf
  <2>2. stage' \in Stages /\ answer' \in {0, 200, 404, 422, 500, 503}
    BY <2>1 DEF Stages
  <2> QED
    BY <1>1, <2>1, <2>2, HeardType, TurnEffect
<1>6. CASE ~(agent.called < 2) /\ verdict = "ok"
  <2>1. stage' = "size" /\ answer' = 0 /\ definition' = d
    BY <1>1, <1>2, <1>6 DEF Goto
  <2>2. stage' \in Stages /\ answer' \in {0, 200, 404, 422, 500, 503}
    BY <2>1 DEF Stages
  <2>3. TypeOK' /\ TraceOK'
    BY <1>1, <2>2, HeardType
  <2>4. StageOK'
    BY <1>2, <2>1 DEF StageOK, Countings
  <2>5. TextsOK'
    BY <1>2 DEF TextsOK, Generated
  <2>6. TurnsOK'
    <3>1. Len(heard) < MaxIterations /\ Len(heard) \in Nat /\ MaxIterations \in Nat
      BY <1>2, AgentAssumption DEF IInv, TurnsOK
    <3>2. Len(heard') <= MaxIterations /\ Len(heard') # 0
      BY <1>2, <3>1
    <3>3. heard' # <<>>
      BY <3>2, EmptySeq
    <3>4. agent'.called >= 2
      BY <1>1, <1>3, <1>6
    <3>5. Verdict(definition') = "ok" /\ heard'[Len(heard')].definition = definition'
      BY <1>2, <1>6, <2>1 DEF verdict, d
    <3> QED
      BY <2>1, <3>2, <3>3, <3>4, <3>5 DEF TurnsOK
  <2> QED
    BY <1>2, <2>3, <2>4, <2>5, <2>6 DEF IInv
<1> QED
  BY <1>4, <1>5, <1>6

\* A trace with one more entry, whose key is new.
LEMMA TraceGrows ==
    ASSUME TypeOK, TraceOK, NEW e \in Entries, Key(e) \notin agent.seen,
           agent' = [seen |-> agent.seen \cup {Key(e)}, trace |-> Append(agent.trace, e),
                     called |-> agent.called + 1,
                     impact |-> IF e.tool = "estimate_campaign" /\ ~e.result.error
                                THEN Len(agent.trace) + 1 ELSE agent.impact]
    PROVE  /\ agent' \in [seen : SUBSET (ToolNames \X Arguments), trace : Seq(Entries),
                          called : Nat, impact : Nat]
           /\ TraceOK'
<1> DEFINE trace == agent.trace
           more == Append(trace, e)
           n == Len(trace)
           good == e.tool = "estimate_campaign" /\ ~e.result.error
<1>1. /\ trace \in Seq(Entries) /\ agent.called = n /\ n \in Nat
      /\ agent.seen \in SUBSET (ToolNames \X Arguments) /\ agent.impact \in Nat
      /\ agent.seen = {Key(trace[i]) : i \in DOMAIN trace}
      /\ \A i, j \in DOMAIN trace : Key(trace[i]) = Key(trace[j]) => i = j
      /\ \A i \in Estimates(trace) : i <= agent.impact
      /\ agent.impact \in Estimates(trace) \cup {0}
  BY DEF TypeOK, TraceOK
<1>2. Key(e) \in ToolNames \X Arguments
  BY DEF Key, Entries
<1>3. /\ agent'.seen = agent.seen \cup {Key(e)} /\ agent'.trace = more
      /\ agent'.called = n + 1
      /\ agent'.impact = IF good THEN n + 1 ELSE agent.impact
  BY <1>1
<1>4. /\ more \in Seq(Entries) /\ Len(more) = n + 1 /\ more[n + 1] = e
      /\ \A i \in 1..n : more[i] = trace[i]
      /\ DOMAIN more = 1..(n + 1) /\ DOMAIN trace = 1..n
  BY <1>1
<1>5. agent' \in [seen : SUBSET (ToolNames \X Arguments), trace : Seq(Entries),
                  called : Nat, impact : Nat]
  BY <1>1, <1>2, <1>4
<1> HIDE DEF trace, more, n
<1>6. \A i \in 1..(n + 1) : i \in 1..n \/ i = n + 1
  BY <1>1
<1>7. 1..n \subseteq 1..(n + 1) /\ n + 1 \in 1..(n + 1)
  BY <1>1
<1>8. agent'.seen = {Key(more[i]) : i \in DOMAIN more}
  BY <1>1, <1>3, <1>4, <1>6, <1>7
<1>9. \A i, j \in DOMAIN more : Key(more[i]) = Key(more[j]) => i = j
  BY <1>1, <1>4, <1>6
<1>10. /\ \A i \in 1..n : i \in Estimates(more) <=> i \in Estimates(trace)
       /\ n + 1 \in Estimates(more) <=> good
       /\ Estimates(more) \subseteq 1..(n + 1) /\ Estimates(trace) \subseteq 1..n
  BY <1>4, <1>7 DEF Estimates
<1> HIDE DEF good
<1>11. /\ \A i \in Estimates(more) : i <= agent'.impact
       /\ agent'.impact \in Estimates(more) \cup {0}
  <2>1. CASE good
    <3>1. \A i \in 1..(n + 1) : i <= n + 1
      BY <1>1
    <3> QED
      BY <1>3, <1>10, <2>1, <3>1
  <2>2. CASE ~good
    <3>1. Estimates(more) \subseteq Estimates(trace) /\ Estimates(trace) \subseteq Estimates(more)
      BY <1>6, <1>10, <2>2
    <3> QED
      BY <1>1, <1>3, <2>2, <3>1
  <2> QED
    BY <2>1, <2>2
<1>12. agent'.called = Len(more)
  BY <1>3, <1>4
<1>13. agent'.trace = more
  BY <1>3
<1>14. TraceOK'
  <2>1. /\ agent'.called = Len(agent'.trace)
        /\ agent'.seen = {Key(agent'.trace[i]) : i \in DOMAIN agent'.trace}
    BY <1>8, <1>12, <1>13
  <2>2. \A i, j \in DOMAIN agent'.trace : Key(agent'.trace[i]) = Key(agent'.trace[j]) => i = j
    BY <1>9, <1>13
  <2>3. /\ \A i \in Estimates(agent'.trace) : i <= agent'.impact
        /\ agent'.impact \in Estimates(agent'.trace) \cup {0}
    BY <1>11, <1>13
  <2> QED
    BY <2>1, <2>2, <2>3 DEF TraceOK
<1> QED
  BY <1>5, <1>14

\* A tool call is entered in the trace if it is the first of its kind.
LEMMA ToolStep ==
    ASSUME IInv, TurnTool
    PROVE  IInv'
<1> DEFINE tool == call.text.tool
           d == call.text.definition
           result == ToolResult(tool, d)
           e == [tool |-> tool, definition |-> d, result |-> result]
<1>1. /\ Hear({"propose"}) /\ call.text.form = "tool" /\ agent' = AfterTool(tool, d) /\ NextTurn
  BY DEF TurnTool
<1>2. /\ call.text \in AllTexts /\ answer = 0 /\ UNCHANGED <<population, request>>
      /\ heard' \in Seq(AllTexts)
  BY <1>1, HearEffect
<1>3. stage' \in Stages /\ answer' \in {0, 200, 404, 422, 500, 503}
  BY <1>1, <1>2 DEF NextTurn, Goto, Reply, Stages
<1>4. tool \in ToolNames /\ d \in Arguments
  BY <1>1, <1>2 DEF Calls, ToolNames, Arguments
<1>5. result \in [error : BOOLEAN, found : Sizes]
  <2>1. \A S : Count(S) \in Sizes
    <3>1. \A S : S \cap population \in SUBSET Customers
      BY DEF IInv, TypeOK
    <3> QED
      BY <3>1 DEF Count, Sizes
  <2>2. 0 \in Sizes
    BY DEF Sizes
  <2> QED
    BY <2>1, <2>2 DEF ToolResult
<1>6. e \in Entries /\ Key(e) = <<tool, d>>
  BY <1>4, <1>5 DEF Entries, Key
<1> HIDE DEF tool, d, result
<1>7. CASE <<tool, d>> \in agent.seen
  <2>1. agent' = agent
    BY <1>1, <1>7 DEF AfterTool
  <2> QED
    BY <1>1, <1>3, <2>1, HeardType, TurnEffect
<1>8. CASE <<tool, d>> \notin agent.seen
  <2>1. agent' = [seen   |-> agent.seen \cup {<<tool, d>>},
                  trace  |-> Append(agent.trace, e),
                  called |-> agent.called + 1,
                  impact |-> IF tool = "estimate_campaign" /\ ~result.error
                             THEN Len(agent.trace) + 1 ELSE agent.impact]
    BY <1>1, <1>8 DEF AfterTool, result
  <2>2. e.tool = tool /\ e.result = result
    OBVIOUS
  <2> HIDE DEF e
  <2>3. /\ agent' \in [seen : SUBSET (ToolNames \X Arguments), trace : Seq(Entries),
                       called : Nat, impact : Nat]
        /\ TraceOK'
    BY <1>6, <1>8, <2>1, <2>2, TraceGrows DEF IInv
  <2>4. TypeOK'
    BY <1>2, <1>3, <2>3 DEF IInv, TypeOK
  <2> QED
    BY <1>1, <2>3, <2>4, TurnEffect
<1> QED
  BY <1>7, <1>8

\* A proposal that was earned is sized and returned.
LEMMA SizeStep ==
    ASSUME IInv, SizeProposal
    PROVE  IInv'
<1>1. /\ stage = "size" /\ stage' = "done" /\ answer' = 200
      /\ UNCHANGED <<population, request, heard, facts, agent, definition, call, posts>>
  BY DEF SizeProposal, Reply
<1>2. request.kind = "propose"
  BY <1>1 DEF IInv, StageOK
<1>3. TypeOK' /\ StageOK' /\ TraceOK' /\ TurnsOK'
  BY <1>1, <1>2 DEF IInv, TypeOK, Stages, StageOK, TraceOK, TurnsOK, Countings
<1>4. TextsOK'
  BY <1>1, <1>2 DEF TextsOK, Generated
<1>5. CallOK(AllTexts)'
  BY <1>1, CallStays DEF IInv
<1> QED
  BY <1>3, <1>4, <1>5 DEF IInv

\* Counting ends in 200, and the definition counted came from a valid text.
LEMMA CountSteps ==
    ASSUME IInv, CountFull \/ CountTotal \/ CountLeaf \/ CountWithout
    PROVE  IInv'
<1>1. /\ stage \in Countings
      /\ UNCHANGED <<population, request, heard, facts, agent, definition, call, posts>>
      /\ \/ stage' \in Countings /\ answer' = answer
         \/ stage' = "done" /\ answer' = 200
  BY DEF CountFull, CountTotal, CountLeaf, CountWithout, Counting, Goto, Reply, Countings
<1>2. request.kind \in {"preview", "segment"} /\ answer = 0
  BY <1>1 DEF IInv, StageOK, Countings
<1>3. TypeOK' /\ StageOK' /\ TraceOK' /\ TurnsOK'
  BY <1>1, <1>2 DEF IInv, TypeOK, Stages, StageOK, TraceOK, TurnsOK, Countings
<1>4. TextsOK'
  <2>1. TextsAre(request.kind, facts, heard, stage, answer)
    BY TextsForm DEF IInv
  <2>2. TextsAre(request.kind, facts, heard, stage', answer')
    BY <1>1, <1>2, <2>1 DEF TextsAre, Countings
  <2> QED
    BY <1>1, <2>2, TextsForm
<1>5. CallOK(AllTexts)'
  BY <1>1, CallStays DEF IInv
<1> QED
  BY <1>3, <1>4, <1>5 DEF IInv

\* The customers change under a request, and nothing else.
LEMMA CustomersStep ==
    ASSUME IInv, ChangeCustomers
    PROVE  IInv'
<1>1. /\ population' \in Populations
      /\ UNCHANGED <<stage, request, heard, facts, agent, definition, answer, call, posts>>
  BY DEF ChangeCustomers, local
<1>2. population' \in SUBSET Customers
  BY <1>1, AgentAssumption
<1>3. TypeOK' /\ StageOK' /\ TraceOK' /\ TurnsOK'
  BY <1>1, <1>2 DEF IInv, TypeOK, StageOK, TraceOK, TurnsOK
<1>4. TextsOK'
  BY <1>1, TextsForm DEF IInv
<1>5. CallOK(AllTexts)'
  BY <1>1, CallStays DEF IInv
<1> QED
  BY <1>3, <1>4, <1>5 DEF IInv

\* A fresh agent has an empty trace.
LEMMA NewAgentOK ==
    /\ NewAgent \in [seen : SUBSET (ToolNames \X Arguments), trace : Seq(Entries),
                     called : Nat, impact : Nat]
    /\ agent = NewAgent => TraceOK
    /\ agent' = NewAgent => TraceOK'
<1>1. /\ <<>> \in Seq(Entries) /\ Len(<<>>) = 0
      /\ NewAgent = [seen |-> {}, trace |-> <<>>, called |-> 0, impact |-> 0]
  BY EmptySeq DEF NewAgent
<1>2. NewAgent \in [seen : SUBSET (ToolNames \X Arguments), trace : Seq(Entries),
                    called : Nat, impact : Nat]
  BY <1>1
<1>3. Estimates(<<>>) = {} /\ {Key(<<>>[i]) : i \in DOMAIN <<>>} = {}
  BY DEF Estimates
<1>4. agent = NewAgent => TraceOK
  BY <1>1, <1>3 DEF TraceOK
<1>5. agent' = NewAgent => TraceOK'
  BY <1>1, <1>3 DEF TraceOK
<1> QED
  BY <1>2, <1>4, <1>5

\* The request is over and forgotten.
LEMMA ReturnStep ==
    ASSUME IInv, Return
    PROVE  IInv'
<1>1. /\ stage = "done" /\ request' = Nobody /\ stage' = "idle" /\ heard' = <<>>
      /\ agent' = NewAgent /\ answer' = 0
      /\ UNCHANGED <<population, call, posts>>
  BY DEF Return
<1>2. TypeOK' /\ TraceOK'
  BY <1>1, NewAgentOK, EmptySeq DEF IInv, TypeOK, Stages
<1>3. StageOK'
  BY <1>1 DEF IInv, StageOK, Countings
<1>4. TextsOK' /\ TurnsOK'
  BY <1>1, KindOf DEF TextsOK, TurnsOK, Generated
<1>5. CallOK(AllTexts)'
  BY <1>1, CallStays DEF IInv
<1> QED
  BY <1>2, <1>3, <1>4, <1>5 DEF IInv

-----------------------------------------------------------------------------
(* The invariant and what follows from it. *)

\* It holds before the first request.
LEMMA InitInvariant == Init => IInv
<1> SUFFICES ASSUME Init PROVE IInv
  OBVIOUS
<1>1. TypeOK /\ TraceOK
  BY NewAgentOK, EmptySeq, AgentAssumption DEF Init, TypeOK, Stages
<1>2. StageOK
  BY DEF Init, StageOK, Countings
<1>3. TextsOK /\ TurnsOK
  BY KindOf DEF Init, TextsOK, TurnsOK, Generated
<1>4. CallOK(AllTexts)
  BY NoPostsOK DEF Init
<1> QED
  BY <1>1, <1>2, <1>3, <1>4 DEF IInv

\* Every step keeps it.
LEMMA NextInvariant == IInv /\ [Next]_vars => IInv'
<1> SUFFICES ASSUME IInv, [Next]_vars PROVE IInv'
  OBVIOUS
<1>1. CASE UNCHANGED vars
  <2>1. UNCHANGED <<population, stage, request, heard, facts, agent, definition, answer, call, posts>>
    BY <1>1 DEF vars, local
  <2>2. TypeOK' /\ StageOK' /\ TraceOK' /\ TurnsOK'
    BY <2>1 DEF IInv, TypeOK, StageOK, TraceOK, TurnsOK
  <2>3. TextsOK' /\ CallOK(AllTexts)'
    BY <2>1, TextsForm, CallStays DEF IInv
  <2> QED
    BY <2>2, <2>3 DEF IInv
<1>2. ASSUME NEW r \in Requests, ReceivePreview(r)
      PROVE  IInv'
  <2>1. Receive(r, "preview") /\ "preview" \in Kinds /\ stage = "idle"
    BY <1>2 DEF ReceivePreview, Receive, Kinds
  <2>2. answer = 0
    BY <2>1 DEF IInv, StageOK
  <2>3. (stage' = "full" /\ answer' = 0) \/ (stage' = "done" /\ answer' \in {422, 500})
    <3>1. PICK verdict : IF verdict = "ok" THEN Goto("full") ELSE Reply(StatusOf(verdict))
      BY <1>2 DEF ReceivePreview
    <3>2. StatusOf(verdict) \in {422, 500}
      BY DEF StatusOf
    <3> QED
      BY <2>2, <3>1, <3>2 DEF Goto, Reply
  <2> QED
    BY <2>1, <2>3, ReceiveStep
<1>3. ASSUME NEW r \in Requests, ReceivePrompt(r) \/ ReceiveGoal(r)
      PROVE  IInv'
  <2>1. PICK kind \in {"segment", "propose"} : Receive(r, kind) /\ Goto("ask")
    BY <1>3 DEF ReceivePrompt, ReceiveGoal
  <2>2. kind \in Kinds /\ kind # "preview" /\ stage = "idle"
    BY <2>1 DEF Kinds, Receive
  <2>3. stage' = "ask" /\ answer' = 0
    BY <2>1, <2>2 DEF IInv, StageOK, Goto
  <2> QED
    BY <2>1, <2>2, <2>3, ReceiveStep
<1>4. ASSUME NEW r \in Requests, ReceiveDraft(r) \/ ReceiveInsight(r)
      PROVE  IInv'
  <2>1. PICK kind \in {"draft", "insight"} : Receive(r, kind) /\ (Goto("ask") \/ Reply(404))
    BY <1>4 DEF ReceiveDraft, ReceiveInsight
  <2>2. kind \in Kinds /\ kind # "preview" /\ stage = "idle"
    BY <2>1 DEF Kinds, Receive
  <2>3. (stage' = "ask" /\ answer' = 0) \/ (stage' = "done" /\ answer' = 404)
    <3>1. answer = 0
      BY <2>2 DEF IInv, StageOK
    <3>2. CASE Goto("ask")
      BY <3>1, <3>2 DEF Goto
    <3>3. CASE Reply(404)
      BY <3>3 DEF Reply
    <3> QED
      BY <2>1, <3>2, <3>3
  <2> QED
    BY <2>1, <2>2, <2>3, ReceiveStep
<1>5. CASE Serve
  BY <1>5, CallingSteps, GenerateStep, IdleTurns, ProposeStep, ToolStep, SizeStep, CountSteps DEF Serve
<1>6. CASE ChangeCustomers
  BY <1>6, CustomersStep
<1>7. CASE Return
  BY <1>7, ReturnStep
<1> QED
  BY <1>1, <1>2, <1>3, <1>4, <1>5, <1>6, <1>7 DEF Next

\* What is known of a request at each of its stages, and of the call it waits for.
THEOREM Invariant == Spec => []IInv
<1>1. Init => IInv
  BY InitInvariant
<1>2. IInv /\ [Next]_vars => IInv'
  BY NextInvariant
<1> QED
  BY <1>1, <1>2, PTL DEF Spec

\* The fallback is asked only once the first provider is given up, and a call is
\* unavailable exactly when both are (llm_client.complete).
THEOREM FallsBackInOrder == Spec => []FallbackInOrder
<1>1. IInv => FallbackInOrder
  BY CallInOrder DEF IInv
<1> QED
  BY <1>1, Invariant, PTL

\* 200 stands for a valid last text, 422 for two invalid ones (_generate).
THEOREM RepairsOnce == Spec => []RepairedOnce
<1>1. IInv => RepairedOnce
  BY DEF IInv, TextsOK, RepairedOnce
<1> QED
  BY <1>1, Invariant, PTL

\* Two keys that differ make a set of two or more.
LEMMA TwoKeys ==
    ASSUME NEW S, NEW trace \in Seq(S), Len(trace) >= 2,
           \A i, j \in DOMAIN trace : Key(trace[i]) = Key(trace[j]) => i = j
    PROVE  Cardinality({Key(trace[i]) : i \in DOMAIN trace}) >= 2
<1> DEFINE N == 1..Len(trace)
           keys == {Key(trace[i]) : i \in DOMAIN trace}
           f == [i \in N |-> Key(trace[i])]
<1>1. DOMAIN trace = N /\ Len(trace) \in Nat
  OBVIOUS
<1>2. f \in Bijection(N, keys)
  BY <1>1 DEF Bijection, Injection, Surjection, IsInjective
<1>3. IsFiniteSet(N) /\ Cardinality(N) = Len(trace)
  <2>1. Cardinality(1..Len(trace)) = IF 1 > Len(trace) THEN 0 ELSE Len(trace) - 1 + 1
    BY <1>1, FS_Interval
  <2> QED
    BY <1>1, <2>1, FS_Interval
<1>4. Cardinality(keys) = Cardinality(N)
  <2> HIDE DEF f, keys, N
  <2> QED
    BY <1>2, <1>3, FS_Bijection DEF ExistsBijection
<1> QED
  BY <1>3, <1>4

\* A proposal is returned for a definition that compiles, after two different tool
\* calls or more, with the impact of the last good estimate (propose_campaign).
THEOREM ProposalsAreEarned == Spec => []ProposalIsEarned
<1>1. IInv => ProposalIsEarned
  <2> SUFFICES ASSUME IInv, request.kind = "propose", answer = 200
               PROVE  ProposalIsEarned
    BY DEF ProposalIsEarned
  <2> DEFINE trace == agent.trace
  <2>1. /\ Len(heard) <= MaxIterations /\ agent.called >= 2
        /\ Verdict(definition) = "ok" /\ heard[Len(heard)].definition = definition
    BY DEF IInv, TurnsOK
  <2>2. /\ agent.called = Len(trace) /\ trace \in Seq(Entries)
        /\ \A i, j \in DOMAIN trace : Key(trace[i]) = Key(trace[j]) => i = j
        /\ \A i \in Estimates(trace) : i <= agent.impact
        /\ agent.impact \in Estimates(trace) \cup {0}
    BY DEF IInv, TypeOK, TraceOK
  <2>3. Cardinality({Key(trace[i]) : i \in DOMAIN trace}) >= 2
    BY <2>1, <2>2, TwoKeys
  <2> QED
    BY <2>1, <2>2, <2>3 DEF ProposalIsEarned, Key, Estimates
<1> QED
  BY <1>1, Invariant, PTL

-----------------------------------------------------------------------------
(* The counts of a preview. *)

\* A step before anything is counted, which shows no counts.
LEMMA NotCounting ==
    ASSUME PreviewInv, stage \in {"idle", "ask", "wait"},
           stage' \in {"ask", "wait", "full", "size", "done"}, ~Shown',
           UNCHANGED <<population, counts>>, changes' \in Nat,
           stage' = "full" =>
               IsTree(definition') /\ WellFormed(definition') /\ Verdict(definition') = "ok"
    PROVE  PreviewInv'
<1>1. DefinitionOK'
  BY DEF DefinitionOK, Countings
<1>2. CountsOK'
  BY DEF PreviewInv, CountsOK
<1> QED
  BY <1>1, <1>2 DEF PreviewInv

\* A preview starts with a definition that compiles, a prompt with none.
LEMMA PreviewReceived ==
    ASSUME IInv, PreviewInv, NEW r \in Requests,
           \/ ReceivePreview(r) \/ ReceivePrompt(r) \/ ReceiveGoal(r) \/ ReceiveDraft(r)
           \/ ReceiveInsight(r)
    PROVE  PreviewInv'
<1>1. /\ stage = "idle" /\ changes' = 0 /\ UNCHANGED <<population, counts>>
  BY DEF ReceivePreview, ReceivePrompt, ReceiveGoal, ReceiveDraft, ReceiveInsight, Receive
<1>2. answer = 0
  BY <1>1 DEF IInv, StageOK
<1>3. CASE ReceivePreview(r)
  <2> DEFINE verdict == IF WellFormed(r.definition) THEN Verdict(r.definition) ELSE "rejected"
  <2>1. definition' = r.definition /\ IF verdict = "ok" THEN Goto("full") ELSE Reply(StatusOf(verdict))
    BY <1>3 DEF ReceivePreview
  <2>2. IsTree(r.definition)
    BY AgentAssumption
  <2>3. verdict = "ok" => WellFormed(r.definition) /\ Verdict(r.definition) = "ok"
    OBVIOUS
  <2>4. StatusOf(verdict) \in {422, 500}
    BY DEF StatusOf
  <2> HIDE DEF verdict
  <2>5. CASE verdict = "ok"
    <3>1. stage' = "full" /\ answer' = 0
      BY <1>2, <2>1, <2>5 DEF Goto
    <3> QED
      BY <1>1, <2>1, <2>2, <2>3, <2>5, <3>1, NotCounting DEF Shown
  <2>6. CASE verdict # "ok"
    <3>1. stage' = "done" /\ answer' \in {422, 500}
      BY <2>1, <2>4, <2>6 DEF Reply
    <3> QED
      BY <1>1, <3>1, NotCounting DEF Shown
  <2> QED
    BY <2>5, <2>6
<1>4. CASE ReceivePrompt(r) \/ ReceiveGoal(r) \/ ReceiveDraft(r) \/ ReceiveInsight(r)
  <2>1. Goto("ask") \/ Reply(404)
    BY <1>4 DEF ReceivePrompt, ReceiveGoal, ReceiveDraft, ReceiveInsight
  <2>2. stage' \in {"ask", "done"} /\ answer' # 200
    BY <1>2, <2>1 DEF Goto, Reply
  <2> QED
    BY <1>1, <2>2, NotCounting DEF Shown
<1> QED
  BY <1>3, <1>4

\* Nothing is counted while a model is asked.
LEMMA PreviewAsked ==
    ASSUME IInv, PreviewInv, Ask \/ Wait \/ CallFailed
    PROVE  PreviewInv'
<1>1. /\ stage \in {"ask", "wait"} /\ UNCHANGED <<population, changes, counts>>
      /\ stage' \in {"ask", "wait", "done"} /\ (answer' = answer \/ answer' \in {503, 500})
  BY DEF Ask, Wait, CallFailed, local, Goto, Reply
<1>2. answer = 0 /\ changes \in Nat
  BY <1>1 DEF IInv, StageOK, PreviewInv, CountsOK
<1> QED
  BY <1>1, <1>2, NotCounting DEF Shown

\* A generated definition is counted if it compiles.
LEMMA PreviewGenerated ==
    ASSUME IInv, PreviewInv, Generate
    PROVE  PreviewInv'
<1> DEFINE verdict == Parse(call.text)
<1>1. /\ stage = "wait" /\ call.state = "answered"
      /\ UNCHANGED <<population, changes, request, counts>>
      /\ IF Repairs(verdict) THEN Goto("ask")
         ELSE IF verdict # "ok" THEN Reply(StatusOf(verdict))
         ELSE IF request.kind = "segment" THEN Goto("full") ELSE Reply(200)
      /\ definition' = IF verdict = "ok" /\ request.kind = "segment"
                       THEN call.text.definition ELSE definition
      /\ request.kind \in {"segment", "draft", "insight"}
  BY DEF Generate, Hear
<1>2. answer = 0 /\ changes \in Nat
  BY <1>1 DEF IInv, StageOK, PreviewInv, CountsOK
<1>3. call.text \in AllTexts
  BY <1>1 DEF IInv, CallOK
<1>4. ASSUME verdict = "ok", request.kind = "segment"
      PROVE  LET d == call.text.definition IN IsTree(d) /\ WellFormed(d) /\ Verdict(d) = "ok"
  <2>1. /\ call.text.form = "output" /\ WellFormed(call.text.definition)
        /\ Verdict(call.text.definition) = "ok"
    BY <1>4 DEF Parse, ParseSegment
  <2>2. IsTree(call.text.definition)
    BY <1>3, <2>1, AgentAssumption DEF AllTexts
  <2> QED
    BY <2>1, <2>2
<1>5. StatusOf(verdict) \in {422, 500}
  BY DEF StatusOf
<1>6. Repairs(verdict) => verdict # "ok"
  BY DEF Repairs
<1> HIDE DEF verdict
<1>7. /\ stage' \in {"ask", "done", "full"}
      /\ answer' = 200 => request.kind \in {"draft", "insight"}
      /\ stage' = "full" => verdict = "ok" /\ request.kind = "segment"
  BY <1>1, <1>2, <1>5, <1>6 DEF Goto, Reply
<1>8. ~Shown'
  BY <1>1, <1>7 DEF Shown
<1> QED
  BY <1>1, <1>2, <1>4, <1>7, <1>8, NotCounting

\* A turn of the agent shows no counts.
LEMMA PreviewTurns ==
    ASSUME IInv, PreviewInv,
           TurnUnreadable \/ TurnUnknown \/ TurnPropose \/ TurnTool \/ SizeProposal
    PROVE  PreviewInv'
<1>1. CASE SizeProposal
  <2>1. /\ stage = "size" /\ stage' = "done" /\ UNCHANGED <<population, changes, request>>
        /\ counts' = [counts EXCEPT !.full = Count(Selected(definition))]
    BY <1>1 DEF SizeProposal, Reply
  <2>2. request.kind = "propose"
    BY <2>1 DEF IInv, StageOK
  <2>3. ~Shown'
    BY <2>1, <2>2 DEF Shown
  <2>4. DefinitionOK'
    BY <2>1, <2>3 DEF DefinitionOK, Countings
  <2>5. counts' = [full |-> counts'.full, total |-> counts'.total,
                   alone |-> counts'.alone, without |-> counts'.without]
    BY <2>1 DEF PreviewInv, CountsOK
  <2>6. CountsOK'
    BY <2>1, <2>3, <2>5 DEF PreviewInv, CountsOK
  <2> QED
    BY <2>4, <2>6 DEF PreviewInv
<1>2. CASE TurnUnreadable \/ TurnUnknown \/ TurnPropose \/ TurnTool
  <2>1. /\ stage = "wait" /\ UNCHANGED <<population, changes, request, counts>>
        /\ request.kind = "propose"
    BY <1>2 DEF TurnUnreadable, TurnUnknown, TurnPropose, TurnTool, Hear
  <2>2. stage' \in {"ask", "size", "done"}
    BY <1>2 DEF TurnUnreadable, TurnUnknown, TurnPropose, TurnTool, NextTurn, Goto, Reply
  <2>3. changes \in Nat
    BY DEF PreviewInv, CountsOK
  <2> QED
    BY <2>1, <2>2, <2>3, NotCounting DEF Shown
<1> QED
  BY <1>1, <1>2

\* Each count is of the customers of its moment, and the last one completes a preview.
LEMMA PreviewCounted ==
    ASSUME IInv, PreviewInv, CountFull \/ CountTotal \/ CountLeaf \/ CountWithout
    PROVE  PreviewInv'
<1>1. /\ stage \in Countings
      /\ UNCHANGED <<population, changes, request, definition>>
      /\ \/ stage' \in Countings /\ answer' = answer
         \/ stage' = "done" /\ answer' = 200
  BY DEF CountFull, CountTotal, CountLeaf, CountWithout, Counting, Goto, Reply, Countings
<1>2. answer = 0 /\ ~Shown
  BY <1>1 DEF IInv, StageOK, Countings, Shown
<1>3. DefinitionOK'
  BY <1>1, <1>2 DEF PreviewInv, DefinitionOK, Countings
<1>4. /\ population \in Populations /\ changes \in Nat
      /\ counts = [full |-> counts.full, total |-> counts.total,
                   alone |-> counts.alone, without |-> counts.without]
  BY DEF PreviewInv, CountsOK
<1>5. CASE CountFull
  <2>1. /\ stage = "full" /\ stage' = "total" /\ answer' = 0
        /\ counts' = [counts EXCEPT !.full = Count(Selected(definition))]
    BY <1>2, <1>5 DEF CountFull, Counting, Goto
  <2>2. /\ counts' = [full |-> Count(Selected(definition)), total |-> counts.total,
                      alone |-> counts.alone, without |-> counts.without]
    BY <1>4, <2>1
  <2>3. counts.without = NoTree /\ ~Shown'
    BY <2>1 DEF PreviewInv, CountsOK, Shown
  <2>4. CountsOK'
    BY <1>1, <1>4, <2>1, <2>2, <2>3 DEF CountsOK, Count
  <2> QED
    BY <1>3, <2>4 DEF PreviewInv
<1>6. CASE CountTotal
  <2>1. /\ stage = "total" /\ stage' = "leaf" /\ answer' = 0
        /\ counts' = [counts EXCEPT !.total = Cardinality(population)]
    BY <1>2, <1>6 DEF CountTotal, Counting, Goto
  <2>2. /\ counts' = [full |-> counts.full, total |-> Cardinality(population),
                      alone |-> counts.alone, without |-> counts.without]
    BY <1>4, <2>1
  <2>3. /\ counts.without = NoTree /\ ~Shown' /\ DOMAIN NoTree = {}
        /\ changes = 0 => counts.full = Count(Selected(definition))
    BY <2>1 DEF PreviewInv, CountsOK, Shown, NoTree
  <2>4. CountsOK'
    BY <1>1, <1>4, <2>1, <2>2, <2>3 DEF CountsOK, Count
  <2> QED
    BY <1>3, <2>4 DEF PreviewInv
<1>7. ASSUME changes = 0, stage \in {"leaf", "without"}
      PROVE  /\ counts.full = Count(Selected(definition)) /\ counts.total = Cardinality(population)
             /\ \A p \in DOMAIN counts.without :
                    counts.without[p] = AudienceWithout(RemoveAtPath(definition, p))
  BY <1>7 DEF PreviewInv, CountsOK
<1>8. CASE CountLeaf
  <2>1. /\ stage = "leaf" /\ stage' = "without" /\ answer' = 0
        /\ \E f : counts' = [counts EXCEPT !.alone = f]
    BY <1>2, <1>8 DEF CountLeaf, Counting, Goto
  <2>2. PICK f : counts' = [full |-> counts.full, total |-> counts.total,
                            alone |-> f, without |-> counts.without]
    BY <1>4, <2>1
  <2>3. ~Shown'
    BY <2>1 DEF Shown
  <2>4. \A e : AudienceWithout(e)' = AudienceWithout(e)
    BY <1>1, <2>2 DEF AudienceWithout, Count
  <2>5. CountsOK'
    BY <1>1, <1>4, <1>7, <2>1, <2>2, <2>3, <2>4 DEF CountsOK, Count
  <2> QED
    BY <1>3, <2>5 DEF PreviewInv
<1>9. CASE CountWithout
  <2> DEFINE leaf == CurrentLeaf
             audience == AudienceWithout(RemoveAtPath(definition, leaf))
             without == With(counts.without, leaf, audience)
  <2>1. /\ stage = "without" /\ stage' \in {"leaf", "done"}
        /\ counts' = [counts EXCEPT !.without = without]
        /\ answer' = 200 => LeafPaths(definition) = DOMAIN counts'.without
    BY <1>2, <1>9 DEF CountWithout, Counting, Goto, Reply
  <2>2. counts' = [full |-> counts.full, total |-> counts.total,
                   alone |-> counts.alone, without |-> without]
    BY <1>4, <2>1
  <2>3. changes = 0 => \A p \in DOMAIN without :
                           without[p] = AudienceWithout(RemoveAtPath(definition, p))
    <3>1. \A p \in DOMAIN without :
              \/ p = leaf /\ without[p] = audience
              \/ p \in DOMAIN counts.without /\ without[p] = counts.without[p]
      BY DEF With
    <3> QED
      BY <1>7, <2>1, <3>1
  <2> HIDE DEF leaf, audience, without
  <2>4. \A e : AudienceWithout(e)' = AudienceWithout(e)
    BY <1>1, <2>2 DEF AudienceWithout, Count
  <2>5. Shown' => LeafPaths(definition) = DOMAIN counts'.without
    BY <2>1 DEF Shown
  <2>6. CountsOK'
    BY <1>1, <1>4, <1>7, <2>1, <2>2, <2>3, <2>4, <2>5 DEF CountsOK, Count
  <2> QED
    BY <1>3, <2>6 DEF PreviewInv
<1> QED
  BY <1>5, <1>6, <1>8, <1>9

\* Nothing is known of the counts once the customers changed.
LEMMA PreviewChanged ==
    ASSUME IInv, PreviewInv, ChangeCustomers \/ Return
    PROVE  PreviewInv'
<1>1. CASE ChangeCustomers
  <2>1. /\ population' \in Populations /\ changes' = changes + 1 /\ changes \in Nat
        /\ UNCHANGED <<stage, request, definition, answer, counts>>
    BY <1>1 DEF ChangeCustomers, local, PreviewInv, CountsOK
  <2>2. DefinitionOK'
    BY <2>1 DEF PreviewInv, DefinitionOK, Shown
  <2>3. changes' \in Nat /\ changes' # 0
    BY <2>1
  <2>4. CountsOK'
    BY <2>1, <2>3 DEF PreviewInv, CountsOK, Shown
  <2> QED
    BY <2>2, <2>4 DEF PreviewInv
<1>2. CASE Return
  <2>1. /\ stage' = "idle" /\ answer' = 0 /\ changes' = 0 /\ population' = population
        /\ counts' = [full |-> 0, total |-> 0, alone |-> NoTree, without |-> NoTree]
    BY <1>2 DEF Return, Uncounted
  <2>2. DefinitionOK'
    BY <2>1 DEF DefinitionOK, Countings, Shown
  <2>3. CountsOK'
    BY <2>1 DEF PreviewInv, CountsOK, Shown
  <2> QED
    BY <2>2, <2>3 DEF PreviewInv
<1> QED
  BY <1>1, <1>2

\* What is counted compiles, and an undisturbed preview is of the customers there are.
THEOREM PreviewInvariant == Spec => []PreviewInv
<1>1. Init => PreviewInv
  BY DEF Init, PreviewInv, DefinitionOK, CountsOK, Countings, Shown, Uncounted
<1>2. IInv /\ PreviewInv /\ [Next]_vars => PreviewInv'
  <2> SUFFICES ASSUME IInv, PreviewInv, [Next]_vars PROVE PreviewInv'
    OBVIOUS
  <2>1. CASE UNCHANGED vars
    <3>1. UNCHANGED <<population, changes, stage, request, definition, answer, counts>>
      BY <2>1 DEF vars, local
    <3>2. DefinitionOK'
      BY <3>1 DEF PreviewInv, DefinitionOK, Shown
    <3>3. CountsOK'
      BY <3>1 DEF PreviewInv, CountsOK, Shown, AudienceWithout, Count
    <3> QED
      BY <3>2, <3>3 DEF PreviewInv
  <2>2. CASE Serve
    BY <2>2, PreviewAsked, PreviewGenerated, PreviewTurns, PreviewCounted DEF Serve
  <2> QED
    BY <2>1, <2>2, PreviewReceived, PreviewChanged DEF Next
<1> QED
  BY <1>1, <1>2, Invariant, PTL DEF Spec

\* Without a leaf, exactly the other leaves are left, and what still compiles
\* (segment_compiler.remove_at_path).
THEOREM PrunesExactly == Spec => []PruningIsExact
<1>1. PreviewInv => PruningIsExact
  BY PruningExact DEF PreviewInv, DefinitionOK, Countings, PruningIsExact
<1> QED
  BY <1>1, PreviewInvariant, PTL

\* Among finitely many customers a larger selection counts no fewer.
LEMMA CountMonotone ==
    ASSUME PreviewInv, NEW S, NEW T, S \subseteq T
    PROVE  /\ Count(S) <= Count(T) /\ Count(S) <= Cardinality(population)
           /\ Count(S) \in Nat /\ Count(T) \in Nat /\ Cardinality(population) \in Nat
<1>1. IsFiniteSet(population)
  BY AgentAssumption DEF PreviewInv, CountsOK
<1>2. S \cap population \in SUBSET population /\ T \cap population \in SUBSET population
  OBVIOUS
<1>3. IsFiniteSet(T \cap population) /\ IsFiniteSet(S \cap population)
  BY <1>1, <1>2, FS_Subset
<1>4. S \cap population \in SUBSET (T \cap population)
  OBVIOUS
<1>5. /\ Cardinality(S \cap population) <= Cardinality(T \cap population)
      /\ Cardinality(S \cap population) <= Cardinality(population)
  BY <1>1, <1>2, <1>3, <1>4, FS_Subset
<1> QED
  BY <1>1, <1>3, <1>5, FS_CardinalityType DEF Count

\* The marginal impact of a rule has the sign of the group that decides
\* (segment_preview.preview).
THEOREM ImpactHasItsSign == Spec => []MarginalSign
<1>1. PreviewInv => MarginalSign
  <2> SUFFICES ASSUME PreviewInv, Shown, changes = 0, NEW p \in LeafPaths(definition)
               PROVE  LET group == Deciding(definition, p)
                      IN  IF group # <<0>> /\ definition[group] = "OR"
                          THEN counts.without[p] <= counts.full
                          ELSE counts.without[p] >= counts.full
    BY DEF MarginalSign, Shown
  <2> DEFINE group == Deciding(definition, p)
             pruned == RemoveAtPath(definition, p)
  <2>1. IsTree(definition)
    BY DEF PreviewInv, DefinitionOK
  <2>2. /\ counts.full = Count(Selected(definition)) /\ counts.total = Cardinality(population)
        /\ counts.without[p] = AudienceWithout(pruned)
    BY DEF PreviewInv, CountsOK
  <2>3. IF group = <<0>> THEN pruned = NoTree
        ELSE /\ pruned # NoTree
             /\ IF definition[group] = "OR" THEN Selected(pruned) \subseteq Selected(definition)
                ELSE Selected(definition) \subseteq Selected(pruned)
    BY <2>1, PruningSign
  <2> HIDE DEF group, pruned
  <2>4. CASE group = <<0>>
    <3>1. counts.without[p] = Cardinality(population)
      BY <2>2, <2>3, <2>4 DEF AudienceWithout
    <3>2. counts.full <= Cardinality(population) /\ counts.full \in Nat /\ Cardinality(population) \in Nat
      BY <2>2, CountMonotone
    <3> QED
      BY <2>4, <3>1, <3>2 DEF group
  <2>5. CASE group # <<0>>
    <3>1. counts.without[p] = Count(Selected(pruned))
      BY <2>2, <2>3, <2>5 DEF AudienceWithout
    <3>2. CASE definition[group] = "OR"
      <4>1. Count(Selected(pruned)) <= Count(Selected(definition))
        BY <2>3, <2>5, <3>2, CountMonotone
      <4> QED
        BY <2>2, <2>5, <3>1, <3>2, <4>1 DEF group
    <3>3. CASE definition[group] # "OR"
      <4>1. /\ Count(Selected(definition)) <= Count(Selected(pruned))
            /\ Count(Selected(definition)) \in Nat /\ Count(Selected(pruned)) \in Nat
        BY <2>3, <2>5, <3>3, CountMonotone
      <4> QED
        BY <2>2, <2>5, <3>1, <3>3, <4>1 DEF group
    <3> QED
      BY <3>2, <3>3
  <2> QED
    BY <2>4, <2>5
<1> QED
  BY <1>1, PreviewInvariant, PTL

=============================================================================
