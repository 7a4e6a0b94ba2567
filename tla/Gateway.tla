------------------------------- MODULE Gateway -------------------------------
(***************************************************************************)
(* The one call to the language models (llm_client.complete): Groq, then   *)
(* OpenRouter, each asked up to MaxAttempts times with a sleep between two *)
(* attempts.  What a provider does is up to it.                            *)
(***************************************************************************)
EXTENDS Naturals, Sequences

CONSTANTS
    MaxAttempts    \* MAX_ATTEMPTS

ASSUME GatewayAssumption == MaxAttempts \in Nat \ {0}

VARIABLES
    call,    \* the call in progress: its state, provider, attempt, and the text it got
    posts    \* history: what the posts of this call came to, by provider

Providers == 1..2
NoText    == [form |-> "none"]
Resting   == [state |-> "resting", provider |-> 1, attempt |-> 1, text |-> NoText]
NoPosts   == [p \in Providers |-> <<>>]

-----------------------------------------------------------------------------
\* for name, url, api_key, model in providers: the next one, or LLMUnavailableError.
NextProvider ==
    IF call.provider < 2 THEN [Resting EXCEPT !.state = "posting", !.provider = call.provider + 1]
    ELSE [call EXCEPT !.state = "unavailable"]

\* Wrong on purpose: sleeps and asks again after the last attempt too.
AlwaysRetry == [call EXCEPT !.state = "sleeping"]

\* An attempt that can be retried: a sleep unless it was the last one.
AfterFailure ==
    IF call.attempt < MaxAttempts THEN [call EXCEPT !.state = "sleeping"] ELSE NextProvider

Post(outcome) ==
    /\ call.state = "posting"
    /\ posts' = [posts EXCEPT ![call.provider] = Append(@, outcome)]

Complete ==
    /\ call' = [Resting EXCEPT !.state = "posting"]
    /\ posts' = NoPosts

\* A 200 with a text; without one the exception is nobody's to catch.
PostAnswered(text) == Post("answered") /\ call' = [call EXCEPT !.state = "answered", !.text = text]
PostMalformed      == Post("malformed") /\ call' = [call EXCEPT !.state = "broken"]

\* A transport error, 429 or 5xx; and any other status.
PostFailed  == Post("failed") /\ call' = AfterFailure
PostRefused == Post("refused") /\ call' = NextProvider

\* await sleep(BACKOFF_SECONDS[attempt])
Slept ==
    /\ call.state = "sleeping"
    /\ call' = [call EXCEPT !.state = "posting", !.attempt = @ + 1]
    /\ UNCHANGED posts

\* The call is over for its caller, who has its text or its exception.
Over == call' = Resting /\ posts' = NoPosts

GatewayStep(texts) ==
    \/ \E text \in texts : PostAnswered(text)
    \/ PostMalformed
    \/ PostFailed
    \/ PostRefused
    \/ Slept

-----------------------------------------------------------------------------
GivenUp(p) ==
    LET n == Len(posts[p])
    IN  n > 0 /\ (posts[p][n] = "refused" \/ (posts[p][n] = "failed" /\ n = MaxAttempts))

(* A provider is asked again only after failures that may pass, at most        *)
(* MaxAttempts times and without a sleep after the last; the fallback is asked *)
(* only once the first provider has been given up, and the call fails as       *)
(* unavailable exactly when both have (llm_client.py:59-85).                   *)
FallbackInOrder ==
    /\ \A p \in Providers :
           /\ Len(posts[p]) <= MaxAttempts
           /\ \A i \in 1..(Len(posts[p]) - 1) : posts[p][i] = "failed"
    /\ posts[2] # <<>> => GivenUp(1)
    /\ call.state = "unavailable" <=> (GivenUp(1) /\ GivenUp(2))
    /\ call.state = "sleeping" => ~GivenUp(call.provider)
-----------------------------------------------------------------------------
(***************************************************************************)
(* The inductive invariant: what the posts made so far say of the state    *)
(* that the call is in.                                                    *)
(***************************************************************************)
Outcomes == {"answered", "malformed", "failed", "refused"}
States == {"resting", "posting", "sleeping", "answered", "broken", "unavailable"}

GatewayTypeOK(texts) ==
    /\ call \in [state : States, provider : Providers, attempt : 1..MaxAttempts,
                 text : texts \cup {NoText}]
    /\ posts \in [Providers -> Seq(Outcomes)]

\* s has n posts that all failed, or one more.
OnlyFailures(s, n) == Len(s) = n /\ \A i \in 1..n : s[i] = "failed"
OneMore(s, n, last) == Len(s) = n /\ s[n] \in last /\ \A i \in 1..(n - 1) : s[i] = "failed"

FirstGivenUp ==
    \E n \in 1..MaxAttempts :
        \/ OneMore(posts[1], n, {"refused"})
        \/ n = MaxAttempts /\ OneMore(posts[1], n, {"failed"})

CallOK(texts) ==
    /\ GatewayTypeOK(texts)
    /\ IF call.provider = 1 THEN posts[2] = <<>> ELSE FirstGivenUp
    /\ LET s == posts[call.provider]
           n == call.attempt
       IN  CASE call.state = "resting"  -> posts = NoPosts
             [] call.state = "posting"  -> OnlyFailures(s, n - 1)
             [] call.state = "sleeping" -> n < MaxAttempts /\ OnlyFailures(s, n)
             [] call.state = "answered" -> OneMore(s, n, {"answered"}) /\ call.text \in texts
             [] call.state = "broken"   -> OneMore(s, n, {"malformed"})
             [] call.state = "unavailable" ->
                    call.provider = 2
                    /\ \/ OneMore(s, n, {"refused"})
                       \/ n = MaxAttempts /\ OneMore(s, n, {"failed"})
=============================================================================
