---------------------------- MODULE RateLimiter ----------------------------
(***************************************************************************)
(* The in-process rate limiter in front of the AI routes (one instance,    *)
(* keyed by user) and of the receipts endpoint (another, keyed by address).*)
(* allow() runs without an await, so one call is one step.  Each key has a *)
(* deque of the times of its admitted requests; admitted keeps all of them *)
(* and is only looked at by the properties.                                *)
(***************************************************************************)
EXTENDS Naturals, Sequences

CONSTANTS
    Clients,   \* the keys: users, or addresses
    Max,       \* _max, requests admitted per window
    Window,    \* _window, its length
    MaxNow     \* bound: the clock stops there

ASSUME LimiterAssumption == Max \in Nat \ {0} /\ Window \in Nat \ {0} /\ MaxNow \in Nat

VARIABLES
    now,       \* time.monotonic()
    hits,      \* _hits: the deque of each key
    admitted,  \* history: every time a request of the key was let through
    refused    \* history: when a request of the key was last answered 429, 0 if never

vars == <<now, hits, admitted, refused>>

TypeOK ==
    /\ now \in Nat
    /\ hits \in [Clients -> Seq(Nat)]
    /\ admitted \in [Clients -> Seq(Nat)]
    /\ refused \in [Clients -> Nat]

\* The clock starts after one whole window, so that now - Window is no negative number.
Init ==
    /\ now = Window
    /\ hits = [c \in Clients |-> <<>>]
    /\ admitted = [c \in Clients |-> <<>>]
    /\ refused = [c \in Clients |-> 0]

Tick ==
    /\ now < MaxNow
    /\ now' = now + 1
    /\ UNCHANGED <<hits, admitted, refused>>

\* Wrong on purpose: a hit on the cutoff stays.
ExpiredLate(h, cutoff) ==
    CHOOSE n \in 0..Len(h) :
        /\ \A i \in 1..n : h[i] < cutoff
        /\ n < Len(h) => h[n + 1] >= cutoff

\* How many hits the popleft loop takes off the front of the deque: it stops at
\* the first one younger than the cutoff.
Expired(h, cutoff) ==
    CHOOSE n \in 0..Len(h) :
        /\ \A i \in 1..n : h[i] <= cutoff
        /\ n < Len(h) => h[n + 1] > cutoff

\* Wrong on purpose: the whole deque goes when its oldest hit has expired, as
\* a fixed window would do.
EvictedAll(h) == IF h # <<>> /\ h[1] <= now - Window THEN <<>> ELSE h

Evicted(h) == SubSeq(h, Expired(h, now - Window) + 1, Len(h))

\* Wrong on purpose: one request too many, > where the code has >=.
AdmitOneMore(c) ==
    /\ Len(Evicted(hits[c])) <= Max
    /\ hits' = [hits EXCEPT ![c] = Append(Evicted(@), now)]
    /\ admitted' = [admitted EXCEPT ![c] = Append(@, now)]
    /\ UNCHANGED <<now, refused>>

\* allow(): evict, then refuse a full deque or append the request to it.
Admit(c) ==
    /\ Len(Evicted(hits[c])) < Max
    /\ hits' = [hits EXCEPT ![c] = Append(Evicted(@), now)]
    /\ admitted' = [admitted EXCEPT ![c] = Append(@, now)]
    /\ UNCHANGED <<now, refused>>

Refuse(c) ==
    /\ Len(Evicted(hits[c])) >= Max
    /\ hits' = [hits EXCEPT ![c] = Evicted(@)]
    /\ refused' = [refused EXCEPT ![c] = now]
    /\ UNCHANGED <<now, admitted>>

Next == Tick \/ \E c \in Clients : Admit(c) \/ Refuse(c)

Spec == Init /\ [][Next]_vars

-----------------------------------------------------------------------------
\* However requests are spread, no window of Window seconds, wherever it begins,
\* lets more than Max requests of one key through: the (Max + 1)-th after any
\* request comes a whole window later.
WindowBound ==
    \A c \in Clients : \A i, j \in DOMAIN admitted[c] :
        i + Max <= j => admitted[c][i] + Window <= admitted[c][j]

\* A request is refused only when Max requests of its own key were admitted in
\* the window that ends now: no other key's traffic, and no hit that has
\* expired, ever costs a client its quota.
OnlyOverQuotaRefused ==
    [][\A c \in Clients : refused'[c] # refused[c] =>
        /\ Len(admitted[c]) >= Max
        /\ admitted[c][Len(admitted[c]) - Max + 1] > now - Window]_vars

\* At time t a deque h is the end of the history a; what was taken off it has expired.
DequeOf(h, a, t) ==
    LET gone == Len(a) - Len(h) IN
    /\ Len(h) <= Len(a)
    /\ Len(h) <= Max
    /\ \A i \in 1..Len(h) : h[i] = a[gone + i]
    /\ \A i \in 1..gone : a[i] + Window <= t
    /\ \A i, j \in 1..Len(a) : i <= j => a[i] <= a[j]
    /\ \A i \in 1..Len(a) : a[i] <= t

\* The inductive invariant: every deque still holds the admissions that count.
IInv ==
    /\ TypeOK
    /\ now >= Window
    /\ \A c \in Clients : DequeOf(hits[c], admitted[c], now)
    /\ WindowBound
=============================================================================
