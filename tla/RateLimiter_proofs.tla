------------------------ MODULE RateLimiter_proofs ------------------------
(***************************************************************************)
(* For any clients, quota, window and clock: the inductive invariant of    *)
(* RateLimiter, the bound on every window, and that nobody under quota is  *)
(* refused.                                                                *)
(***************************************************************************)
EXTENDS RateLimiter, WellFoundedInduction, SequenceTheorems, TLAPS

\* A non-empty set of natural numbers has a least one.
LEMMA LeastNatural ==
    ASSUME NEW T \in SUBSET Nat, T # {}
    PROVE  \E t \in T : \A s \in T : t <= s
<1> DEFINE R == OpToRel(<, Nat)
<1>1. IsWellFoundedOn(R, Nat)
  BY NatLessThanWellFounded
<1>2. PICK t \in T : \A s \in T : <<s, t>> \notin R
  <2> HIDE DEF R
  <2> QED
    BY <1>1, WFMin
<1>3. \A s \in T : ~(s < t)
  BY <1>2 DEF OpToRel
<1> QED
  BY <1>3

\* The popleft loop ends: everything it took has expired, and what is in front
\* then has not.
LEMMA ExpiredStops ==
    ASSUME NEW h \in Seq(Nat), NEW cutoff \in Nat
    PROVE  /\ Expired(h, cutoff) \in 0..Len(h)
           /\ \A i \in 1..Expired(h, cutoff) : h[i] <= cutoff
           /\ Expired(h, cutoff) < Len(h) => h[Expired(h, cutoff) + 1] > cutoff
<1> DEFINE Stops == {n \in 0..Len(h) : n < Len(h) => h[n + 1] > cutoff}
           Taken(n) == /\ \A i \in 1..n : h[i] <= cutoff
                       /\ n < Len(h) => h[n + 1] > cutoff
<1>1. Len(h) \in Stops
  OBVIOUS
<1>2. PICK n \in Stops : \A m \in Stops : n <= m
  <2>1. Stops \in SUBSET Nat /\ Stops # {}
    BY <1>1
  <2> QED
    BY <2>1, LeastNatural
<1>3. ASSUME NEW i \in 1..n
      PROVE  h[i] <= cutoff
  <2>1. i - 1 \notin Stops
    BY <1>2, SMTT(30)
  <2>2. i - 1 \in 0..Len(h) /\ (i - 1) + 1 = i /\ h[i] \in Nat
    OBVIOUS
  <2> QED
    BY <2>1, <2>2
<1>4. \E m \in 0..Len(h) : Taken(m)
  BY <1>3
<1>5. Expired(h, cutoff) = CHOOSE m \in 0..Len(h) : Taken(m)
  BY DEF Expired
<1>6. Expired(h, cutoff) \in 0..Len(h) /\ Taken(Expired(h, cutoff))
  <2> HIDE DEF Taken
  <2> QED
    BY <1>4, <1>5
<1> QED
  BY <1>6

\* After the eviction the deque is still the end of the history, and its oldest
\* hit lies inside the window.
LEMMA EvictedIsDeque ==
    ASSUME TypeOK, now >= Window, NEW c \in Clients, DequeOf(hits[c], admitted[c], now)
    PROVE  /\ Evicted(hits[c]) \in Seq(Nat)
           /\ DequeOf(Evicted(hits[c]), admitted[c], now)
           /\ Evicted(hits[c]) # <<>> => Evicted(hits[c])[1] > now - Window
<1> DEFINE h == hits[c]
           a == admitted[c]
           n == Expired(h, now - Window)
           e == Evicted(h)
<1>1. /\ h \in Seq(Nat) /\ a \in Seq(Nat)
      /\ now \in Nat /\ Window \in Nat /\ Max \in Nat
      /\ now - Window \in Nat /\ Len(h) \in Nat /\ Len(a) \in Nat
  BY LimiterAssumption DEF TypeOK
<1>2. /\ n \in 0..Len(h)
      /\ \A i \in 1..n : h[i] <= now - Window
      /\ n < Len(h) => h[n + 1] > now - Window
  BY <1>1, ExpiredStops
<1>3. e = SubSeq(h, n + 1, Len(h))
  BY DEF Evicted
<1> HIDE DEF n, e, h, a
<1>4. \A i \in (n + 1)..Len(h) : h[i] \in Nat
  BY <1>1, <1>2, SMTT(30)
<1>5. /\ e \in Seq(Nat)
      /\ Len(e) = Len(h) - n
      /\ \A i \in 1..(Len(h) - n) : e[i] = h[n + i]
  <2>1. n + 1 \in Int /\ Len(h) \in Int
    BY <1>1, <1>2
  <2>2. /\ e \in Seq(Nat)
        /\ Len(e) = IF n + 1 <= Len(h) THEN Len(h) - (n + 1) + 1 ELSE 0
        /\ \A i \in 1..(Len(h) - (n + 1) + 1) : e[i] = h[(n + 1) + i - 1]
    BY <1>3, <1>4, <2>1, SubSeqProperties
  <2> QED
    BY <1>1, <1>2, <2>2
<1>6. DequeOf(e, a, now)
  <2>1. /\ Len(h) <= Len(a) /\ Len(h) <= Max
        /\ \A i \in 1..Len(h) : h[i] = a[Len(a) - Len(h) + i]
        /\ \A i \in 1..(Len(a) - Len(h)) : a[i] + Window <= now
        /\ \A i, j \in 1..Len(a) : i <= j => a[i] <= a[j]
        /\ \A i \in 1..Len(a) : a[i] <= now
    BY DEF DequeOf, h, a
  <2>2. Len(e) <= Len(a) /\ Len(e) <= Max
    BY <1>1, <1>2, <1>5, <2>1, SMTT(30)
  <2>3. \A i \in 1..Len(e) : e[i] = a[Len(a) - Len(e) + i]
    <3> TAKE i \in 1..Len(e)
    <3>1. e[i] = h[n + i] /\ n + i \in 1..Len(h)
      BY <1>1, <1>2, <1>5
    <3>2. h[n + i] = a[Len(a) - Len(h) + (n + i)]
      BY <2>1, <3>1
    <3>3. Len(a) - Len(h) + (n + i) = Len(a) - Len(e) + i
      BY <1>1, <1>2, <1>5
    <3> QED
      BY <3>1, <3>2, <3>3
  <2>4. ASSUME NEW i \in 1..(Len(a) - Len(e))
        PROVE  a[i] + Window <= now
    <3>1. CASE i <= Len(a) - Len(h)
      BY <1>1, <2>1, <3>1
    <3>2. CASE i > Len(a) - Len(h)
      <4> DEFINE k == i - (Len(a) - Len(h))
      <4>1. i \in Nat /\ i <= Len(a) - (Len(h) - n) /\ n \in Nat /\ n <= Len(h)
        BY <1>1, <1>2, <1>5
      <4>2. k \in Nat /\ 1 <= k /\ k <= n /\ Len(a) - Len(h) + k = i
        <5>1. Len(a) \in Nat /\ Len(h) \in Nat
          BY <1>1
        <5> QED
          BY <5>1, <3>2, <4>1
      <4> HIDE DEF k
      <4>3. k \in 1..n /\ k \in 1..Len(h)
        BY <1>1, <4>1, <4>2
      <4>4. h[k] \in Nat /\ h[k] <= now - Window
        BY <1>1, <1>2, <4>3, SMTT(30)
      <4>5. h[k] = a[i]
        BY <2>1, <4>2, <4>3
      <4> QED
        BY <1>1, <4>4, <4>5, SMTT(30)
    <3> QED
      BY <1>1, <1>5, <3>1, <3>2
  <2> QED
    BY <2>1, <2>2, <2>3, <2>4 DEF DequeOf
<1>7. e # <<>> => e[1] > now - Window
  <2> SUFFICES ASSUME e # <<>> PROVE e[1] > now - Window
    OBVIOUS
  <2>1. Len(e) > 0
    BY <1>5
  <2>2. n \in Nat /\ n < Len(h)
    BY <1>1, <1>2, <1>5, <2>1
  <2>3. 1 \in 1..(Len(h) - n)
    BY <1>1, <2>2
  <2>4. e[1] = h[n + 1]
    BY <1>5, <2>3
  <2> QED
    BY <1>2, <2>2, <2>4
<1> QED
  BY <1>5, <1>6, <1>7 DEF e, h, a

-----------------------------------------------------------------------------
\* The clock and the deques start together, a window after zero.
LEMMA InitInv == Init => IInv
  BY LimiterAssumption DEF Init, IInv, TypeOK, DequeOf, WindowBound

\* Time only makes more hits expire.
LEMMA TickInv == IInv /\ Tick => IInv'
<1> SUFFICES ASSUME IInv, Tick PROVE IInv'
  OBVIOUS
<1> USE DEF Tick
<1>1. TypeOK' /\ (now >= Window)'
  BY LimiterAssumption DEF IInv, TypeOK
<1>2. WindowBound'
  BY DEF IInv, WindowBound
<1>3. ASSUME NEW c \in Clients
      PROVE  DequeOf(hits'[c], admitted'[c], now')
  <2>1. DequeOf(hits[c], admitted[c], now) /\ hits[c] \in Seq(Nat) /\ admitted[c] \in Seq(Nat)
    BY DEF IInv, TypeOK
  <2>2. now \in Nat /\ now' = now + 1 /\ \A i \in 1..Len(admitted[c]) : admitted[c][i] \in Nat
    BY <2>1 DEF IInv, TypeOK
  <2>3. \A i \in 1..(Len(admitted[c]) - Len(hits[c])) : i \in 1..Len(admitted[c])
    BY <2>1
  <2>4. DequeOf(hits[c], admitted[c], now + 1)
    <3>1. \A i \in 1..(Len(admitted[c]) - Len(hits[c])) : admitted[c][i] + Window <= now + 1
      <4> TAKE i \in 1..(Len(admitted[c]) - Len(hits[c]))
      <4>1. admitted[c][i] + Window <= now
        BY <2>1 DEF DequeOf
      <4>2. admitted[c][i] \in Nat /\ Window \in Nat
        BY <2>2, <2>3, LimiterAssumption
      <4> QED
        BY <2>2, <4>1, <4>2
    <3>2. \A i \in 1..Len(admitted[c]) : admitted[c][i] <= now + 1
      BY <2>1, <2>2 DEF DequeOf
    <3> QED
      BY <2>1, <3>1, <3>2 DEF DequeOf
  <2> QED
    BY <2>2, <2>4
<1> QED
  BY <1>1, <1>2, <1>3 DEF IInv

\* The new hit goes to the end of the deque and of the history; Max places before
\* it the history has left the window.
LEMMA AdmitInv == ASSUME NEW c \in Clients, IInv, Admit(c) PROVE IInv'
<1> DEFINE a == admitted[c]
           e == Evicted(hits[c])
<1>1. /\ a \in Seq(Nat) /\ now \in Nat /\ Max \in Nat \ {0} /\ Window \in Nat \ {0}
      /\ e \in Seq(Nat) /\ Len(e) < Max
      /\ DequeOf(e, a, now)
  BY EvictedIsDeque, LimiterAssumption DEF IInv, TypeOK, Admit
<1>2. /\ hits' = [hits EXCEPT ![c] = Append(e, now)]
      /\ admitted' = [admitted EXCEPT ![c] = Append(a, now)]
      /\ now' = now /\ refused' = refused
  BY DEF Admit
<1> HIDE DEF e
<1>3. TypeOK' /\ (now >= Window)'
  BY <1>1, <1>2 DEF IInv, TypeOK
<1>4. hits'[c] = Append(e, now) /\ admitted'[c] = Append(a, now)
  BY <1>2 DEF IInv, TypeOK
<1>5. \A d \in Clients : d # c => hits'[d] = hits[d] /\ admitted'[d] = admitted[d]
  BY <1>2 DEF IInv, TypeOK
<1>6. /\ Len(Append(e, now)) = Len(e) + 1 /\ Len(Append(a, now)) = Len(a) + 1
      /\ \A i \in 1..Len(e) : Append(e, now)[i] = e[i]
      /\ \A i \in 1..Len(a) : Append(a, now)[i] = a[i]
      /\ Append(e, now)[Len(e) + 1] = now /\ Append(a, now)[Len(a) + 1] = now
      /\ Len(a) \in Nat /\ Len(e) \in Nat
  BY <1>1
<1>7. /\ Len(e) <= Len(a)
      /\ \A i \in 1..Len(e) : e[i] = a[Len(a) - Len(e) + i]
      /\ \A i \in 1..(Len(a) - Len(e)) : a[i] + Window <= now
      /\ \A i, j \in 1..Len(a) : i <= j => a[i] <= a[j]
      /\ \A i \in 1..Len(a) : a[i] <= now
  BY <1>1 DEF DequeOf
<1>8. \A d \in Clients : DequeOf(hits'[d], admitted'[d], now')
  <2> TAKE d \in Clients
  <2>1. CASE d # c
    BY <1>2, <1>5, <2>1 DEF IInv
  <2>2. CASE d = c
    <3> DEFINE b == Append(a, now)
               g == Append(e, now)
    <3>1. Len(g) <= Len(b) /\ Len(g) <= Max /\ Len(b) - Len(g) = Len(a) - Len(e)
      BY <1>1, <1>6, <1>7
    <3>2. \A i \in 1..Len(g) : g[i] = b[Len(b) - Len(g) + i]
      <4> TAKE i \in 1..Len(g)
      <4>1. CASE i = Len(g)
        <5>1. /\ Len(g) = Len(e) + 1 /\ Len(b) = Len(a) + 1
              /\ i = Len(e) + 1 /\ Len(b) - Len(g) + i = Len(a) + 1
          <6> HIDE DEF a
          <6> QED
            BY <1>6, <4>1
        <5> QED
          BY <1>6, <5>1
      <4>2. CASE i # Len(g)
        <5>1. i \in 1..Len(e) /\ Len(a) - Len(e) + i \in 1..Len(a)
          BY <1>6, <1>7, <4>2
        <5> QED
          BY <1>6, <1>7, <3>1, <5>1
      <4> QED
        BY <4>1, <4>2
    <3>3. \A i \in 1..(Len(b) - Len(g)) : b[i] + Window <= now
      <4> TAKE i \in 1..(Len(b) - Len(g))
      <4>1. i \in 1..(Len(a) - Len(e)) /\ i \in 1..Len(a)
        BY <1>6, <3>1
      <4> QED
        BY <1>6, <1>7, <4>1
    <3>4. \A i \in 1..Len(b) : b[i] <= now
      <4> TAKE i \in 1..Len(b)
      <4>1. i \in 1..Len(a) \/ i = Len(a) + 1
        BY <1>6
      <4> QED
        BY <1>1, <1>6, <1>7, <4>1
    <3>5. \A i, j \in 1..Len(b) : i <= j => b[i] <= b[j]
      <4> TAKE i, j \in 1..Len(b)
      <4>1. CASE j = Len(a) + 1
        BY <1>6, <3>4, <4>1
      <4>2. CASE j # Len(a) + 1
        <5>1. i <= j => i \in 1..Len(a) /\ j \in 1..Len(a)
          BY <1>6, <4>2
        <5> QED
          BY <1>6, <1>7, <5>1
      <4> QED
        BY <4>1, <4>2
    <3> HIDE DEF b, g
    <3>6. DequeOf(g, b, now)
      BY <3>1, <3>2, <3>3, <3>4, <3>5 DEF DequeOf
    <3>7. hits'[d] = g /\ admitted'[d] = b
      BY <1>4, <2>2 DEF b, g
    <3> QED
      BY <1>2, <3>6, <3>7 DEF DequeOf
  <2> QED
    BY <2>1, <2>2
<1>9. WindowBound'
  <2> SUFFICES ASSUME NEW d \in Clients, NEW i \in DOMAIN admitted'[d],
                      NEW j \in DOMAIN admitted'[d], i + Max <= j
               PROVE  admitted'[d][i] + Window <= admitted'[d][j]
    BY DEF WindowBound
  <2>1. CASE d # c
    BY <1>5, <2>1 DEF IInv, WindowBound
  <2>2. CASE d = c
    <3>1. /\ admitted'[d] = Append(a, now)
          /\ i \in 1..(Len(a) + 1) /\ j \in 1..(Len(a) + 1)
      <4>1. Append(a, now) \in Seq(Nat) /\ admitted'[d] = Append(a, now)
        BY <1>1, <1>4, <2>2
      <4>2. DOMAIN admitted'[d] = 1..(Len(a) + 1)
        BY <1>6, <4>1
      <4> QED
        BY <4>1, <4>2
    <3>2. CASE j \in 1..Len(a)
      <4>1. i \in 1..Len(a) /\ DOMAIN a = 1..Len(a)
        BY <1>1, <3>1, <3>2, SMTT(30)
      <4>2. a[i] + Window <= a[j]
        BY <2>2, <3>2, <4>1 DEF IInv, WindowBound
      <4> QED
        BY <1>6, <3>1, <3>2, <4>1, <4>2
    <3>3. CASE j = Len(a) + 1
      <4>1. i \in 1..(Len(a) - Len(e)) /\ i \in 1..Len(a)
        BY <1>1, <1>6, <1>7, <3>1, <3>3, SMTT(30)
      <4> QED
        BY <1>6, <1>7, <3>1, <3>3, <4>1
    <3> QED
      BY <1>6, <3>1, <3>2, <3>3
  <2> QED
    BY <2>1, <2>2
<1> QED
  BY <1>3, <1>8, <1>9 DEF IInv

\* A refused request only evicts.
LEMMA RefuseInv == ASSUME NEW c \in Clients, IInv, Refuse(c) PROVE IInv'
<1> DEFINE e == Evicted(hits[c])
<1>1. e \in Seq(Nat) /\ DequeOf(e, admitted[c], now) /\ now \in Nat
  BY EvictedIsDeque DEF IInv, TypeOK
<1>2. /\ hits' = [hits EXCEPT ![c] = e]
      /\ refused' = [refused EXCEPT ![c] = now]
      /\ now' = now /\ admitted' = admitted
  BY DEF Refuse
<1> HIDE DEF e
<1>3. TypeOK' /\ (now >= Window)'
  BY <1>1, <1>2 DEF IInv, TypeOK
<1>4. \A d \in Clients : DequeOf(hits'[d], admitted'[d], now')
  <2> TAKE d \in Clients
  <2>1. hits'[d] = IF d = c THEN e ELSE hits[d]
    BY <1>2 DEF IInv, TypeOK
  <2>2. DequeOf(hits'[d], admitted[d], now)
    BY <1>1, <2>1 DEF IInv
  <2> QED
    BY <1>2, <2>2 DEF DequeOf
<1>5. WindowBound'
  BY <1>2 DEF IInv, WindowBound
<1> QED
  BY <1>3, <1>4, <1>5 DEF IInv

\* Steps that change nothing keep the invariant.
LEMMA StutterInv == IInv /\ UNCHANGED vars => IInv'
  BY DEF IInv, TypeOK, DequeOf, WindowBound, vars

\* allow() keeps, for any number of clients, quota and window, the invariant IInv.
THEOREM Invariant == Spec => []IInv
<1>1. IInv /\ [Next]_vars => IInv'
  BY TickInv, AdmitInv, RefuseInv, StutterInv DEF Next
<1> QED
  BY InitInv, <1>1, PTL DEF Spec

\* allow() never lets more than Max requests of one key through in any window,
\* the sliding ones included.
THEOREM WindowIsBounded == Spec => []WindowBound
<1>1. IInv => WindowBound
  BY DEF IInv
<1> QED
  BY Invariant, <1>1, PTL

\* allow() answers False only to a key that has used its whole quota in the
\* window that ends now.
THEOREM NobodyElseRefused == Spec => OnlyOverQuotaRefused
<1> DEFINE Fair(c) == /\ Len(admitted[c]) >= Max
                      /\ admitted[c][Len(admitted[c]) - Max + 1] > now - Window
<1>1. ASSUME IInv, NEW c \in Clients, Refuse(c)
      PROVE  Fair(c)
  <2> DEFINE e == Evicted(hits[c])
             a == admitted[c]
  <2>1. /\ e \in Seq(Nat) /\ a \in Seq(Nat) /\ DequeOf(e, a, now) /\ Len(e) >= Max /\ Max \in Nat \ {0}
        /\ e # <<>> => e[1] > now - Window
    BY <1>1, EvictedIsDeque, LimiterAssumption DEF IInv, TypeOK, Refuse
  <2> HIDE DEF e
  <2>2. /\ Len(e) = Max /\ Len(e) <= Len(a)
        /\ \A i \in 1..Len(e) : e[i] = a[Len(a) - Len(e) + i]
    BY <2>1 DEF DequeOf
  <2>3. 1 \in 1..Len(e) /\ e # <<>>
    BY <2>1, <2>2
  <2> QED
    BY <2>1, <2>2, <2>3
<1>2. ASSUME IInv, [Next]_vars, NEW c \in Clients, refused'[c] # refused[c]
      PROVE  Refuse(c)
  <2>1. refused' # refused
    BY <1>2
  <2>2. PICK d \in Clients : Refuse(d)
    BY <1>2, <2>1 DEF Next, vars, Tick, Admit
  <2>3. d = c
    BY <1>2, <2>2 DEF Refuse, IInv, TypeOK
  <2> QED
    BY <2>2, <2>3
<1>3. IInv /\ [Next]_vars => [\A c \in Clients : refused'[c] # refused[c] => Fair(c)]_vars
  <2> SUFFICES ASSUME IInv, [Next]_vars, NEW c \in Clients, refused'[c] # refused[c]
               PROVE  Fair(c)
    OBVIOUS
  <2> QED
    BY <1>1, <1>2
<1>4. IInv /\ [Next]_vars =>
        [\A c \in Clients : refused'[c] # refused[c] =>
            /\ Len(admitted[c]) >= Max
            /\ admitted[c][Len(admitted[c]) - Max + 1] > now - Window]_vars
  BY <1>3
<1> QED
  BY Invariant, <1>4, PTL DEF Spec, OnlyOverQuotaRefused
=============================================================================
