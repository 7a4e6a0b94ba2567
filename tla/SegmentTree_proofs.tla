------------------------- MODULE SegmentTree_proofs -------------------------
(***************************************************************************)
(* Proofs about SegmentTree, for every definition: a recursion over a tree *)
(* has a solution, the removal of a leaf leaves exactly the other leaves   *)
(* and still compiles, and the group that decides says which way the       *)
(* selection goes.  An induction over a tree or along a path is the choice *)
(* of the least counterexample.                                            *)
(***************************************************************************)
EXTENDS SegmentTree, FiniteSetTheorems, SequenceTheorems, WellFoundedInduction, TLAPS

-----------------------------------------------------------------------------
(* Recursion. *)

\* Every non-empty set of natural numbers has a least element.
LEMMA LeastOf ==
    ASSUME NEW S \in SUBSET Nat, S # {}
    PROVE  \E s \in S : \A t \in S : s <= t
<1> DEFINE R == OpToRel(<, Nat)
<1>1. IsWellFoundedOn(R, Nat)
  BY NatLessThanWellFounded
<1>2. PICK s \in S : \A t \in S : <<t, s>> \notin R
  <2> HIDE DEF R
  <2> QED
    BY <1>1, WFMin
<1>3. \A t \in S : ~(t < s)
  BY <1>2 DEF OpToRel
<1> QED
  BY <1>3

\* A set of numbers up to L that has with each but L the next one, has L.
LEMMA Climb ==
    ASSUME NEW L \in Nat, NEW S \in SUBSET (0..L), S # {},
           \A n \in S : n < L => n + 1 \in S
    PROVE  L \in S
<1> DEFINE R == {L - n : n \in S}
<1>1. R \in SUBSET Nat /\ R # {}
  <2>1. \A n \in S : n \in 0..L /\ L - n \in Nat
    OBVIOUS
  <2> QED
    BY <2>1
<1>2. PICK r \in R : \A t \in R : r <= t
  <2> HIDE DEF R
  <2> QED
    BY <1>1, LeastOf
<1>3. PICK n \in S : r = L - n
  OBVIOUS
<1>4. n \in 0..L
  OBVIOUS
<1>5. n < L => L - (n + 1) \in R
  OBVIOUS
<1>6. ~(n < L)
  <2>1. n < L => L - n <= L - (n + 1)
    BY <1>2, <1>3, <1>5
  <2> QED
    BY <1>4, <2>1
<1>7. n = L
  BY <1>4, <1>6
<1> QED
  BY <1>7

\* F computes a function from D to V, and looks only at arguments of a lower rank.
Descends(F, D, V, rank) ==
    /\ F \in [[D -> V] -> [D -> V]]
    /\ \A f, g \in [D -> V] : \A p \in D :
           (\A q \in D : rank[q] < rank[p] => f[q] = g[q]) => F[f][p] = F[g][p]

\* Then the equation f = F[f] has a solution.
LEMMA Solution ==
    ASSUME NEW D, NEW V, NEW v \in V, NEW H \in Nat, NEW rank \in [D -> 0..H],
           NEW F, Descends(F, D, V, rank)
    PROVE  \E f \in [D -> V] : f = F[f]
<1> USE DEF Descends
<1> DEFINE Solves(f, n) == \A p \in D : rank[p] < n => f[p] = F[f][p]
           S == {n \in Nat : ~ \E f \in [D -> V] : Solves(f, n)}
<1>1. 0 \notin S
  <2>1. [p \in D |-> v] \in [D -> V] /\ Solves([p \in D |-> v], 0)
    OBVIOUS
  <2> QED
    BY <2>1
<1>2. ASSUME NEW n \in Nat, NEW f \in [D -> V], Solves(f, n)
      PROVE  F[f] \in [D -> V] /\ Solves(F[f], n + 1)
  <2>1. F[f] \in [D -> V]
    OBVIOUS
  <2>2. ASSUME NEW p \in D, rank[p] < n + 1
        PROVE  F[f][p] = F[F[f]][p]
    <3>1. \A q \in D : rank[q] < rank[p] => f[q] = F[f][q]
      <4>1. ASSUME NEW q \in D, rank[q] < rank[p] PROVE rank[q] < n
        BY <2>2, <4>1
      <4> QED
        BY <1>2, <4>1
    <3> HIDE DEF Solves
    <3> QED
      BY <2>1, <3>1
  <2> QED
    BY <2>1, <2>2
<1>3. S = {}
  <2> SUFFICES ASSUME S # {} PROVE FALSE
    OBVIOUS
  <2>1. PICK n \in S : \A m \in S : n <= m
    <3> HIDE DEF Solves
    <3> QED
      BY LeastOf
  <2>2. n \in Nat /\ n # 0 /\ n - 1 \in Nat /\ (n - 1) + 1 = n /\ n - 1 \notin S
    <3> HIDE DEF Solves
    <3> QED
      BY <1>1, <2>1
  <2>3. PICK f \in [D -> V] : Solves(f, n - 1)
    BY <2>2
  <2>4. F[f] \in [D -> V] /\ Solves(F[f], n)
    <3> HIDE DEF Solves
    <3> QED
      BY <1>2, <2>2, <2>3
  <2> QED
    BY <2>1, <2>4
<1>4. PICK f \in [D -> V] : Solves(f, H + 1)
  <2> DEFINE n == H + 1
  <2>1. n \in Nat /\ n \notin S
    <3> HIDE DEF S
    <3> QED
      BY <1>3
  <2> HIDE DEF n, Solves
  <2>2. \E f \in [D -> V] : Solves(f, n)
    BY <2>1
  <2> QED
    BY <2>2 DEF n
<1>5. f = F[f]
  <2>1. \A p \in D : rank[p] < H + 1
    OBVIOUS
  <2>2. \A p \in D : f[p] = F[f][p]
    BY <1>4, <2>1
  <2> QED
    BY <2>2
<1> HIDE DEF Solves
<1> QED
  BY <1>4, <1>5

-----------------------------------------------------------------------------
(* Paths. *)

\* The prefixes of a path.
LEMMA Prefixes ==
    ASSUME NEW p \in Seq(Nat \ {0}), NEW n \in 0..Len(p)
    PROVE  /\ Len(p) \in Nat
           /\ SubSeq(p, 1, n) \in Seq(Nat \ {0}) /\ Len(SubSeq(p, 1, n)) = n
           /\ \A i \in 1..n : SubSeq(p, 1, n)[i] = p[i]
           /\ n = 0 <=> SubSeq(p, 1, n) = <<>>
           /\ n = Len(p) => SubSeq(p, 1, n) = p
           /\ \A m \in 0..n : SubSeq(SubSeq(p, 1, n), 1, m) = SubSeq(p, 1, m)
           /\ n < Len(p) => /\ Append(SubSeq(p, 1, n), p[n + 1]) = SubSeq(p, 1, n + 1)
                            /\ p[n + 1] \in Nat \ {0}
<1>1. Len(p) \in Nat
  OBVIOUS
<1>2. ASSUME NEW m \in 0..Len(p)
      PROVE  /\ SubSeq(p, 1, m) \in Seq(Nat \ {0}) /\ Len(SubSeq(p, 1, m)) = m
             /\ \A i \in 1..m : SubSeq(p, 1, m)[i] = p[i]
  OBVIOUS
<1>3. n = 0 <=> SubSeq(p, 1, n) = <<>>
  BY <1>1, <1>2, EmptySeq
<1>4. n = Len(p) => SubSeq(p, 1, n) = p
  BY SubSeqFull
<1>5. ASSUME NEW m \in 0..n
      PROVE  SubSeq(SubSeq(p, 1, n), 1, m) = SubSeq(p, 1, m)
  <2> DEFINE q == SubSeq(p, 1, n)
             s == SubSeq(q, 1, m)
             t == SubSeq(p, 1, m)
  <2>1. /\ q \in Seq(Nat \ {0}) /\ Len(q) = n /\ \A i \in 1..n : q[i] = p[i]
        /\ t \in Seq(Nat \ {0}) /\ Len(t) = m /\ \A i \in 1..m : t[i] = p[i]
    BY <1>1, <1>2
  <2> HIDE DEF q, t
  <2>2. s \in Seq(Nat \ {0}) /\ Len(s) = m /\ \A i \in 1..m : s[i] = q[i]
    BY <1>1, <2>1
  <2> HIDE DEF s
  <2>3. \A i \in 1..m : s[i] = t[i]
    <3> TAKE i \in 1..m
    <3>1. i \in 1..n
      BY <1>1
    <3> QED
      BY <2>1, <2>2, <3>1
  <2>4. s = t
    BY <2>1, <2>2, <2>3, SeqEqual
  <2> QED
    BY <2>4 DEF s, t, q
<1>6. ASSUME n < Len(p)
      PROVE  /\ Append(SubSeq(p, 1, n), p[n + 1]) = SubSeq(p, 1, n + 1)
             /\ p[n + 1] \in Nat \ {0}
  <2> DEFINE q == SubSeq(p, 1, n)
             s == Append(q, p[n + 1])
             t == SubSeq(p, 1, n + 1)
  <2>1. /\ q \in Seq(Nat \ {0}) /\ Len(q) = n /\ \A i \in 1..n : q[i] = p[i]
        /\ t \in Seq(Nat \ {0}) /\ Len(t) = n + 1 /\ \A i \in 1..(n + 1) : t[i] = p[i]
        /\ p[n + 1] \in Nat \ {0}
    BY <1>1, <1>2, <1>6
  <2> HIDE DEF q, t
  <2>2. /\ s \in Seq(Nat \ {0}) /\ Len(s) = n + 1
        /\ \A i \in 1..n : s[i] = q[i]
        /\ s[n + 1] = p[n + 1]
    BY <2>1
  <2> HIDE DEF s
  <2>3. \A i \in 1..(n + 1) : s[i] = t[i]
    <3> TAKE i \in 1..(n + 1)
    <3>1. i \in 1..n \/ i = n + 1
      BY <1>1
    <3>2. t[i] = p[i]
      BY <2>1
    <3> QED
      BY <2>1, <2>2, <3>1, <3>2
  <2>4. s = t
    BY <2>1, <2>2, <2>3, SeqEqual
  <2> QED
    BY <2>1, <2>4 DEF s, t, q
<1> QED
  BY <1>1, <1>2, <1>3, <1>4, <1>5, <1>6

\* The paths one step down.
LEMMA Down ==
    ASSUME NEW p \in Seq(Nat \ {0}), NEW i \in Nat \ {0}
    PROVE  /\ Append(p, i) \in Seq(Nat \ {0}) /\ Len(Append(p, i)) = Len(p) + 1
           /\ Append(p, i) # <<>>
           /\ SubSeq(Append(p, i), 1, Len(p)) = p /\ Append(p, i)[Len(p) + 1] = i
  OBVIOUS

-----------------------------------------------------------------------------
(* The equations of the recursions. *)

KeptOf(d, path, kept, n) ==
    LET others == Rules(d, SubSeq(path, 1, n)) \ {path[n + 1]}
    IN  IF n + 1 < Len(path) /\ kept[n + 1] # {} THEN others \cup {path[n + 1]} ELSE others

\* What is kept of each group on the way to a node.
LEMMA KeptEquation ==
    ASSUME NEW d, NEW path \in Seq(Nat \ {0})
    PROVE  Kept(d, path) = [n \in 0..(Len(path) - 1) |-> KeptOf(d, path, Kept(d, path), n)]
<1> DEFINE D == 0..(Len(path) - 1)
           I == (UNION {Rules(d, SubSeq(path, 1, n)) : n \in D}) \cup {path[n + 1] : n \in D}
           V == SUBSET I
           rank == [n \in D |-> Len(path) - n]
           F == [k \in [D -> V] |-> [n \in D |-> KeptOf(d, path, k, n)]]
<1>1. Len(path) \in Nat /\ rank \in [D -> 0..Len(path)] /\ {} \in V
  OBVIOUS
<1>2. F \in [[D -> V] -> [D -> V]]
  <2>1. ASSUME NEW k \in [D -> V], NEW n \in D PROVE KeptOf(d, path, k, n) \in V
    <3>1. Rules(d, SubSeq(path, 1, n)) \subseteq I /\ path[n + 1] \in I
      OBVIOUS
    <3> HIDE DEF I
    <3> QED
      BY <3>1 DEF KeptOf
  <2> HIDE DEF D, V
  <2> QED
    BY <2>1
<1>3. ASSUME NEW f \in [D -> V], NEW g \in [D -> V], NEW n \in D,
             \A m \in D : rank[m] < rank[n] => f[m] = g[m]
      PROVE  F[f][n] = F[g][n]
  <2>1. n + 1 < Len(path) => f[n + 1] = g[n + 1]
    <3>1. n + 1 < Len(path) => n + 1 \in D /\ rank[n + 1] < rank[n]
      BY <1>1
    <3> HIDE DEF D, V, rank
    <3> QED
      BY <1>3, <3>1
  <2>2. KeptOf(d, path, f, n) = KeptOf(d, path, g, n)
    BY <2>1 DEF KeptOf
  <2>3. F[f][n] = KeptOf(d, path, f, n) /\ F[g][n] = KeptOf(d, path, g, n)
    <3> HIDE DEF D, V
    <3> QED
      OBVIOUS
  <2> QED
    BY <2>2, <2>3
<1>4. \E f \in [D -> V] : f = F[f]
  <2> HIDE DEF D, V, F, rank
  <2>1. Descends(F, D, V, rank)
    BY <1>2, <1>3 DEF Descends
  <2> QED
    BY <1>1, <2>1, Solution, SMTT(30)
<1>5. \E f : f = [n \in D |-> KeptOf(d, path, f, n)]
  BY <1>4
<1>6. Kept(d, path) = CHOOSE f : f = [n \in D |-> KeptOf(d, path, f, n)]
  BY DEF Kept, KeptOf
<1> HIDE DEF D
<1>7. Kept(d, path) = [n \in D |-> KeptOf(d, path, Kept(d, path), n)]
  BY <1>5, <1>6
<1> QED
  BY <1>7 DEF D

-----------------------------------------------------------------------------
(* Trees. *)

\* A tree has a height.
LEMMA Height ==
    ASSUME NEW d, IsTree(d)
    PROVE  \E H \in Nat : \A p \in DOMAIN d : Len(p) \in 0..H
<1> DEFINE N == Cardinality(DOMAIN d)
<1>1. N \in Nat /\ \A p \in DOMAIN d : Len(p) \in Nat
  BY FS_CardinalityType DEF IsTree
<1>2. PICK f : f \in Bijection(1..N, DOMAIN d)
  BY FS_CardinalityType DEF IsTree, ExistsBijection
<1>3. /\ \A i \in 1..N : f[i] \in DOMAIN d
      /\ \A p \in DOMAIN d : \E i \in 1..N : f[i] = p
  BY <1>2 DEF Bijection, Surjection
<1> DEFINE Bounded(k) == \E H \in Nat : \A i \in 1..k : Len(f[i]) <= H
           S == {k \in 0..N : ~Bounded(k)}
<1> HIDE DEF N
<1>4. S = {}
  <2> SUFFICES ASSUME S # {} PROVE FALSE
    OBVIOUS
  <2>1. S \in SUBSET Nat
    BY <1>1
  <2>2. PICK k \in S : \A m \in S : k <= m
    <3> HIDE DEF S
    <3> QED
      BY <2>1, LeastOf
  <2>3. Bounded(0)
    <3>1. \A i \in 1..0 : Len(f[i]) <= 0
      OBVIOUS
    <3> QED
      BY <3>1
  <2>4. k \in 1..N /\ k - 1 \in 0..N /\ k \in Nat
    <3> HIDE DEF Bounded
    <3> QED
      BY <1>1, <2>2, <2>3
  <2>5. k - 1 \notin S
    <3> HIDE DEF S
    <3> QED
      BY <2>2, <2>4
  <2>6. PICK H \in Nat : \A i \in 1..(k - 1) : Len(f[i]) <= H
    BY <2>4, <2>5
  <2>7. Len(f[k]) \in Nat
    BY <1>1, <1>3, <2>4
  <2>8. \A i \in 1..k : Len(f[i]) <= H + Len(f[k])
    <3> TAKE i \in 1..k
    <3>1. i \in 1..(k - 1) \/ i = k
      BY <2>4
    <3>2. Len(f[i]) \in Nat
      <4>1. i \in 1..N
        BY <1>1, <2>4
      <4> QED
        BY <1>1, <1>3, <4>1
    <3>3. i = k \/ Len(f[i]) <= H
      BY <2>6, <3>1
    <3> HIDE DEF Bounded, S
    <3> QED
      BY <2>7, <3>2, <3>3
  <2>9. H + Len(f[k]) \in Nat
    <3> HIDE DEF Bounded, S
    <3> QED
      BY <2>7
  <2>10. Bounded(k)
    BY <2>8, <2>9
  <2> QED
    BY <2>2, <2>10
<1>5. PICK H \in Nat : \A i \in 1..N : Len(f[i]) <= H
  <2>1. N \in 0..N
    BY <1>1
  <2>2. Bounded(N)
    <3> HIDE DEF Bounded
    <3> QED
      BY <1>4, <2>1
  <2> QED
    BY <2>2
<1>6. \A p \in DOMAIN d : Len(p) <= H
  BY <1>3, <1>5
<1> QED
  BY <1>1, <1>6

\* What is at a node, and its rules.
LEMMA NodeOf ==
    ASSUME NEW d, IsTree(d), NEW p \in DOMAIN d
    PROVE  /\ p \in Seq(Nat \ {0}) /\ Len(p) \in Nat
           /\ ~IsGroup(d, p) => d[p] \in Leaves /\ p # <<>>
           /\ IsGroup(d, p) => d[p] \in {"AND", "OR"}
           /\ \A i : i \in Rules(d, p) <=> i \in Nat \ {0} /\ Append(p, i) \in DOMAIN d
           /\ Rules(d, p) # {} => IsGroup(d, p)
<1>1. p \in Seq(Nat \ {0}) /\ Len(p) \in Nat /\ d # NoTree
  BY DEF IsTree, NoTree
<1>2. d[p] \in Leaves \cup {"AND", "OR"}
  BY DEF IsTree
<1>3. ASSUME NEW i, i \in Rules(d, p)
      PROVE  i \in Nat \ {0} /\ Append(p, i) \in DOMAIN d /\ IsGroup(d, p)
  <2>1. PICK q \in DOMAIN d \ {<<>>} : SubSeq(q, 1, Len(q) - 1) = p /\ i = q[Len(q)]
    BY <1>3 DEF Rules
  <2>2. q \in Seq(Nat \ {0}) /\ q # <<>>
    BY <2>1 DEF IsTree
  <2>3. Len(q) \in Nat /\ Len(q) >= 1
    BY <2>2, EmptySeq
  <2>4. i \in Nat \ {0} /\ Append(p, i) = q
    BY <2>1, <2>2, <2>3
  <2>5. IsGroup(d, p)
    BY <2>1 DEF IsTree
  <2> QED
    BY <2>1, <2>4, <2>5
<1>4. ASSUME NEW i \in Nat \ {0}, Append(p, i) \in DOMAIN d
      PROVE  i \in Rules(d, p)
  <2> DEFINE q == Append(p, i)
  <2>1. /\ Len(q) = Len(p) + 1 /\ q # <<>>
        /\ SubSeq(q, 1, Len(p)) = p /\ q[Len(p) + 1] = i
    BY <1>1, Down
  <2>2. SubSeq(q, 1, Len(q) - 1) = p /\ q[Len(q)] = i /\ q \in DOMAIN d \ {<<>>}
    BY <1>1, <1>4, <2>1
  <2> HIDE DEF q
  <2> QED
    BY <2>2 DEF Rules
<1>5. IsGroup(d, <<>>)
  BY <1>1 DEF IsTree
<1> QED
  BY <1>1, <1>2, <1>3, <1>4, <1>5 DEF IsGroup

\* With a node, everything above it is in the tree, and is a group.
LEMMA PathIn ==
    ASSUME NEW d, IsTree(d), NEW p \in DOMAIN d, NEW n \in 0..Len(p)
    PROVE  /\ SubSeq(p, 1, n) \in DOMAIN d
           /\ n < Len(p) => IsGroup(d, SubSeq(p, 1, n)) /\ p[n + 1] \in Rules(d, SubSeq(p, 1, n))
<1>1. p \in Seq(Nat \ {0}) /\ Len(p) \in Nat
  BY NodeOf
<1> DEFINE Inside(k) == SubSeq(p, 1, Len(p) - k) \in DOMAIN d
           S == {k \in 0..Len(p) : ~Inside(k)}
<1>2. Inside(0)
  <2>1. Len(p) \in 0..Len(p) /\ Len(p) - 0 = Len(p)
    BY <1>1
  <2>2. SubSeq(p, 1, Len(p)) = p
    BY <1>1, SubSeqFull
  <2> QED
    BY <2>1, <2>2
<1>3. ASSUME NEW k \in 1..Len(p), Inside(k - 1)
      PROVE  Inside(k)
  <2> DEFINE q == SubSeq(p, 1, Len(p) - (k - 1))
  <2>2. /\ Len(q) = Len(p) - (k - 1) /\ q # <<>>
        /\ SubSeq(q, 1, Len(q) - 1) = SubSeq(p, 1, Len(p) - k)
    <3> DEFINE m == Len(p) - (k - 1)
    <3>1. m \in 0..Len(p) /\ m # 0 /\ m - 1 = Len(p) - k /\ m - 1 \in 0..m
      BY <1>1
    <3> HIDE DEF m
    <3>2. /\ Len(SubSeq(p, 1, m)) = m /\ SubSeq(p, 1, m) # <<>>
          /\ SubSeq(SubSeq(p, 1, m), 1, m - 1) = SubSeq(p, 1, m - 1)
      <4>1. \A j \in 0..m : SubSeq(SubSeq(p, 1, m), 1, j) = SubSeq(p, 1, j)
        BY <1>1, <3>1, Prefixes
      <4>2. Len(SubSeq(p, 1, m)) = m /\ SubSeq(p, 1, m) # <<>>
        BY <1>1, <3>1, Prefixes
      <4> QED
        BY <3>1, <4>1, <4>2
    <3> QED
      BY <3>1, <3>2 DEF m
  <2>3. SubSeq(q, 1, Len(q) - 1) \in DOMAIN d
    <3>1. q \in DOMAIN d \ {<<>>}
      BY <1>3, <2>2
    <3> HIDE DEF q
    <3> QED
      BY <3>1 DEF IsTree
  <2> QED
    BY <2>2, <2>3
<1>4. S = {}
  <2> SUFFICES ASSUME S # {} PROVE FALSE
    OBVIOUS
  <2>1. S \in SUBSET Nat
    BY <1>1
  <2>2. PICK k \in S : \A m \in S : k <= m
    <3> HIDE DEF S
    <3> QED
      BY <2>1, LeastOf
  <2>3. k \in 1..Len(p) /\ k - 1 \in 0..Len(p)
    <3> HIDE DEF Inside
    <3> QED
      BY <1>1, <1>2, <2>2
  <2>4. k - 1 \notin S
    BY <2>1, <2>2, <2>3
  <2>5. Inside(k - 1)
    <3> HIDE DEF Inside
    <3> QED
      BY <2>3, <2>4
  <2>6. Inside(k)
    <3> HIDE DEF Inside
    <3> QED
      BY <1>3, <2>3, <2>5
  <2> QED
    BY <2>2, <2>6
<1>5. ASSUME NEW m \in 0..Len(p) PROVE SubSeq(p, 1, m) \in DOMAIN d
  <2>1. Len(p) - m \in 0..Len(p) /\ Len(p) - (Len(p) - m) = m
    BY <1>1
  <2>2. Inside(Len(p) - m)
    <3> HIDE DEF Inside
    <3> QED
      BY <1>4, <2>1
  <2> QED
    BY <2>1, <2>2
<1>6. ASSUME n < Len(p)
      PROVE  IsGroup(d, SubSeq(p, 1, n)) /\ p[n + 1] \in Rules(d, SubSeq(p, 1, n))
  <2> DEFINE q == SubSeq(p, 1, n)
  <2>1. n + 1 \in 0..Len(p)
    BY <1>1, <1>6
  <2>2. Append(q, p[n + 1]) = SubSeq(p, 1, n + 1) /\ p[n + 1] \in Nat \ {0}
    BY <1>1, <1>6, Prefixes
  <2>3. q \in DOMAIN d /\ Append(q, p[n + 1]) \in DOMAIN d
    BY <1>5, <2>1, <2>2
  <2> HIDE DEF q
  <2>4. p[n + 1] \in Rules(d, q) /\ IsGroup(d, q)
    BY <2>2, <2>3, NodeOf
  <2> QED
    BY <2>4 DEF q
<1> QED
  BY <1>5, <1>6

\* Nodes have ranks that fall on the way down.
LEMMA Ranked ==
    ASSUME NEW d, IsTree(d)
    PROVE  \E H \in Nat : \E rank \in [DOMAIN d -> 0..H] :
               \A p \in DOMAIN d : \A i \in Rules(d, p) :
                   Append(p, i) \in DOMAIN d /\ rank[Append(p, i)] < rank[p]
<1>1. PICK H \in Nat : \A p \in DOMAIN d : Len(p) \in 0..H
  BY Height
<1> DEFINE rank == [p \in DOMAIN d |-> H - Len(p)]
<1>2. rank \in [DOMAIN d -> 0..H]
  <2>1. \A p \in DOMAIN d : H - Len(p) \in 0..H
    BY <1>1
  <2> QED
    BY <2>1
<1>3. ASSUME NEW p \in DOMAIN d, NEW i \in Rules(d, p)
      PROVE  Append(p, i) \in DOMAIN d /\ rank[Append(p, i)] < rank[p]
  <2>1. p \in Seq(Nat \ {0}) /\ i \in Nat \ {0} /\ Append(p, i) \in DOMAIN d
    BY NodeOf
  <2>2. Len(Append(p, i)) = Len(p) + 1 /\ Len(p) \in Nat
    BY <2>1, Down
  <2> QED
    BY <2>1, <2>2
<1> HIDE DEF rank
<1> QED
  BY <1>2, <1>3

\* A lowest node of any set: no rule of it is in the set.
LEMMA Lowest ==
    ASSUME NEW d, IsTree(d), NEW S \in SUBSET DOMAIN d, S # {}
    PROVE  \E p \in S : \A i \in Rules(d, p) : Append(p, i) \in DOMAIN d \ S
<1>1. PICK H \in Nat : \E rank \in [DOMAIN d -> 0..H] :
               \A p \in DOMAIN d : \A i \in Rules(d, p) :
                   Append(p, i) \in DOMAIN d /\ rank[Append(p, i)] < rank[p]
  BY Ranked
<1>2. PICK rank \in [DOMAIN d -> 0..H] :
               \A p \in DOMAIN d : \A i \in Rules(d, p) :
                   Append(p, i) \in DOMAIN d /\ rank[Append(p, i)] < rank[p]
  BY <1>1
<1> DEFINE R == {rank[p] : p \in S}
<1>3. R \in SUBSET Nat /\ R # {}
  OBVIOUS
<1>4. PICK r \in R : \A t \in R : r <= t
  <2> HIDE DEF R
  <2> QED
    BY <1>3, LeastOf
<1>5. PICK p \in S : r = rank[p]
  OBVIOUS
<1>6. ASSUME NEW i \in Rules(d, p) PROVE Append(p, i) \in DOMAIN d \ S
  <2>1. Append(p, i) \in DOMAIN d /\ rank[Append(p, i)] < rank[p]
    BY <1>2
  <2>2. rank[Append(p, i)] \in Nat /\ rank[p] \in Nat
    BY <2>1
  <2> QED
    BY <1>4, <1>5, <2>1, <2>2
<1> QED
  BY <1>6

-----------------------------------------------------------------------------
(* The equations of the recursions over a tree. *)

SelectedOf(d, at, p) ==
    IF ~IsGroup(d, p) THEN Matching[d[p]]
    ELSE IF d[p] = "AND"
         THEN {c \in Customers : \A i \in Rules(d, p) : c \in at[Append(p, i)]}
         ELSE {c \in Customers : \E i \in Rules(d, p) : c \in at[Append(p, i)]}

\* Each part selects of the customers what its rules say.
LEMMA SelectedEquation ==
    ASSUME NEW d, IsTree(d)
    PROVE  /\ SelectedAt(d) \in [DOMAIN d -> SUBSET Customers]
           /\ \A p \in DOMAIN d : SelectedAt(d)[p] = SelectedOf(d, SelectedAt(d), p)
<1> DEFINE D == DOMAIN d
           V == SUBSET Customers
           F == [f \in [D -> V] |-> [p \in D |-> SelectedOf(d, f, p)]]
<1>1. ASSUME NEW f, NEW p \in D PROVE SelectedOf(d, f, p) \in V
  <2>1. ~IsGroup(d, p) => Matching[d[p]] \in V
    BY NodeOf, SegmentTreeAssumption
  <2> QED
    BY <2>1 DEF SelectedOf
<1>2. PICK H \in Nat : \E rank \in [D -> 0..H] :
               \A p \in D : \A i \in Rules(d, p) :
                   Append(p, i) \in D /\ rank[Append(p, i)] < rank[p]
  BY Ranked
<1>3. PICK rank \in [D -> 0..H] :
               \A p \in D : \A i \in Rules(d, p) :
                   Append(p, i) \in D /\ rank[Append(p, i)] < rank[p]
  BY <1>2
<1>4. ASSUME NEW f \in [D -> V], NEW g \in [D -> V], NEW p \in D,
             \A q \in D : rank[q] < rank[p] => f[q] = g[q]
      PROVE  F[f][p] = F[g][p]
  <2>1. \A i \in Rules(d, p) : f[Append(p, i)] = g[Append(p, i)]
    BY <1>3, <1>4
  <2>2. SelectedOf(d, f, p) = SelectedOf(d, g, p)
    BY <2>1 DEF SelectedOf
  <2> HIDE DEF D, V
  <2> QED
    BY <2>2
<1>5. Descends(F, D, V, rank)
  <2> HIDE DEF D, V
  <2>1. F \in [[D -> V] -> [D -> V]]
    BY <1>1
  <2> HIDE DEF F
  <2> QED
    BY <1>4, <2>1 DEF Descends
<1>6. \E f \in [D -> V] : f = F[f]
  <2>1. {} \in V
    OBVIOUS
  <2> HIDE DEF D, V, F
  <2> QED
    BY <1>5, <2>1, Solution
<1>7. \E f : f = [p \in D |-> SelectedOf(d, f, p)]
  BY <1>6
<1>8. SelectedAt(d) = CHOOSE f : f = [p \in D |-> SelectedOf(d, f, p)]
  BY DEF SelectedAt, SelectedOf
<1> HIDE DEF D, V
<1>9. SelectedAt(d) = [p \in D |-> SelectedOf(d, SelectedAt(d), p)]
  BY <1>7, <1>8
<1>10. /\ SelectedAt(d) \in [D -> V]
       /\ \A p \in D : SelectedAt(d)[p] = SelectedOf(d, SelectedAt(d), p)
  BY <1>1, <1>9
<1> QED
  BY <1>10 DEF D, V

FirstOf(S) == CHOOSE i \in S : \A j \in S : i <= j

VerdictOf(d, at, p) ==
    IF ~IsGroup(d, p) THEN CompileLeaf(d[p])
    ELSE IF Len(p) + 1 > MaxDepth THEN "rejected"
    ELSE LET bad == {i \in Rules(d, p) : at[Append(p, i)] # "ok"}
         IN  IF bad = {} THEN "ok" ELSE at[Append(p, FirstOf(bad))]

\* Each part compiles as its first bad rule says.
LEMMA VerdictEquation ==
    ASSUME NEW d, IsTree(d), NEW p \in DOMAIN d
    PROVE  Verdicts(d)[p] = VerdictOf(d, Verdicts(d), p)
<1> DEFINE D == DOMAIN d
           V == {"ok", "rejected", "overflow"}
           F == [f \in [D -> V] |-> [q \in D |-> VerdictOf(d, f, q)]]
<1>1. PICK H \in Nat : \E rank \in [D -> 0..H] :
               \A q \in D : \A i \in Rules(d, q) :
                   Append(q, i) \in D /\ rank[Append(q, i)] < rank[q]
  BY Ranked
<1>2. PICK rank \in [D -> 0..H] :
               \A q \in D : \A i \in Rules(d, q) :
                   Append(q, i) \in D /\ rank[Append(q, i)] < rank[q]
  BY <1>1
<1>3. ASSUME NEW q \in D, NEW bad \in SUBSET Rules(d, q), bad # {}
      PROVE  FirstOf(bad) \in bad
  <2>1. bad \in SUBSET Nat
    BY NodeOf
  <2>2. \E i \in bad : \A j \in bad : i <= j
    BY <1>3, <2>1, LeastOf
  <2> QED
    BY <2>2 DEF FirstOf
<1>4. ASSUME NEW f \in [D -> V], NEW q \in D PROVE VerdictOf(d, f, q) \in V
  <2> DEFINE bad == {i \in Rules(d, q) : f[Append(q, i)] # "ok"}
  <2>1. CompileLeaf(d[q]) \in V
    BY DEF CompileLeaf
  <2>2. bad # {} => f[Append(q, FirstOf(bad))] \in V
    <3>1. bad # {} => FirstOf(bad) \in Rules(d, q)
      BY <1>3
    <3> HIDE DEF bad, D, V
    <3> QED
      BY <1>2, <3>1
  <2> QED
    BY <2>1, <2>2 DEF VerdictOf
<1>5. ASSUME NEW f \in [D -> V], NEW g \in [D -> V], NEW q \in D,
             \A r \in D : rank[r] < rank[q] => f[r] = g[r]
      PROVE  F[f][q] = F[g][q]
  <2> DEFINE bad == {i \in Rules(d, q) : f[Append(q, i)] # "ok"}
  <2>1. \A i \in Rules(d, q) : f[Append(q, i)] = g[Append(q, i)]
    BY <1>2, <1>5
  <2>2. bad = {i \in Rules(d, q) : g[Append(q, i)] # "ok"}
    BY <2>1
  <2>3. bad # {} => FirstOf(bad) \in Rules(d, q)
    BY <1>3
  <2> HIDE DEF bad
  <2>4. bad # {} => f[Append(q, FirstOf(bad))] = g[Append(q, FirstOf(bad))]
    BY <2>1, <2>3
  <2>5. VerdictOf(d, f, q) = VerdictOf(d, g, q)
    BY <2>2, <2>4 DEF VerdictOf, bad
  <2> HIDE DEF D, V
  <2> QED
    BY <2>5
<1>6. Descends(F, D, V, rank)
  <2> HIDE DEF D, V
  <2>1. F \in [[D -> V] -> [D -> V]]
    BY <1>4
  <2> HIDE DEF F
  <2> QED
    BY <1>5, <2>1 DEF Descends
<1>7. \E f \in [D -> V] : f = F[f]
  <2>1. "ok" \in V
    OBVIOUS
  <2> HIDE DEF D, V, F
  <2> QED
    BY <1>2, <1>6, <2>1, Solution
<1>8. \E f : f = [q \in D |-> VerdictOf(d, f, q)]
  BY <1>7
<1>9. Verdicts(d) = CHOOSE f : f = [q \in D |-> VerdictOf(d, f, q)]
  BY DEF Verdicts, VerdictOf, FirstOf
<1> HIDE DEF D
<1>10. Verdicts(d) = [q \in D |-> VerdictOf(d, Verdicts(d), q)]
  BY <1>8, <1>9
<1> QED
  BY <1>10 DEF D

-----------------------------------------------------------------------------
(* Removal. *)

\* The path of a leaf passes through groups, and each keeps all rules but perhaps the
\* one on the path: that one stays if its group keeps any.
LEMMA KeptAt ==
    ASSUME NEW d, IsTree(d), NEW path \in LeafPaths(d)
    PROVE  LET kept == Kept(d, path)
           IN  /\ path \in DOMAIN d /\ path \in Seq(Nat \ {0}) /\ Len(path) \in Nat \ {0}
               /\ \A n \in 0..(Len(path) - 1) :
                      /\ SubSeq(path, 1, n) \in DOMAIN d /\ IsGroup(d, SubSeq(path, 1, n))
                      /\ path[n + 1] \in Rules(d, SubSeq(path, 1, n))
                      /\ kept[n] \subseteq Rules(d, SubSeq(path, 1, n))
                      /\ \A i \in Rules(d, SubSeq(path, 1, n)) : i = path[n + 1] \/ i \in kept[n]
                      /\ path[n + 1] \in kept[n] <=> n + 1 < Len(path) /\ kept[n + 1] # {}
<1> DEFINE kept == Kept(d, path)
<1>1. path \in DOMAIN d /\ path \in Seq(Nat \ {0}) /\ path # <<>> /\ Len(path) \in Nat
  BY NodeOf DEF LeafPaths
<1>2. Len(path) \in Nat \ {0}
  BY <1>1, EmptySeq
<1>3. ASSUME NEW n \in 0..(Len(path) - 1)
      PROVE  /\ SubSeq(path, 1, n) \in DOMAIN d /\ IsGroup(d, SubSeq(path, 1, n))
             /\ path[n + 1] \in Rules(d, SubSeq(path, 1, n))
             /\ kept[n] = KeptOf(d, path, kept, n)
  <2>1. n \in 0..Len(path) /\ n < Len(path)
    BY <1>2
  <2>2. kept = [m \in 0..(Len(path) - 1) |-> KeptOf(d, path, kept, m)]
    BY <1>1, KeptEquation
  <2> HIDE DEF kept
  <2>3. kept[n] = KeptOf(d, path, kept, n)
    BY <2>2
  <2> QED
    BY <1>1, <2>1, <2>3, PathIn
<1> HIDE DEF kept
<1>4. ASSUME NEW n \in 0..(Len(path) - 1)
      PROVE  /\ kept[n] \subseteq Rules(d, SubSeq(path, 1, n))
             /\ \A i \in Rules(d, SubSeq(path, 1, n)) : i = path[n + 1] \/ i \in kept[n]
             /\ path[n + 1] \in kept[n] <=> n + 1 < Len(path) /\ kept[n + 1] # {}
  <2> DEFINE R == Rules(d, SubSeq(path, 1, n))
             head == path[n + 1]
             deeper == n + 1 < Len(path) /\ kept[n + 1] # {}
  <2>1. kept[n] = IF deeper THEN (R \ {head}) \cup {head} ELSE R \ {head}
    BY <1>3 DEF KeptOf
  <2>2. head \in R
    BY <1>3
  <2> HIDE DEF R, head, deeper
  <2>3. /\ kept[n] \subseteq R
        /\ \A i \in R : i = head \/ i \in kept[n]
        /\ head \in kept[n] <=> deeper
    BY <2>1, <2>2
  <2> QED
    BY <2>3 DEF R, head, deeper
<1> QED
  BY <1>1, <1>2, <1>3, <1>4 DEF kept

Gone(d, path) ==
    {p \in DOMAIN d : \E n \in 1..Len(path) :
         n <= Len(p) /\ SubSeq(p, 1, n) = SubSeq(path, 1, n)
         /\ path[n] \notin Kept(d, path)[n - 1]}

\* A rule goes with its group, or as one that the group does not keep.
LEMMA RuleGone ==
    ASSUME NEW d, IsTree(d), NEW path \in LeafPaths(d), NEW x \in DOMAIN d, NEW i \in Rules(d, x)
    PROVE  Append(x, i) \in Gone(d, path) <=>
               \/ x \in Gone(d, path)
               \/ \E n \in 0..(Len(path) - 1) :
                      x = SubSeq(path, 1, n) /\ i = path[n + 1] /\ i \notin Kept(d, path)[n]
<1> DEFINE c == Append(x, i)
           L == Len(path)
           kept == Kept(d, path)
           l == Len(x)
<1>1. /\ path \in Seq(Nat \ {0}) /\ L \in Nat \ {0}
      /\ x \in Seq(Nat \ {0}) /\ l \in Nat /\ i \in Nat \ {0} /\ c \in DOMAIN d
  BY KeptAt, NodeOf
<1>2. c \in Seq(Nat \ {0}) /\ Len(c) = l + 1 /\ SubSeq(c, 1, l) = x /\ c[l + 1] = i
  BY <1>1, Down
<1> HIDE DEF c, L, kept
<1>3. SubSeq(c, 1, l + 1) = c /\ \A n \in 0..l : SubSeq(c, 1, n) = SubSeq(x, 1, n)
  <2>1. l \in 0..Len(c) /\ l + 1 \in 0..Len(c)
    BY <1>1, <1>2
  <2>2. SubSeq(c, 1, l + 1) = c
    BY <1>2, <2>1, Prefixes
  <2>3. \A n \in 0..l : SubSeq(SubSeq(c, 1, l), 1, n) = SubSeq(c, 1, n)
    BY <1>2, <2>1, Prefixes
  <2> QED
    BY <1>2, <2>2, <2>3
<1>4. ASSUME x \in Gone(d, path) PROVE c \in Gone(d, path)
  <2>1. PICK n \in 1..L : /\ n <= l /\ SubSeq(x, 1, n) = SubSeq(path, 1, n)
                          /\ path[n] \notin kept[n - 1]
    BY <1>4 DEF Gone, L, kept
  <2>2. n <= Len(c) /\ n \in 0..l
    BY <1>1, <1>2, <2>1
  <2>3. SubSeq(c, 1, n) = SubSeq(path, 1, n)
    BY <1>3, <2>1, <2>2
  <2> QED
    BY <1>1, <2>1, <2>2, <2>3 DEF Gone, L, kept
<1>5. ASSUME NEW n \in 0..(L - 1), x = SubSeq(path, 1, n), i = path[n + 1], i \notin kept[n]
      PROVE  c \in Gone(d, path)
  <2>1. n \in 0..L /\ n < L /\ n + 1 \in 1..L /\ (n + 1) - 1 = n
    BY <1>1
  <2>2. l = n /\ c = SubSeq(path, 1, n + 1)
    BY <1>1, <1>5, <2>1, Prefixes, SMTT(30) DEF c, L
  <2>3. /\ n + 1 <= Len(c) /\ SubSeq(c, 1, n + 1) = SubSeq(path, 1, n + 1)
        /\ path[n + 1] \notin kept[(n + 1) - 1]
    BY <1>2, <1>3, <1>5, <2>1, <2>2
  <2> QED
    BY <1>1, <2>1, <2>3 DEF Gone, L, kept
<1>6. ASSUME c \in Gone(d, path), x \notin Gone(d, path)
      PROVE  \E n \in 0..(L - 1) : x = SubSeq(path, 1, n) /\ i = path[n + 1] /\ i \notin kept[n]
  <2>1. PICK n \in 1..L : /\ n <= Len(c) /\ SubSeq(c, 1, n) = SubSeq(path, 1, n)
                          /\ path[n] \notin kept[n - 1]
    BY <1>6 DEF Gone, L, kept
  <2>2. n = l + 1
    <3>1. n <= l => SubSeq(x, 1, n) = SubSeq(path, 1, n)
      BY <1>1, <1>3, <2>1
    <3>2. ~(n <= l)
      BY <1>6, <2>1, <3>1 DEF Gone, L, kept
    <3> QED
      BY <1>1, <1>2, <2>1, <3>2
  <2>3. l \in 0..L /\ l \in 0..(L - 1) /\ l + 1 \in 0..L /\ l \in 0..(l + 1) /\ l + 1 \in 1..(l + 1)
    BY <1>1, <2>1, <2>2
  <2>4. c = SubSeq(path, 1, l + 1)
    BY <1>3, <2>1, <2>2
  <2>5. SubSeq(c, 1, l) = SubSeq(path, 1, l) /\ c[l + 1] = path[l + 1]
    <3>1. \A m \in 0..(l + 1) : SubSeq(SubSeq(path, 1, l + 1), 1, m) = SubSeq(path, 1, m)
      BY <1>1, <2>3, Prefixes DEF L
    <3>2. \A m \in 1..(l + 1) : SubSeq(path, 1, l + 1)[m] = path[m]
      BY <1>1, <2>3, Prefixes DEF L
    <3> QED
      BY <2>3, <2>4, <3>1, <3>2
  <2>6. x = SubSeq(path, 1, l) /\ i = path[l + 1] /\ i \notin kept[l]
    BY <1>1, <1>2, <2>1, <2>2, <2>5, SMTT(30)
  <2> QED
    BY <2>3, <2>6
<1> QED
  BY <1>4, <1>5, <1>6 DEF c, L, kept

\* What is left is a tree, unless the root goes.
LEMMA Pruned ==
    ASSUME NEW d, IsTree(d), NEW path \in LeafPaths(d)
    PROVE  LET e == RemoveAtPath(d, path)
               kept == Kept(d, path)
           IN  IF kept[0] = {} THEN e = NoTree
               ELSE /\ e # NoTree /\ IsTree(e)
                    /\ DOMAIN e = DOMAIN d \ Gone(d, path)
                    /\ \A p \in DOMAIN e : e[p] = d[p]
                    /\ \A p \in DOMAIN e : \A i : i \in Rules(e, p) <=>
                           i \in Rules(d, p) /\ Append(p, i) \notin Gone(d, path)
<1> DEFINE e == RemoveAtPath(d, path)
           kept == Kept(d, path)
           gone == Gone(d, path)
<1>1. e = IF kept[0] = {} THEN NoTree ELSE [p \in DOMAIN d \ gone |-> d[p]]
  BY DEF RemoveAtPath, Gone
<1>2. CASE kept[0] = {}
  BY <1>1, <1>2
<1>3. CASE kept[0] # {}
  <2> HIDE DEF e, kept
  <2>1. DOMAIN e = DOMAIN d \ gone /\ \A p \in DOMAIN e : e[p] = d[p]
    BY <1>1, <1>3
  <2>2. <<>> \in DOMAIN d /\ IsGroup(d, <<>>)
    <3>1. d # NoTree
      BY DEF LeafPaths, NoTree
    <3> QED
      BY <3>1 DEF IsTree
  <2>3. <<>> \in DOMAIN e
    <3>1. ~ \E n \in 1..Len(path) : n <= Len(<<>>)
      BY KeptAt, EmptySeq
    <3>2. <<>> \notin gone
      BY <3>1 DEF Gone
    <3> QED
      BY <2>1, <2>2, <3>2
  <2> HIDE DEF gone
  <2>4. e # NoTree
    BY <2>3 DEF NoTree
  <2>5. ASSUME NEW p \in DOMAIN e \ {<<>>}
        PROVE  LET above == SubSeq(p, 1, Len(p) - 1) IN above \in DOMAIN e /\ IsGroup(e, above)
    <3> DEFINE q == SubSeq(p, 1, Len(p) - 1)
               i == p[Len(p)]
    <3>1. p \in DOMAIN d /\ q \in DOMAIN d /\ IsGroup(d, q)
      BY <2>1, <2>5 DEF IsTree
    <3>2. p \in Seq(Nat \ {0}) /\ Len(p) \in Nat /\ p # <<>>
      BY <2>5, <3>1, NodeOf
    <3>3. Len(p) - 1 \in 0..Len(p) /\ Len(p) - 1 < Len(p) /\ (Len(p) - 1) + 1 = Len(p)
      BY <3>2, EmptySeq
    <3>4. i \in Rules(d, q)
      BY <3>1, <3>3, PathIn
    <3>5. Append(q, i) = p
      <4> DEFINE m == Len(p) - 1
      <4>1. m \in 0..Len(p) /\ m < Len(p) /\ m + 1 = Len(p)
        BY <3>3
      <4> HIDE DEF m
      <4>2. Append(SubSeq(p, 1, m), p[m + 1]) = SubSeq(p, 1, m + 1)
        BY <3>2, <4>1, Prefixes
      <4>3. SubSeq(p, 1, m + 1) = p
        BY <3>2, <4>1, SubSeqFull
      <4> QED
        BY <4>1, <4>2, <4>3 DEF m
    <3> HIDE DEF q, i
    <3>6. q \notin gone
      BY <2>1, <3>1, <3>4, <3>5, RuleGone DEF gone
    <3> QED
      BY <2>1, <3>1, <3>6 DEF IsGroup, q
  <2>6. IsTree(e)
    <3>1. e \in [DOMAIN e -> Leaves \cup {"AND", "OR"}]
      <4>1. e = [p \in DOMAIN e |-> d[p]]
        BY <1>1, <1>3, <2>1
      <4>2. \A p \in DOMAIN e : d[p] \in Leaves \cup {"AND", "OR"}
        BY <2>1 DEF IsTree
      <4> QED
        BY <4>1, <4>2
    <3>2. IsFiniteSet(DOMAIN e) /\ DOMAIN e \subseteq Seq(Nat \ {0})
      <4>1. DOMAIN e \in SUBSET DOMAIN d
        BY <2>1
      <4> QED
        BY <4>1, FS_Subset DEF IsTree
    <3>3. IsGroup(e, <<>>)
      BY <2>1, <2>2, <2>3 DEF IsGroup
    <3> QED
      BY <2>3, <2>5, <3>1, <3>2, <3>3 DEF IsTree
  <2>7. ASSUME NEW p \in DOMAIN e, NEW i
        PROVE  i \in Rules(e, p) <=> i \in Rules(d, p) /\ Append(p, i) \notin gone
    <3>1. i \in Rules(e, p) <=> i \in Nat \ {0} /\ Append(p, i) \in DOMAIN e
      BY <2>6, NodeOf
    <3>2. i \in Rules(d, p) <=> i \in Nat \ {0} /\ Append(p, i) \in DOMAIN d
      BY <2>1, NodeOf
    <3> QED
      BY <2>1, <3>1, <3>2
  <2> QED
    BY <1>3, <2>1, <2>4, <2>6, <2>7 DEF e, kept, gone
<1> QED
  BY <1>2, <1>3

\* The rules left in a group: those kept on the path, all of them elsewhere.
LEMMA PrunedRules ==
    ASSUME NEW d, IsTree(d), NEW path \in LeafPaths(d), Kept(d, path)[0] # {},
           NEW x \in DOMAIN RemoveAtPath(d, path)
    PROVE  LET e == RemoveAtPath(d, path)
           IN  /\ \A n \in 0..(Len(path) - 1) :
                      x = SubSeq(path, 1, n) => Rules(e, x) = Kept(d, path)[n]
               /\ (\A n \in 0..(Len(path) - 1) : x # SubSeq(path, 1, n)) => Rules(e, x) = Rules(d, x)
<1> DEFINE e == RemoveAtPath(d, path)
           kept == Kept(d, path)
           gone == Gone(d, path)
<1>1. /\ x \in DOMAIN d /\ x \notin gone
      /\ \A i : i \in Rules(e, x) <=> i \in Rules(d, x) /\ Append(x, i) \notin gone
  BY Pruned, ZenonT(60)
<1>2. \A i \in Rules(d, x) : Append(x, i) \in gone <=>
          \E n \in 0..(Len(path) - 1) : x = SubSeq(path, 1, n) /\ i = path[n + 1] /\ i \notin kept[n]
  BY <1>1, RuleGone
<1> HIDE DEF e, kept, gone
<1>3. ASSUME NEW n \in 0..(Len(path) - 1), x = SubSeq(path, 1, n)
      PROVE  Rules(e, x) = kept[n]
  <2>1. /\ kept[n] \subseteq Rules(d, x)
        /\ \A i \in Rules(d, x) : i = path[n + 1] \/ i \in kept[n]
    BY <1>3, KeptAt DEF kept
  <2>2. ASSUME NEW m \in 0..(Len(path) - 1), x = SubSeq(path, 1, m) PROVE m = n
    <3>1. path \in Seq(Nat \ {0}) /\ Len(path) \in Nat
      BY KeptAt
    <3>2. m \in 0..Len(path) /\ n \in 0..Len(path)
      BY <3>1
    <3>3. Len(x) = m /\ Len(x) = n
      BY <1>3, <2>2, <3>1, <3>2, Prefixes
    <3> QED
      BY <3>3
  <2>3. \A i \in Rules(d, x) : Append(x, i) \in gone <=> i = path[n + 1] /\ i \notin kept[n]
    BY <1>2, <1>3, <2>2
  <2> QED
    BY <1>1, <2>1, <2>3
<1>4. ASSUME \A n \in 0..(Len(path) - 1) : x # SubSeq(path, 1, n)
      PROVE  Rules(e, x) = Rules(d, x)
  BY <1>1, <1>2, <1>4
<1> QED
  BY <1>3, <1>4 DEF e, kept

\* A leaf goes only if it is the one at the path.
LEMMA OnlyTheLeaf ==
    ASSUME NEW d, IsTree(d), NEW path \in LeafPaths(d), NEW q \in LeafPaths(d),
           q \in Gone(d, path) \/ Kept(d, path)[0] = {}
    PROVE  q = path
<1> DEFINE L == Len(path)
           kept == Kept(d, path)
           S == {n \in 0..L : /\ n <= Len(q) /\ SubSeq(q, 1, n) = SubSeq(path, 1, n)
                              /\ n = L \/ kept[n] = {}}
<1>1. /\ path \in DOMAIN d /\ path \in Seq(Nat \ {0}) /\ L \in Nat \ {0} /\ ~IsGroup(d, path)
      /\ q \in DOMAIN d /\ q \in Seq(Nat \ {0}) /\ Len(q) \in Nat /\ ~IsGroup(d, q)
  BY KeptAt, NodeOf DEF LeafPaths
<1>2. \A n \in 0..(L - 1) :
          /\ IsGroup(d, SubSeq(path, 1, n))
          /\ \A i \in Rules(d, SubSeq(path, 1, n)) : i = path[n + 1] \/ i \in kept[n]
          /\ path[n + 1] \in kept[n] <=> n + 1 < L /\ kept[n + 1] # {}
  BY KeptAt
<1> HIDE DEF L, kept
<1>3. S # {}
  <2>1. CASE kept[0] = {}
    <3>1. SubSeq(q, 1, 0) = <<>> /\ SubSeq(path, 1, 0) = <<>>
      BY <1>1, Prefixes
    <3>2. 0 \in S
      BY <1>1, <2>1, <3>1
    <3> QED
      BY <3>2
  <2>2. CASE q \in Gone(d, path)
    <3>1. PICK n \in 1..L : /\ n <= Len(q) /\ SubSeq(q, 1, n) = SubSeq(path, 1, n)
                            /\ path[n] \notin kept[n - 1]
      BY <2>2 DEF Gone, L, kept
    <3>2. n - 1 \in 0..(L - 1) /\ (n - 1) + 1 = n /\ n \in 0..L
      BY <1>1
    <3>3. ~(n < L /\ kept[n] # {})
      BY <1>2, <3>1, <3>2
    <3>4. n = L \/ kept[n] = {}
      BY <1>1, <3>2, <3>3
    <3>5. n \in S
      BY <3>1, <3>2, <3>4
    <3> QED
      BY <3>5
  <2> QED
    BY <2>1, <2>2 DEF kept
<1>4. ASSUME NEW n \in S, n < L PROVE n + 1 \in S
  <2>1. /\ n \in 0..(L - 1) /\ n \in 0..L /\ n <= Len(q) /\ kept[n] = {} /\ n + 1 \in 0..L
        /\ SubSeq(q, 1, n) = SubSeq(path, 1, n)
    <3>1. /\ n \in 0..L /\ n <= Len(q) /\ SubSeq(q, 1, n) = SubSeq(path, 1, n)
          /\ n = L \/ kept[n] = {}
      OBVIOUS
    <3> HIDE DEF S
    <3> QED
      BY <1>1, <1>4, <3>1
  <2>2. n < Len(q)
    <3>1. IsGroup(d, SubSeq(q, 1, n))
      BY <1>2, <2>1
    <3>2. n # Len(q)
      <4>1. SubSeq(q, 1, Len(q)) = q
        BY <1>1, SubSeqFull
      <4> HIDE DEF S
      <4> QED
        BY <1>1, <3>1, <4>1
    <3> QED
      BY <1>1, <2>1, <3>2
  <2>3. n \in 0..Len(q) /\ n + 1 \in 0..Len(q)
    BY <1>1, <2>1, <2>2
  <2>4. q[n + 1] \in Rules(d, SubSeq(path, 1, n))
    BY <1>1, <2>1, <2>2, <2>3, PathIn
  <2>5. q[n + 1] = path[n + 1]
    BY <1>2, <2>1, <2>4
  <2>6. SubSeq(q, 1, n + 1) = SubSeq(path, 1, n + 1)
    <3>1. Append(SubSeq(q, 1, n), q[n + 1]) = SubSeq(q, 1, n + 1)
      BY <1>1, <2>2, <2>3, Prefixes
    <3>2. Append(SubSeq(path, 1, n), path[n + 1]) = SubSeq(path, 1, n + 1)
      BY <1>1, <1>4, <2>1, Prefixes DEF L
    <3> QED
      BY <2>1, <2>5, <3>1, <3>2
  <2>7. n + 1 = L \/ kept[n + 1] = {}
    <3>1. ~(n + 1 < L /\ kept[n + 1] # {})
      BY <1>2, <2>1
    <3> QED
      BY <1>1, <2>1, <3>1
  <2> QED
    BY <2>1, <2>2, <2>3, <2>6, <2>7
<1>5. L \in S
  <2>1. S \in SUBSET (0..L)
    OBVIOUS
  <2> HIDE DEF S
  <2> QED
    BY <1>1, <1>3, <1>4, <2>1, Climb
<1>6. L <= Len(q) /\ SubSeq(q, 1, L) = path
  <2>1. SubSeq(path, 1, L) = path
    BY <1>1, SubSeqFull DEF L
  <2>2. L <= Len(q) /\ SubSeq(q, 1, L) = SubSeq(path, 1, L)
    BY <1>5
  <2> QED
    BY <2>1, <2>2
<1>7. L = Len(q)
  <2>1. L \in 0..Len(q)
    BY <1>1, <1>6
  <2>2. L < Len(q) => IsGroup(d, path)
    BY <1>1, <1>6, <2>1, PathIn
  <2> QED
    BY <1>1, <1>6, <2>2
<1> QED
  BY <1>1, <1>6, <1>7, SubSeqFull

\* The leaves left are all the others.
LEMMA PrunedLeaves ==
    ASSUME NEW d, IsTree(d), NEW path \in LeafPaths(d)
    PROVE  LET e == RemoveAtPath(d, path)
           IN  /\ LeafPaths(e) = LeafPaths(d) \ {path}
               /\ e = NoTree => LeafPaths(d) = {path}
<1> DEFINE e == RemoveAtPath(d, path)
           kept == Kept(d, path)
<1>1. CASE kept[0] = {}
  <2>1. e = NoTree
    BY <1>1, Pruned
  <2>2. LeafPaths(d) = {path}
    BY <1>1, OnlyTheLeaf
  <2>3. LeafPaths(NoTree) = {}
    BY DEF LeafPaths, NoTree
  <2> HIDE DEF e
  <2> QED
    BY <2>1, <2>2, <2>3 DEF e
<1>2. CASE kept[0] # {}
  <2>1. /\ e # NoTree /\ DOMAIN e = DOMAIN d \ Gone(d, path)
        /\ \A p \in DOMAIN e : e[p] = d[p]
    BY <1>2, Pruned
  <2>2. path \in Gone(d, path)
    <3> DEFINE L == Len(path)
    <3>1. /\ path \in DOMAIN d /\ path \in Seq(Nat \ {0}) /\ L \in Nat \ {0}
          /\ L - 1 \in 0..(L - 1) /\ (L - 1) + 1 = L /\ L \in 1..L
      BY KeptAt
    <3>2. path[L] \notin kept[L - 1]
      BY <3>1, KeptAt
    <3> QED
      BY <3>1, <3>2 DEF Gone
  <2>3. \A q \in LeafPaths(d) : q \in Gone(d, path) <=> q = path
    BY <2>2, OnlyTheLeaf
  <2> HIDE DEF e
  <2>4. LeafPaths(e) = {q \in LeafPaths(d) : q \notin Gone(d, path)}
    BY <2>1 DEF LeafPaths, IsGroup
  <2> QED
    BY <2>1, <2>3, <2>4 DEF e
<1> QED
  BY <1>1, <1>2

\* No group of what is left is empty.
LEMMA PrunedWellFormed ==
    ASSUME NEW d, IsTree(d), WellFormed(d), NEW path \in LeafPaths(d), Kept(d, path)[0] # {}
    PROVE  WellFormed(RemoveAtPath(d, path))
<1> DEFINE e == RemoveAtPath(d, path)
           kept == Kept(d, path)
           L == Len(path)
<1>1. /\ e # NoTree /\ DOMAIN e = DOMAIN d \ Gone(d, path)
      /\ \A x \in DOMAIN e : e[x] = d[x]
  BY Pruned
<1>2. /\ path \in Seq(Nat \ {0}) /\ L \in Nat \ {0}
      /\ \A n \in 0..(L - 1) : path[n + 1] \in kept[n] <=> n + 1 < L /\ kept[n + 1] # {}
  BY KeptAt
<1>3. ASSUME NEW x \in DOMAIN e, IsGroup(e, x)
      PROVE  Rules(e, x) # {}
  <2>1. CASE \E n \in 0..(L - 1) : x = SubSeq(path, 1, n)
    <3>1. PICK n \in 0..(L - 1) : x = SubSeq(path, 1, n)
      BY <2>1
    <3>2. Rules(e, x) = kept[n]
      BY <3>1, PrunedRules
    <3>3. CASE n = 0
      BY <3>2, <3>3
    <3>4. CASE n # 0
      <4>1. n \in 1..L /\ n \in 0..L /\ n - 1 \in 0..(L - 1) /\ (n - 1) + 1 = n
        BY <1>2, <3>4
      <4>2. Len(x) = n /\ SubSeq(x, 1, n) = SubSeq(path, 1, n)
        <5>1. \A m \in 0..n : SubSeq(SubSeq(path, 1, n), 1, m) = SubSeq(path, 1, m)
          BY <1>2, <4>1, Prefixes
        <5>2. n \in 0..n
          BY <4>1
        <5> QED
          BY <1>2, <3>1, <4>1, <5>1, <5>2, Prefixes
      <4>3. x \in DOMAIN d /\ x \notin Gone(d, path)
        BY <1>1
      <4> HIDE DEF e, kept, L
      <4>4. path[n] \in kept[n - 1]
        BY <4>1, <4>2, <4>3 DEF Gone, kept, L
      <4>5. kept[n] # {}
        BY <1>2, <4>1, <4>4
      <4> QED
        BY <3>2, <4>5
    <3> QED
      BY <3>3, <3>4
  <2>2. CASE \A n \in 0..(L - 1) : x # SubSeq(path, 1, n)
    <3>1. Rules(e, x) = Rules(d, x)
      BY <2>2, PrunedRules
    <3>2. x \in DOMAIN d /\ IsGroup(d, x)
      BY <1>1, <1>3 DEF IsGroup
    <3> QED
      BY <3>1, <3>2 DEF WellFormed
  <2> QED
    BY <2>1, <2>2
<1> HIDE DEF e
<1> QED
  BY <1>1, <1>3 DEF WellFormed, e

-----------------------------------------------------------------------------
(* Verdicts. *)

\* A part compiles if and only if it is a leaf that does, or a group that is not
\* too deep and whose rules all do.
LEMMA Compiles ==
    ASSUME NEW d, IsTree(d), NEW p \in DOMAIN d
    PROVE  Verdicts(d)[p] = "ok" <=>
               IF ~IsGroup(d, p) THEN CompileLeaf(d[p]) = "ok"
               ELSE /\ ~(Len(p) + 1 > MaxDepth)
                    /\ \A i \in Rules(d, p) : Verdicts(d)[Append(p, i)] = "ok"
<1> DEFINE at == Verdicts(d)
           bad == {i \in Rules(d, p) : at[Append(p, i)] # "ok"}
<1>1. at[p] = VerdictOf(d, at, p)
  BY VerdictEquation
<1>2. bad \in SUBSET Nat
  BY NodeOf
<1>3. bad # {} => FirstOf(bad) \in bad
  <2> HIDE DEF bad
  <2> QED
    BY <1>2, LeastOf DEF FirstOf
<1>4. bad # {} => at[Append(p, FirstOf(bad))] # "ok"
  BY <1>3
<1> HIDE DEF at
<1> QED
  BY <1>1, <1>4 DEF VerdictOf, at

\* What compiles, compiles in all its parts.
LEMMA AllCompiles ==
    ASSUME NEW d, IsTree(d), d # NoTree, Verdicts(d)[<<>>] = "ok", NEW p \in DOMAIN d
    PROVE  Verdicts(d)[p] = "ok"
<1> DEFINE L == Len(p)
           S == {n \in 0..L : Verdicts(d)[SubSeq(p, 1, n)] = "ok"}
<1>1. p \in Seq(Nat \ {0}) /\ L \in Nat
  BY NodeOf
<1> HIDE DEF L
<1>2. 0 \in S
  <2>1. 0 \in 0..L /\ SubSeq(p, 1, 0) = <<>>
    BY <1>1, Prefixes DEF L
  <2> QED
    BY <2>1
<1>3. ASSUME NEW n \in S, n < L PROVE n + 1 \in S
  <2>1. n \in 0..L /\ Verdicts(d)[SubSeq(p, 1, n)] = "ok"
    OBVIOUS
  <2> DEFINE q == SubSeq(p, 1, n)
  <2>2. q \in DOMAIN d /\ IsGroup(d, q) /\ p[n + 1] \in Rules(d, q)
    BY <1>3, <2>1, PathIn DEF L
  <2>3. Append(q, p[n + 1]) = SubSeq(p, 1, n + 1)
    BY <1>1, <1>3, <2>1, Prefixes DEF L
  <2> HIDE DEF q
  <2>4. Verdicts(d)[Append(q, p[n + 1])] = "ok"
    BY <2>1, <2>2, Compiles DEF q
  <2>5. n + 1 \in 0..L
    BY <1>1, <1>3, <2>1
  <2> QED
    BY <2>3, <2>4, <2>5
<1>4. L \in S
  <2>1. S \in SUBSET (0..L)
    OBVIOUS
  <2> HIDE DEF S
  <2> QED
    BY <1>1, <1>2, <1>3, <2>1, Climb
<1>5. SubSeq(p, 1, L) = p
  BY <1>1, SubSeqFull DEF L
<1> QED
  BY <1>4, <1>5

\* What is left of a definition that compiles, compiles.
LEMMA PrunedCompiles ==
    ASSUME NEW d, IsTree(d), Verdict(d) = "ok", NEW path \in LeafPaths(d), Kept(d, path)[0] # {}
    PROVE  Verdict(RemoveAtPath(d, path)) = "ok"
<1> DEFINE e == RemoveAtPath(d, path)
           S == {x \in DOMAIN e : Verdicts(e)[x] # "ok"}
<1>1. /\ e # NoTree /\ IsTree(e) /\ DOMAIN e \subseteq DOMAIN d
      /\ \A x \in DOMAIN e : e[x] = d[x]
      /\ \A x \in DOMAIN e : \A i \in Rules(e, x) : i \in Rules(d, x)
  BY Pruned, ZenonT(60)
<1>2. LeafPaths(e) = LeafPaths(d) \ {path}
  BY PrunedLeaves
<1> HIDE DEF e
<1>3. Cardinality(LeafPaths(d)) <= MaxLeaves /\ Verdicts(d)[<<>>] = "ok"
  <2>1. IsFiniteSet(LeafPaths(d))
    <3>1. LeafPaths(d) \in SUBSET DOMAIN d
      BY DEF LeafPaths
    <3> QED
      BY <3>1, FS_Subset DEF IsTree
  <2>2. Cardinality(LeafPaths(d)) \in Nat
    BY <2>1, FS_CardinalityType
  <2> QED
    BY <2>2, SegmentTreeAssumption DEF Verdict
<1>4. ~(Cardinality(LeafPaths(e)) > MaxLeaves)
  <2>1. IsFiniteSet(LeafPaths(d))
    <3>1. LeafPaths(d) \in SUBSET DOMAIN d
      BY DEF LeafPaths
    <3> QED
      BY <3>1, FS_Subset DEF IsTree
  <2>2. IsFiniteSet(LeafPaths(e)) /\ Cardinality(LeafPaths(e)) <= Cardinality(LeafPaths(d))
    <3>1. LeafPaths(e) \in SUBSET LeafPaths(d)
      BY <1>2
    <3> QED
      BY <2>1, <3>1, FS_Subset
  <2>3. Cardinality(LeafPaths(e)) \in Nat /\ Cardinality(LeafPaths(d)) \in Nat
    BY <2>1, <2>2, FS_CardinalityType
  <2> QED
    BY <1>3, <2>2, <2>3, SegmentTreeAssumption
<1>5. d # NoTree
  BY DEF LeafPaths, NoTree
<1>6. S = {}
  <2> SUFFICES ASSUME S # {} PROVE FALSE
    OBVIOUS
  <2>1. S \in SUBSET DOMAIN e
    OBVIOUS
  <2>2. PICK x \in S : \A i \in Rules(e, x) : Append(x, i) \in DOMAIN e \ S
    <3> HIDE DEF S
    <3> QED
      BY <1>1, <2>1, Lowest
  <2>3. x \in DOMAIN e /\ x \in DOMAIN d /\ e[x] = d[x]
    BY <1>1
  <2>4. Verdicts(d)[x] = "ok"
    BY <1>3, <1>5, <2>3, AllCompiles
  <2>5. \A i \in Rules(e, x) : Verdicts(e)[Append(x, i)] = "ok"
    BY <2>2
  <2> HIDE DEF S
  <2>6. IF ~IsGroup(d, x) THEN CompileLeaf(d[x]) = "ok" ELSE ~(Len(x) + 1 > MaxDepth)
    BY <2>3, <2>4, Compiles
  <2>7. Verdicts(e)[x] = "ok"
    BY <1>1, <2>3, <2>5, <2>6, Compiles DEF IsGroup
  <2> QED
    BY <2>7 DEF S
<1>7. <<>> \in DOMAIN e
  BY <1>1 DEF IsTree
<1>8. Verdicts(e)[<<>>] = "ok"
  BY <1>6, <1>7
<1> QED
  BY <1>4, <1>8 DEF Verdict, e

\* The removal of a leaf leaves exactly the other leaves, and what still compiles.
THEOREM PruningExact ==
    ASSUME NEW d, IsTree(d), WellFormed(d), Verdict(d) = "ok", NEW path \in LeafPaths(d)
    PROVE  LET pruned == RemoveAtPath(d, path)
           IN  /\ LeafPaths(pruned) = LeafPaths(d) \ {path}
               /\ IF pruned = NoTree THEN LeafPaths(d) = {path}
                  ELSE WellFormed(pruned) /\ Verdict(pruned) = "ok"
  BY PrunedLeaves, PrunedWellFormed, PrunedCompiles, Pruned

-----------------------------------------------------------------------------
(* Marginal impact. *)

\* A group has one rule, or one with each choice of it another.
LEMMA OtherRules ==
    ASSUME NEW d, IsTree(d), NEW p \in DOMAIN d, NEW i \in Rules(d, p)
    PROVE  Cardinality(Rules(d, p)) > 1 <=> Rules(d, p) \ {i} # {}
<1> DEFINE T == {q \in DOMAIN d \ {<<>>} : SubSeq(q, 1, Len(q) - 1) = p}
           R == Rules(d, p)
           f == [q \in T |-> q[Len(q)]]
<1>1. IsFiniteSet(T)
  <2>1. T \in SUBSET DOMAIN d
    OBVIOUS
  <2> HIDE DEF T
  <2> QED
    BY <2>1, FS_Subset DEF IsTree
<1>2. R = {q[Len(q)] : q \in T}
  BY DEF Rules
<1> HIDE DEF T, R
<1>3. f \in Surjection(T, R)
  BY <1>2 DEF Surjection
<1>4. IsFiniteSet(R)
  <2> HIDE DEF f
  <2> QED
    BY <1>1, <1>3, FS_Surjection
<1>5. i \in R
  BY DEF R
<1>6. Cardinality(R) \in Nat /\ IsFiniteSet(R \ {i}) /\ Cardinality(R \ {i}) = Cardinality(R) - 1
  BY <1>4, <1>5, FS_CardinalityType, FS_RemoveElement
<1>7. Cardinality(R \ {i}) = 0 <=> R \ {i} = {}
  BY <1>6, FS_EmptySet
<1>8. Cardinality(R \ {i}) \in Nat
  BY <1>6, FS_CardinalityType
<1> QED
  BY <1>6, <1>7, <1>8 DEF R

\* Nothing is kept on the way down from a group when no group from there on has
\* another rule.
LEMMA NothingKept ==
    ASSUME NEW d, IsTree(d), NEW path \in LeafPaths(d), NEW n \in 0..(Len(path) - 1),
           \A m \in n..(Len(path) - 1) : ~(Cardinality(Rules(d, SubSeq(path, 1, m))) > 1)
    PROVE  Kept(d, path)[n] = {}
<1> DEFINE L == Len(path)
           kept == Kept(d, path)
           S == {m \in n..(L - 1) : kept[m] # {}}
<1>1. /\ L \in Nat \ {0} /\ n \in 0..(L - 1)
      /\ \A m \in 0..(L - 1) : /\ SubSeq(path, 1, m) \in DOMAIN d
                               /\ path[m + 1] \in Rules(d, SubSeq(path, 1, m))
                               /\ kept[m] \subseteq Rules(d, SubSeq(path, 1, m))
                               /\ path[m + 1] \in kept[m] <=> m + 1 < L /\ kept[m + 1] # {}
  BY KeptAt
<1>2. \A m \in n..(L - 1) : ~(Cardinality(Rules(d, SubSeq(path, 1, m))) > 1)
  OBVIOUS
<1> HIDE DEF kept, L
<1>3. ASSUME NEW m \in S PROVE m + 1 < L /\ kept[m + 1] # {}
  <2>1. m \in n..(L - 1) /\ m \in 0..(L - 1) /\ kept[m] # {}
    BY <1>1
  <2>2. Rules(d, SubSeq(path, 1, m)) \ {path[m + 1]} = {}
    BY <1>1, <1>2, <2>1, OtherRules
  <2>3. path[m + 1] \in kept[m]
    BY <1>1, <2>1, <2>2
  <2> QED
    BY <1>1, <2>1, <2>3
<1>4. S = {}
  <2> SUFFICES ASSUME S # {} PROVE FALSE
    OBVIOUS
  <2>1. S \in SUBSET (0..(L - 1)) /\ L - 1 \in Nat
    BY <1>1
  <2>2. \A m \in S : m + 1 \in S
    <3> TAKE m \in S
    <3>1. m \in n..(L - 1) /\ m + 1 < L /\ kept[m + 1] # {}
      BY <1>3
    <3>2. m + 1 \in n..(L - 1)
      BY <1>1, <3>1
    <3> QED
      BY <3>1, <3>2
  <2>3. L - 1 \in S
    <3> HIDE DEF S
    <3> QED
      BY <2>1, <2>2, Climb
  <2>4. (L - 1) + 1 < L
    BY <1>3, <2>3
  <2> QED
    BY <1>1, <2>4
<1>5. n \in n..(L - 1)
  BY <1>1
<1> QED
  BY <1>4, <1>5 DEF kept

\* The last group on the way that has another rule.
Decides(d, path, m) ==
    /\ m \in 0..(Len(path) - 1)
    /\ Cardinality(Rules(d, SubSeq(path, 1, m))) > 1
    /\ \A k \in (m + 1)..(Len(path) - 1) : ~(Cardinality(Rules(d, SubSeq(path, 1, k))) > 1)

\* The last group on the way with another rule loses the rule on the way, those
\* above it nothing.
LEMMA KeptToDeciding ==
    ASSUME NEW d, IsTree(d), NEW path \in LeafPaths(d), NEW m, Decides(d, path, m)
    PROVE  LET kept == Kept(d, path)
           IN  /\ kept[m] = Rules(d, SubSeq(path, 1, m)) \ {path[m + 1]}
               /\ \A n \in 0..m : kept[n] # {}
               /\ \A n \in 0..(m - 1) : kept[n] = Rules(d, SubSeq(path, 1, n))
<1> DEFINE L == Len(path)
           kept == Kept(d, path)
           prefix(n) == SubSeq(path, 1, n)
<1>1. /\ L \in Nat \ {0} /\ m \in 0..(L - 1)
      /\ \A n \in 0..(L - 1) :
             /\ prefix(n) \in DOMAIN d
             /\ path[n + 1] \in Rules(d, prefix(n))
             /\ kept[n] \subseteq Rules(d, prefix(n))
             /\ \A i \in Rules(d, prefix(n)) : i = path[n + 1] \/ i \in kept[n]
             /\ path[n + 1] \in kept[n] <=> n + 1 < L /\ kept[n + 1] # {}
  BY KeptAt DEF Decides
<1>2. m + 1 < L => kept[m + 1] = {}
  <2> SUFFICES ASSUME m + 1 < L PROVE kept[m + 1] = {}
    OBVIOUS
  <2> DEFINE n == m + 1
  <2>1. n \in 0..(L - 1)
    BY <1>1
  <2> HIDE DEF n
  <2>2. \A k \in n..(Len(path) - 1) : ~(Cardinality(Rules(d, SubSeq(path, 1, k))) > 1)
    BY DEF n, Decides
  <2>3. Kept(d, path)[n] = {}
    BY <2>1, <2>2, NothingKept
  <2> QED
    BY <2>3 DEF n
<1>3. Rules(d, prefix(m)) \ {path[m + 1]} # {}
  BY <1>1, OtherRules DEF Decides
<1> HIDE DEF kept, L, prefix
<1>4. kept[m] = Rules(d, prefix(m)) \ {path[m + 1]}
  <2>1. path[m + 1] \notin kept[m]
    BY <1>1, <1>2
  <2> QED
    BY <1>1, <2>1
<1>5. \A n \in 0..m : kept[n] # {}
  <2> DEFINE S == {n \in 0..m : \A k \in n..m : kept[k] # {}}
  <2>1. m \in S
    <3>1. \A k \in m..m : k = m
      BY <1>1
    <3> QED
      BY <1>1, <1>3, <1>4, <3>1
  <2>2. S \in SUBSET Nat /\ S # {}
    <3>1. S \in SUBSET (0..m)
      OBVIOUS
    <3> HIDE DEF S
    <3> QED
      BY <1>1, <2>1, <3>1
  <2>3. PICK n \in S : \A k \in S : n <= k
    <3> HIDE DEF S
    <3> QED
      BY <2>2, LeastOf
  <2>4. n \in 0..m /\ \A k \in n..m : kept[k] # {}
    BY <2>3
  <2>5. n = 0
    <3> SUFFICES ASSUME n # 0 PROVE FALSE
      OBVIOUS
    <3>1. n - 1 \in 0..m /\ n - 1 \in 0..(L - 1) /\ (n - 1) + 1 = n /\ n < L /\ n \in n..m
      BY <1>1, <2>4
    <3>2. kept[n - 1] # {}
      BY <1>1, <2>4, <3>1
    <3>3. \A k \in (n - 1)..m : kept[k] # {}
      <4> TAKE k \in (n - 1)..m
      <4>1. k = n - 1 \/ k \in n..m
        BY <2>4
      <4> QED
        BY <2>4, <3>2, <4>1
    <3>4. n - 1 \in S
      BY <3>1, <3>3
    <3>5. n <= n - 1
      <4> HIDE DEF S
      <4> QED
        BY <2>3, <3>4
    <3> QED
      BY <2>4, <3>5
  <2> QED
    BY <2>4, <2>5
<1>6. ASSUME NEW n \in 0..(m - 1) PROVE kept[n] = Rules(d, prefix(n))
  <2>1. n \in 0..(L - 1) /\ n + 1 \in 0..m /\ n + 1 < L
    BY <1>1
  <2>2. path[n + 1] \in kept[n]
    BY <1>1, <1>5, <2>1
  <2> QED
    BY <1>1, <2>1, <2>2
<1> QED
  BY <1>4, <1>5, <1>6 DEF kept, prefix

\* More customers pass every rule of a group, more pass the group.
LEMMA Monotone ==
    ASSUME NEW d, IsTree(d), NEW e, IsTree(e),
           NEW p \in DOMAIN d, p \in DOMAIN e, d[p] = e[p], IsGroup(d, p),
           Rules(d, p) = Rules(e, p),
           \A i \in Rules(d, p) :
               SelectedAt(d)[Append(p, i)] \subseteq SelectedAt(e)[Append(p, i)]
    PROVE  SelectedAt(d)[p] \subseteq SelectedAt(e)[p]
<1> DEFINE dn(i) == SelectedAt(d)[Append(p, i)]
           en(i) == SelectedAt(e)[Append(p, i)]
           R == Rules(d, p)
<1>1. SelectedAt(d)[p] = IF d[p] = "AND" THEN {c \in Customers : \A i \in R : c \in dn(i)}
                                         ELSE {c \in Customers : \E i \in R : c \in dn(i)}
  BY SelectedEquation, ZenonT(60) DEF SelectedOf
<1>2. SelectedAt(e)[p] = IF d[p] = "AND" THEN {c \in Customers : \A i \in R : c \in en(i)}
                                         ELSE {c \in Customers : \E i \in R : c \in en(i)}
  <2>1. SelectedAt(e)[p] = SelectedOf(e, SelectedAt(e), p)
    BY SelectedEquation
  <2>2. IsGroup(e, p)
    BY DEF IsGroup
  <2> QED
    BY <2>1, <2>2 DEF SelectedOf
<1>3. \A i \in R : dn(i) \subseteq en(i)
  OBVIOUS
<1> HIDE DEF dn, en, R
<1> QED
  BY <1>1, <1>2, <1>3

\* What is left of the tree along the way to the deciding group, and elsewhere.
LEMMA PrunedShape ==
    ASSUME NEW d, IsTree(d), NEW path \in LeafPaths(d), NEW m, Decides(d, path, m)
    PROVE  LET e == RemoveAtPath(d, path)
               prefix(n) == SubSeq(path, 1, n)
           IN  /\ e # NoTree /\ IsTree(e) /\ DOMAIN e \subseteq DOMAIN d
               /\ \A x \in DOMAIN e : e[x] = d[x]
               /\ \A n \in 0..m : prefix(n) \in DOMAIN e /\ IsGroup(d, prefix(n))
               /\ Rules(e, prefix(m)) = Rules(d, prefix(m)) \ {path[m + 1]}
               /\ \A n \in 0..(m - 1) : Rules(e, prefix(n)) = Rules(d, prefix(n))
               /\ \A x \in DOMAIN e : (\A n \in 0..m : x # prefix(n)) => Rules(e, x) = Rules(d, x)
<1> DEFINE L == Len(path)
           e == RemoveAtPath(d, path)
           kept == Kept(d, path)
           prefix(n) == SubSeq(path, 1, n)
<1>1. /\ L \in Nat \ {0} /\ m \in 0..(L - 1) /\ path \in Seq(Nat \ {0})
      /\ \A n \in 0..(L - 1) : /\ prefix(n) \in DOMAIN d /\ IsGroup(d, prefix(n))
                               /\ path[n + 1] \in Rules(d, prefix(n))
  BY KeptAt DEF Decides
<1>2. /\ kept[m] = Rules(d, prefix(m)) \ {path[m + 1]}
      /\ \A n \in 0..m : kept[n] # {}
      /\ \A n \in 0..(m - 1) : kept[n] = Rules(d, prefix(n))
  BY KeptToDeciding
<1>3. kept[0] # {}
  BY <1>1, <1>2
<1>4. /\ e # NoTree /\ IsTree(e) /\ DOMAIN e = DOMAIN d \ Gone(d, path)
      /\ \A x \in DOMAIN e : e[x] = d[x]
  BY <1>3, Pruned
<1>5. \A n \in 0..L : Len(prefix(n)) = n /\ \A k \in 0..n : SubSeq(prefix(n), 1, k) = prefix(k)
  BY <1>1, Prefixes
<1>6. \A x \in DOMAIN e : /\ \A n \in 0..(L - 1) : x = prefix(n) => Rules(e, x) = kept[n]
                          /\ (\A n \in 0..(L - 1) : x # prefix(n)) => Rules(e, x) = Rules(d, x)
  BY <1>3, PrunedRules
<1>7. Gone(d, path) = {x \in DOMAIN d : \E k \in 1..L :
          k <= Len(x) /\ SubSeq(x, 1, k) = prefix(k) /\ path[k] \notin kept[k - 1]}
  BY DEF Gone
<1> HIDE DEF L, e, kept, prefix
<1>8. ASSUME NEW n \in 0..m PROVE prefix(n) \in DOMAIN e
  <2> SUFFICES ASSUME prefix(n) \in Gone(d, path) PROVE FALSE
    BY <1>1, <1>4
  <2>1. PICK k \in 1..L : k <= Len(prefix(n)) /\ path[k] \notin kept[k - 1]
    BY <1>7
  <2>2. n \in 0..L /\ k \in 1..n
    BY <1>1, <1>5, <2>1
  <2>3. k - 1 \in 0..(m - 1) /\ k - 1 \in 0..(L - 1) /\ (k - 1) + 1 = k
    BY <1>1, <2>2
  <2>4. path[k] \in kept[k - 1]
    BY <1>1, <1>2, <2>3
  <2> QED
    BY <2>1, <2>4
<1>9. ASSUME NEW n \in (m + 1)..(L - 1) PROVE prefix(n) \notin DOMAIN e
  <2>1. m + 1 \in 1..L /\ m + 1 <= n /\ (m + 1) - 1 = m /\ n \in 0..L /\ m + 1 \in 0..n
        /\ n \in 0..(L - 1)
    BY <1>1
  <2>2. m + 1 <= Len(prefix(n)) /\ SubSeq(prefix(n), 1, m + 1) = prefix(m + 1)
    BY <1>5, <2>1
  <2>3. path[m + 1] \notin kept[(m + 1) - 1]
    BY <1>2, <2>1
  <2>4. prefix(n) \in Gone(d, path)
    BY <1>1, <1>7, <2>1, <2>2, <2>3
  <2> QED
    BY <1>4, <2>4
<1>10. ASSUME NEW x \in DOMAIN e, \A n \in 0..m : x # prefix(n)
       PROVE  Rules(e, x) = Rules(d, x)
  <2>1. \A n \in 0..(L - 1) : x # prefix(n)
    <3> TAKE n \in 0..(L - 1)
    <3>1. n \in 0..m \/ n \in (m + 1)..(L - 1)
      BY <1>1
    <3> QED
      BY <1>9, <1>10, <3>1
  <2> QED
    BY <1>6, <2>1
<1>11. ASSUME NEW n \in 0..m PROVE n \in 0..(L - 1) /\ Rules(e, prefix(n)) = kept[n]
  <2>1. n \in 0..(L - 1)
    BY <1>1
  <2> QED
    BY <1>6, <1>8, <2>1
<1>12. m \in 0..m /\ \A n \in 0..(m - 1) : n \in 0..m
  BY <1>1
<1>13. Rules(e, prefix(m)) = Rules(d, prefix(m)) \ {path[m + 1]}
  BY <1>2, <1>11, <1>12
<1>14. \A n \in 0..(m - 1) : Rules(e, prefix(n)) = Rules(d, prefix(n))
  BY <1>2, <1>11, <1>12
<1>15. \A n \in 0..m : prefix(n) \in DOMAIN e /\ IsGroup(d, prefix(n))
  BY <1>1, <1>8, <1>11
<1> QED
  BY <1>4, <1>10, <1>13, <1>14, <1>15 DEF e, prefix

\* A rule on the way is the next node of it, and no other is.
LEMMA OnTheWay ==
    ASSUME NEW path \in Seq(Nat \ {0}), NEW n \in 0..(Len(path) - 1), NEW k \in 0..Len(path),
           NEW x \in Seq(Nat \ {0}), NEW i \in Nat \ {0}, Append(x, i) = SubSeq(path, 1, k)
    PROVE  /\ k > 0 /\ x = SubSeq(path, 1, k - 1) /\ i = path[k]
           /\ x = SubSeq(path, 1, n) => k = n + 1
<1>1. Len(path) \in Nat /\ n \in 0..Len(path)
  BY Prefixes
<1>2. Len(x) \in Nat /\ Len(Append(x, i)) = Len(x) + 1
      /\ SubSeq(Append(x, i), 1, Len(x)) = x /\ Append(x, i)[Len(x) + 1] = i
  BY Down
<1>3. Len(SubSeq(path, 1, k)) = k /\ Len(SubSeq(path, 1, n)) = n
  BY <1>1, Prefixes
<1>4. k = Len(x) + 1 /\ k - 1 = Len(x) /\ k - 1 \in 0..k /\ k \in 1..k /\ k > 0
  BY <1>2, <1>3
<1>5. SubSeq(SubSeq(path, 1, k), 1, k - 1) = SubSeq(path, 1, k - 1) /\ SubSeq(path, 1, k)[k] = path[k]
  <2>1. /\ \A j \in 1..k : SubSeq(path, 1, k)[j] = path[j]
        /\ \A j \in 0..k : SubSeq(SubSeq(path, 1, k), 1, j) = SubSeq(path, 1, j)
    BY Prefixes
  <2> QED
    BY <1>4, <2>1
<1>6. x = SubSeq(path, 1, k - 1) /\ i = path[k]
  BY <1>2, <1>4, <1>5
<1>7. x = SubSeq(path, 1, n) => k = n + 1
  BY <1>1, <1>3, <1>4
<1> QED
  BY <1>4, <1>6, <1>7

\* Elsewhere the selections stay the same.
LEMMA SameElsewhere ==
    ASSUME NEW d, IsTree(d), NEW path \in LeafPaths(d), NEW m, Decides(d, path, m),
           NEW y \in DOMAIN RemoveAtPath(d, path), \A n \in 0..m : y # SubSeq(path, 1, n)
    PROVE  SelectedAt(RemoveAtPath(d, path))[y] = SelectedAt(d)[y]
<1> DEFINE e == RemoveAtPath(d, path)
           prefix(n) == SubSeq(path, 1, n)
           S == {x \in DOMAIN e : /\ \A n \in 0..m : x # prefix(n)
                                  /\ SelectedAt(e)[x] # SelectedAt(d)[x]}
<1>1. /\ IsTree(e) /\ DOMAIN e \subseteq DOMAIN d
      /\ \A x \in DOMAIN e : e[x] = d[x]
      /\ \A x \in DOMAIN e : (\A n \in 0..m : x # prefix(n)) => Rules(e, x) = Rules(d, x)
  BY PrunedShape
<1>2. path \in Seq(Nat \ {0}) /\ Len(path) \in Nat \ {0} /\ m \in 0..(Len(path) - 1)
  BY KeptAt DEF Decides
<1> HIDE DEF e
<1>3. S = {}
  <2> SUFFICES ASSUME S # {} PROVE FALSE
    OBVIOUS
  <2>1. S \in SUBSET DOMAIN e
    OBVIOUS
  <2>2. PICK x \in S : \A i \in Rules(e, x) : Append(x, i) \in DOMAIN e \ S
    <3> HIDE DEF S
    <3> QED
      BY <1>1, <2>1, Lowest
  <2>3. /\ x \in DOMAIN e /\ x \in DOMAIN d /\ e[x] = d[x]
        /\ \A n \in 0..m : x # prefix(n)
        /\ SelectedAt(e)[x] # SelectedAt(d)[x]
    BY <1>1
  <2>4. Rules(e, x) = Rules(d, x)
    BY <1>1, <2>3
  <2>5. ASSUME NEW i \in Rules(e, x)
        PROVE  SelectedAt(e)[Append(x, i)] = SelectedAt(d)[Append(x, i)]
    <3>1. x \in Seq(Nat \ {0}) /\ i \in Nat \ {0}
      BY <1>1, <2>3, NodeOf
    <3>2. ASSUME NEW n \in 0..m PROVE Append(x, i) # prefix(n)
      <4> SUFFICES ASSUME Append(x, i) = prefix(n) PROVE FALSE
        OBVIOUS
      <4>1. n \in 0..Len(path)
        BY <1>2
      <4>2. n > 0 /\ x = prefix(n - 1)
        BY <1>2, <3>1, <4>1, OnTheWay
      <4>3. n - 1 \in 0..m
        BY <1>2, <4>2
      <4> QED
        BY <2>3, <4>2, <4>3
    <3>3. Append(x, i) \in DOMAIN e /\ Append(x, i) \notin S
      BY <2>2
    <3> HIDE DEF prefix
    <3> QED
      BY <3>2, <3>3
  <2> HIDE DEF S, prefix
  <2>6. SelectedAt(e)[x] = SelectedOf(e, SelectedAt(e), x)
    BY <1>1, <2>3, SelectedEquation
  <2>7. SelectedAt(d)[x] = SelectedOf(d, SelectedAt(d), x)
    BY <2>3, SelectedEquation
  <2>8. IsGroup(e, x) <=> IsGroup(d, x)
    BY <2>3 DEF IsGroup
  <2>9. SelectedOf(e, SelectedAt(e), x) = SelectedOf(d, SelectedAt(d), x)
    BY <2>3, <2>4, <2>5, <2>8 DEF SelectedOf
  <2> QED
    BY <2>3, <2>6, <2>7, <2>9
<1>4. y \in DOMAIN e
  BY DEF e
<1> QED
  BY <1>3, <1>4 DEF e

\* An OR that loses a rule selects no more, an AND no less.
LEMMA SignAtDeciding ==
    ASSUME NEW d, IsTree(d), NEW path \in LeafPaths(d), NEW m, Decides(d, path, m)
    PROVE  LET at == SelectedAt(d)[SubSeq(path, 1, m)]
               left == SelectedAt(RemoveAtPath(d, path))[SubSeq(path, 1, m)]
           IN  IF d[SubSeq(path, 1, m)] = "OR" THEN left \subseteq at ELSE at \subseteq left
<1> DEFINE e == RemoveAtPath(d, path)
           g == SubSeq(path, 1, m)
           dn(i) == SelectedAt(d)[Append(g, i)]
           en(i) == SelectedAt(e)[Append(g, i)]
<1>1. path \in Seq(Nat \ {0}) /\ Len(path) \in Nat \ {0} /\ m \in 0..(Len(path) - 1)
  BY KeptAt DEF Decides
<1>2. /\ IsTree(e) /\ DOMAIN e \subseteq DOMAIN d
      /\ \A x \in DOMAIN e : e[x] = d[x]
      /\ \A n \in 0..m : SubSeq(path, 1, n) \in DOMAIN e /\ IsGroup(d, SubSeq(path, 1, n))
      /\ Rules(e, g) = Rules(d, g) \ {path[m + 1]}
  BY PrunedShape
<1>3. g \in DOMAIN e /\ g \in DOMAIN d /\ IsGroup(d, g) /\ e[g] = d[g] /\ g \in Seq(Nat \ {0})
  <2>1. m \in 0..m /\ m \in 0..Len(path)
    BY <1>1
  <2> QED
    BY <1>1, <1>2, <2>1, Prefixes
<1>4. ASSUME NEW i \in Rules(e, g)
      PROVE  en(i) = dn(i)
  <2>1. i \in Nat \ {0} /\ Append(g, i) \in DOMAIN e
    BY <1>2, <1>3, NodeOf
  <2>2. ASSUME NEW n \in 0..m PROVE Append(g, i) # SubSeq(path, 1, n)
    <3> SUFFICES ASSUME Append(g, i) = SubSeq(path, 1, n) PROVE FALSE
      OBVIOUS
    <3>1. n \in 0..Len(path)
      BY <1>1
    <3>2. g = SubSeq(path, 1, m) => n = m + 1
      <4> HIDE DEF g
      <4> QED
        BY <1>1, <1>3, <2>1, <3>1, OnTheWay DEF g
    <3> QED
      BY <1>1, <3>2
  <2> HIDE DEF g, e
  <2> QED
    BY <2>1, <2>2, SameElsewhere DEF e
<1>5. SelectedAt(d)[g] = SelectedOf(d, SelectedAt(d), g)
  BY <1>3, SelectedEquation
<1>6. SelectedAt(e)[g] = SelectedOf(e, SelectedAt(e), g)
  <2> HIDE DEF e, g
  <2> QED
    BY <1>2, <1>3, SelectedEquation
<1>7. d[g] \in {"AND", "OR"} /\ IsGroup(e, g)
  <2> HIDE DEF e, g
  <2> QED
    BY <1>2, <1>3, NodeOf DEF IsGroup
<1> HIDE DEF e, g
<1>8. SelectedAt(d)[g] = IF d[g] = "AND" THEN {c \in Customers : \A i \in Rules(d, g) : c \in dn(i)}
                         ELSE {c \in Customers : \E i \in Rules(d, g) : c \in dn(i)}
  BY <1>3, <1>5 DEF SelectedOf
<1>9. SelectedAt(e)[g] = IF d[g] = "AND" THEN {c \in Customers : \A i \in Rules(e, g) : c \in en(i)}
                         ELSE {c \in Customers : \E i \in Rules(e, g) : c \in en(i)}
  BY <1>3, <1>6, <1>7 DEF SelectedOf
<1>10. Rules(e, g) \subseteq Rules(d, g)
  BY <1>2
<1> HIDE DEF dn, en
<1>11. CASE d[g] = "OR"
  <2>1. SelectedAt(d)[g] = {c \in Customers : \E i \in Rules(d, g) : c \in dn(i)}
    BY <1>8, <1>11
  <2>2. SelectedAt(e)[g] = {c \in Customers : \E i \in Rules(e, g) : c \in en(i)}
    BY <1>9, <1>11
  <2>3. SelectedAt(e)[g] \subseteq SelectedAt(d)[g]
    BY <1>4, <1>10, <2>1, <2>2
  <2> QED
    BY <1>11, <2>3 DEF e, g
<1>12. CASE d[g] = "AND"
  <2>1. SelectedAt(d)[g] = {c \in Customers : \A i \in Rules(d, g) : c \in dn(i)}
    BY <1>8, <1>12
  <2>2. SelectedAt(e)[g] = {c \in Customers : \A i \in Rules(e, g) : c \in en(i)}
    BY <1>9, <1>12
  <2>3. SelectedAt(d)[g] \subseteq SelectedAt(e)[g]
    BY <1>4, <1>10, <2>1, <2>2
  <2> QED
    BY <1>12, <2>3 DEF e, g
<1> QED
  BY <1>7, <1>11, <1>12

\* What the deciding group selects more or less, the definition does.
LEMMA SignAtRoot ==
    ASSUME NEW d, IsTree(d), NEW path \in LeafPaths(d), NEW m, Decides(d, path, m)
    PROVE  IF d[SubSeq(path, 1, m)] = "OR"
           THEN Selected(RemoveAtPath(d, path)) \subseteq Selected(d)
           ELSE Selected(d) \subseteq Selected(RemoveAtPath(d, path))
<1> DEFINE e == RemoveAtPath(d, path)
           prefix(n) == SubSeq(path, 1, n)
           less(X, Y) == IF d[prefix(m)] = "OR" THEN Y \subseteq X ELSE X \subseteq Y
           S == {n \in 0..m : less(SelectedAt(d)[prefix(n)], SelectedAt(e)[prefix(n)])}
<1>1. path \in Seq(Nat \ {0}) /\ Len(path) \in Nat \ {0} /\ m \in 0..(Len(path) - 1)
  BY KeptAt DEF Decides
<1>2. /\ IsTree(e) /\ DOMAIN e \subseteq DOMAIN d
      /\ \A x \in DOMAIN e : e[x] = d[x]
      /\ \A n \in 0..m : prefix(n) \in DOMAIN e /\ IsGroup(d, prefix(n))
      /\ \A n \in 0..(m - 1) : Rules(e, prefix(n)) = Rules(d, prefix(n))
  BY PrunedShape
<1>3. m \in S
  <2>1. less(SelectedAt(d)[prefix(m)], SelectedAt(e)[prefix(m)])
    BY SignAtDeciding
  <2> QED
    BY <1>1, <2>1
<1>4. ASSUME NEW n \in S, n # 0 PROVE n - 1 \in S
  <2> DEFINE x == prefix(n - 1)
  <2>1. n \in 0..m /\ less(SelectedAt(d)[prefix(n)], SelectedAt(e)[prefix(n)])
    OBVIOUS
  <2>2. /\ n - 1 \in 0..(m - 1) /\ n - 1 \in 0..m /\ n - 1 \in 0..(Len(path) - 1) /\ (n - 1) + 1 = n
        /\ n - 1 \in 0..Len(path)
    BY <1>1, <1>4, <2>1
  <2>3. /\ x \in DOMAIN e /\ x \in DOMAIN d /\ e[x] = d[x] /\ IsGroup(d, x) /\ IsGroup(e, x)
        /\ Rules(e, x) = Rules(d, x) /\ x \in Seq(Nat \ {0})
    BY <1>1, <1>2, <2>2, Prefixes DEF IsGroup
  <2>4. ASSUME NEW i \in Rules(d, x)
        PROVE  less(SelectedAt(d)[Append(x, i)], SelectedAt(e)[Append(x, i)])
    <3>1. i \in Nat \ {0} /\ Append(x, i) \in DOMAIN e
      <4> HIDE DEF e, x
      <4> QED
        BY <1>2, <2>3, NodeOf
    <3>2. CASE Append(x, i) = prefix(n)
      BY <2>1, <3>2
    <3>3. CASE Append(x, i) # prefix(n)
      <4>1. ASSUME NEW k \in 0..m PROVE Append(x, i) # prefix(k)
        <5> SUFFICES ASSUME Append(x, i) = prefix(k) PROVE FALSE
          OBVIOUS
        <5>1. k \in 0..Len(path)
          BY <1>1
        <5> DEFINE j == n - 1
        <5>2. j \in 0..(Len(path) - 1) /\ x = SubSeq(path, 1, j) /\ j + 1 = n
          BY <2>2
        <5> HIDE DEF j, x
        <5>3. k = j + 1
          BY <1>1, <2>3, <3>1, <5>1, <5>2, OnTheWay
        <5> QED
          BY <3>3, <5>2, <5>3
      <4> HIDE DEF x, e
      <4>2. SelectedAt(e)[Append(x, i)] = SelectedAt(d)[Append(x, i)]
        BY <3>1, <4>1, SameElsewhere DEF e
      <4> QED
        BY <4>2
    <3> QED
      BY <3>2, <3>3
  <2>5. less(SelectedAt(d)[x], SelectedAt(e)[x])
    <3> HIDE DEF e, x, prefix
    <3>1. CASE d[prefix(m)] = "OR"
      BY <1>2, <2>3, <2>4, <3>1, Monotone
    <3>2. CASE d[prefix(m)] # "OR"
      BY <1>2, <2>3, <2>4, <3>2, Monotone
    <3> QED
      BY <3>1, <3>2
  <2> QED
    BY <2>2, <2>5
<1>5. 0 \in S
  <2>1. S \in SUBSET (0..m)
    OBVIOUS
  <2> HIDE DEF S
  <2>2. S \in SUBSET Nat /\ S # {}
    BY <1>1, <1>3, <2>1
  <2>3. PICK n \in S : \A k \in S : n <= k
    BY <2>2, LeastOf
  <2>4. n \in Nat /\ (n # 0 => n <= n - 1)
    BY <1>4, <2>2, <2>3
  <2>5. n = 0
    BY <2>4
  <2> QED
    BY <2>3, <2>5
<1>6. prefix(0) = <<>>
  <2>1. 0 \in 0..Len(path)
    BY <1>1
  <2> QED
    BY <1>1, <2>1, Prefixes
<1>7. less(SelectedAt(d)[prefix(0)], SelectedAt(e)[prefix(0)])
  BY <1>5
<1> HIDE DEF e, prefix
<1>8. less(Selected(d), Selected(e))
  BY <1>6, <1>7 DEF Selected
<1> QED
  BY <1>8 DEF e, prefix

\* The group that decides is on the way, and when there is none, nothing is left.
LEMMA DecidingGroup ==
    ASSUME NEW d, IsTree(d), NEW path \in LeafPaths(d)
    PROVE  \/ Deciding(d, path) = <<0>> /\ RemoveAtPath(d, path) = NoTree
           \/ /\ Deciding(d, path) # <<0>> /\ RemoveAtPath(d, path) # NoTree
              /\ \E m : Decides(d, path, m) /\ Deciding(d, path) = SubSeq(path, 1, m)
<1> DEFINE L == Len(path)
           many == {n \in 0..(L - 1) : Cardinality(Rules(d, SubSeq(path, 1, n))) > 1}
           last == CHOOSE n \in many : \A m \in many : m <= n
<1>1. path \in Seq(Nat \ {0}) /\ L \in Nat \ {0}
  BY KeptAt
<1>2. Deciding(d, path) = IF many = {} THEN <<0>> ELSE SubSeq(path, 1, last)
  BY DEF Deciding
<1>3. CASE many = {}
  <2>1. 0 \in 0..(L - 1) /\ \A m \in 0..(L - 1) : ~(Cardinality(Rules(d, SubSeq(path, 1, m))) > 1)
    BY <1>1, <1>3
  <2>2. Kept(d, path)[0] = {}
    BY <2>1, NothingKept
  <2>3. RemoveAtPath(d, path) = NoTree
    BY <2>2, Pruned
  <2> QED
    BY <1>2, <1>3, <2>3
<1>4. CASE many # {}
  <2>1. \E n \in many : \A m \in many : m <= n
    <3> DEFINE T == {(L - 1) - n : n \in many}
    <3>1. \A n \in many : n \in 0..(L - 1) /\ (L - 1) - n \in Nat
      BY <1>1
    <3> HIDE DEF many
    <3>2. T \in SUBSET Nat /\ T # {}
      BY <1>4, <3>1
    <3>3. PICK t \in T : \A u \in T : t <= u
      <4> HIDE DEF T
      <4> QED
        BY <3>2, LeastOf
    <3>4. PICK n \in many : t = (L - 1) - n
      OBVIOUS
    <3>5. ASSUME NEW m \in many PROVE m <= n
      <4>1. (L - 1) - n <= (L - 1) - m
        BY <3>3, <3>4
      <4> HIDE DEF T
      <4> QED
        BY <1>1, <3>1, <4>1
    <3> QED
      BY <3>5
  <2>2. last \in many /\ \A m \in many : m <= last
    <3> HIDE DEF many
    <3> QED
      BY <2>1
  <2> HIDE DEF last
  <2>3. last \in 0..(L - 1) /\ Cardinality(Rules(d, SubSeq(path, 1, last))) > 1
    BY <2>2
  <2>4. ASSUME NEW k \in (last + 1)..(L - 1)
        PROVE  ~(Cardinality(Rules(d, SubSeq(path, 1, k))) > 1)
    <3>1. k \in 0..(L - 1) /\ ~(k <= last)
      BY <1>1, <2>3
    <3> QED
      BY <2>2, <3>1
  <2>5. Decides(d, path, last)
    BY <2>3, <2>4 DEF Decides
  <2>6. RemoveAtPath(d, path) # NoTree
    BY <2>5, PrunedShape
  <2>7. SubSeq(path, 1, last) # <<0>>
    <3>1. last \in 0..L
      BY <1>1, <2>3
    <3>2. SubSeq(path, 1, last) \in Seq(Nat \ {0})
      BY <1>1, <3>1, Prefixes
    <3>3. \A s \in Seq(Nat \ {0}) : Len(s) = 1 => s[1] # 0
      OBVIOUS
    <3>4. Len(<<0>>) = 1 /\ <<0>>[1] = 0
      OBVIOUS
    <3> QED
      BY <3>2, <3>3, <3>4
  <2> HIDE DEF many
  <2> QED
    BY <1>2, <1>4, <2>5, <2>6, <2>7
<1> QED
  BY <1>3, <1>4

\* A rule under an effective AND can only keep customers out, one under an
\* effective OR only let customers in; without the only leaf nothing is left.
THEOREM PruningSign ==
    ASSUME NEW d, IsTree(d), NEW path \in LeafPaths(d)
    PROVE  LET group == Deciding(d, path)
               pruned == RemoveAtPath(d, path)
           IN  IF group = <<0>> THEN pruned = NoTree
               ELSE /\ pruned # NoTree
                    /\ IF d[group] = "OR" THEN Selected(pruned) \subseteq Selected(d)
                       ELSE Selected(d) \subseteq Selected(pruned)
  BY DecidingGroup, SignAtRoot

=============================================================================
